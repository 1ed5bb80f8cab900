--------------------------- MODULE BufferCacheProofs ---------------------------
(***************************************************************************)
(* The safety of the buffer cache, for all sets of processes, buffers and  *)
(* blocks, whether transfers fail and whether vflushbuf is called.         *)
(*                                                                         *)
(* IInv says that each buffer is in its place (Held) and that each process *)
(* has what it should have at the place it is at (Good).  A step takes one *)
(* buffer x at most out of its place and puts it into another.  What other *)
(* processes rely on is kept if the step does to x what Touch allows; so   *)
(* each action of the model has one lemma that shows where x comes to be,  *)
(* that Touch holds, and where its process has come to.                    *)
(*                                                                         *)
(* The lemmas of the first part are about what the calls are made of: the  *)
(* free lists of kern/vfs_bio.c after an insertion or a removal, what      *)
(* bremfree, brelse, wakeup and VOP_STRATEGY change of a cache, and how a  *)
(* buffer goes from one place to another.  A record c or d stands for a    *)
(* state of the cache, so that a call can be followed through its parts:   *)
(* Held(c, own) says that every buffer is in its place, InHand(c, x, own)  *)
(* the same of all but x, which a call has taken out.                      *)
(***************************************************************************)
EXTENDS BufferCache, FiniteSetTheorems, SequenceTheorems, TLAPS

--------------------------------------------------------------------------------
\* The parts of the calls

\* The two parts of a sequence around the place i.
LEMMA AroundSeq ==
  ASSUME NEW s \in Seq(Buf), NEW n, NEW i \in 1 .. n, n = Len(s)
  PROVE  /\ n \in Nat /\ s \in [1 .. n -> Buf] /\ DOMAIN s = 1 .. n
         /\ SubSeq(s, 1, i - 1) \in Seq(Buf) /\ Len(SubSeq(s, 1, i - 1)) = i - 1
         /\ \A k \in 1 .. i - 1 : SubSeq(s, 1, i - 1)[k] = s[k]
         /\ SubSeq(s, i + 1, n) \in Seq(Buf) /\ Len(SubSeq(s, i + 1, n)) = n - i
         /\ \A k \in 1 .. n - i : SubSeq(s, i + 1, n)[k] = s[i + k]
<1> DEFINE u == SubSeq(s, 1, i - 1)
           v == SubSeq(s, i + 1, n)
<1>1. n \in Nat /\ s \in [1 .. n -> Buf] /\ DOMAIN s = 1 .. n
  OBVIOUS
<1>2. i - 1 \in Int /\ i + 1 \in Int /\ n \in Int /\ 1 \in Int
  BY <1>1
<1>3. (\A k \in 1 .. i - 1 : s[k] \in Buf) /\ \A k \in i + 1 .. n : s[k] \in Buf
  BY <1>1
<1>4. /\ u \in Seq(Buf)
      /\ Len(u) = IF 1 <= i - 1 THEN (i - 1) - 1 + 1 ELSE 0
      /\ \A k \in 1 .. (i - 1) - 1 + 1 : u[k] = s[1 + k - 1]
  BY <1>2, <1>3, SubSeqProperties
<1>5. /\ v \in Seq(Buf)
      /\ Len(v) = IF i + 1 <= n THEN n - (i + 1) + 1 ELSE 0
      /\ \A k \in 1 .. n - (i + 1) + 1 : v[k] = s[(i + 1) + k - 1]
  BY <1>2, <1>3, SubSeqProperties
<1> HIDE DEF u, v
<1>6. Len(u) = i - 1 /\ \A k \in 1 .. i - 1 : u[k] = s[k]
  BY <1>1, <1>4
<1>7. (IF i + 1 <= n THEN n - (i + 1) + 1 ELSE 0) = n - i
  BY <1>1
<1>8. Len(v) = n - i
  BY <1>5, <1>7
<1>9. \A k \in 1 .. n - i : k \in 1 .. n - (i + 1) + 1 /\ (i + 1) + k - 1 = i + k
  BY <1>1
<1> QED BY <1>1, <1>4, <1>5, <1>6, <1>8, <1>9 DEF u, v

\* RemoveAt takes one element off a sequence without repetitions, and nothing else.
LEMMA RemoveSeq ==
  ASSUME NEW s \in Seq(Buf), IsInjective(s), NEW i \in 1 .. Len(s)
  PROVE  /\ RemoveAt(s, i) \in Seq(Buf)
         /\ IsInjective(RemoveAt(s, i))
         /\ ToSet(RemoveAt(s, i)) = ToSet(s) \ {s[i]}
<1> DEFINE n == Len(s)
           u == SubSeq(s, 1, i - 1)
           v == SubSeq(s, i + 1, n)
           w == u \o v
           t == [k \in 1 .. n - 1 |-> IF k < i THEN s[k] ELSE s[k + 1]]
<1> HIDE DEF n
<1>1. /\ i \in 1 .. n /\ n \in Nat /\ s \in [1 .. n -> Buf] /\ DOMAIN s = 1 .. n
      /\ u \in Seq(Buf) /\ Len(u) = i - 1 /\ \A k \in 1 .. i - 1 : u[k] = s[k]
      /\ v \in Seq(Buf) /\ Len(v) = n - i /\ \A k \in 1 .. n - i : v[k] = s[i + k]
  BY AroundSeq DEF n
<1>2. RemoveAt(s, i) = w
  BY DEF RemoveAt, n
<1> HIDE DEF u, v
<1>3. /\ w \in Seq(Buf) /\ Len(w) = Len(u) + Len(v)
      /\ \A k \in 1 .. Len(u) + Len(v) :
            w[k] = IF k <= Len(u) THEN u[k] ELSE v[k - Len(u)]
  BY <1>1, ConcatProperties
<1> HIDE DEF w
<1>4. Len(w) = n - 1 /\ DOMAIN w = 1 .. n - 1
  BY <1>1, <1>3
<1>5. ASSUME NEW k \in 1 .. n - 1 PROVE w[k] = t[k]
  <2>1. k \in 1 .. Len(u) + Len(v)
    BY <1>1
  <2>2. CASE k < i
    BY <1>1, <1>3, <2>1, <2>2
  <2>3. CASE ~(k < i)
    <3>1. /\ k - (i - 1) \in 1 .. n - i /\ i + (k - (i - 1)) = k + 1 /\ ~(k <= i - 1)
      BY <1>1, <2>3
    <3>2. w[k] = v[k - (i - 1)]
      BY <1>1, <1>3, <2>1, <3>1
    <3> QED BY <1>1, <2>3, <3>1, <3>2
  <2> QED BY <2>2, <2>3
<1>6. \A k \in DOMAIN w : \E j \in 1 .. n : j # i /\ w[k] = s[j]
  <2> SUFFICES ASSUME NEW k \in 1 .. n - 1
               PROVE  \E j \in 1 .. n : j # i /\ w[k] = s[j]
    BY <1>4
  <2>1. CASE k < i
    BY <1>1, <1>5, <2>1
  <2>2. CASE ~(k < i)
    <3>1. k + 1 \in 1 .. n /\ k + 1 # i /\ w[k] = s[k + 1]
      BY <1>1, <1>5, <2>2
    <3> QED BY <3>1
  <2> QED BY <2>1, <2>2
<1>7. \A j \in 1 .. n : j # i => \E k \in DOMAIN w : w[k] = s[j]
  <2> SUFFICES ASSUME NEW j \in 1 .. n, j # i
               PROVE  \E k \in DOMAIN w : w[k] = s[j]
    OBVIOUS
  <2>1. CASE j < i
    <3>1. j \in 1 .. n - 1 /\ w[j] = s[j]
      BY <1>1, <1>5, <2>1
    <3> QED BY <1>4, <3>1
  <2>2. CASE ~(j < i)
    <3>1. j - 1 \in 1 .. n - 1 /\ (j - 1) + 1 = j /\ ~(j - 1 < i)
      BY <1>1, <2>2
    <3>2. w[j - 1] = s[j]
      BY <1>5, <3>1
    <3> QED BY <1>4, <3>1, <3>2
  <2> QED BY <2>1, <2>2
<1>8. IsInjective(w)
  <2> SUFFICES ASSUME NEW k \in 1 .. n - 1, NEW l \in 1 .. n - 1, w[k] = w[l]
               PROVE  k = l
    BY <1>4 DEF IsInjective
  <2> DEFINE at(j) == IF j < i THEN j ELSE j + 1
  <2>1. at(k) \in DOMAIN s /\ at(l) \in DOMAIN s /\ s[at(k)] = w[k] /\ s[at(l)] = w[l]
    BY <1>1, <1>5
  <2>2. at(k) = at(l)
    <3> HIDE DEF at
    <3> QED BY <2>1 DEF IsInjective
  <2> QED BY <1>1, <2>2
<1>9. ToSet(w) = ToSet(s) \ {s[i]}
  <2>1. \A y \in ToSet(w) : y \in ToSet(s) \ {s[i]}
    BY <1>1, <1>6 DEF ToSet, IsInjective
  <2>2. \A y \in ToSet(s) \ {s[i]} : y \in ToSet(w)
    BY <1>1, <1>7 DEF ToSet
  <2> QED BY <2>1, <2>2
<1> QED BY <1>2, <1>3, <1>8, <1>9

\* bremfree's TAILQ_REMOVE: x is off the list, the rest stays as it is.
LEMMA OffSeq ==
  ASSUME NEW s \in Seq(Buf), NEW x, IsInjective(s)
  PROVE  /\ Off(s, x) \in Seq(Buf)
         /\ IsInjective(Off(s, x))
         /\ ToSet(Off(s, x)) = ToSet(s) \ {x}
<1>1. CASE x \notin ToSet(s)
  BY <1>1 DEF Off
<1>2. CASE x \in ToSet(s)
  <2> DEFINE i == CHOOSE j \in DOMAIN s : s[j] = x
  <2>1. \E j \in DOMAIN s : s[j] = x
    BY <1>2 DEF ToSet
  <2>2. i \in 1 .. Len(s) /\ s[i] = x
    BY <2>1
  <2>3. Off(s, x) = RemoveAt(s, i)
    BY <1>2 DEF Off
  <2> HIDE DEF i
  <2> QED BY <2>2, <2>3, RemoveSeq
<1> QED BY <1>1, <1>2

\* binstail: a buffer that is not on the list comes to its end.
LEMMA AppendSeq ==
  ASSUME NEW s \in Seq(Buf), NEW x \in Buf, x \notin ToSet(s), IsInjective(s)
  PROVE  /\ Append(s, x) \in Seq(Buf)
         /\ IsInjective(Append(s, x))
         /\ ToSet(Append(s, x)) = ToSet(s) \cup {x}
<1> DEFINE t == Append(s, x)
<1>1. /\ t \in Seq(Buf) /\ DOMAIN t = 1 .. Len(s) + 1 /\ Len(s) \in Nat
      /\ t[Len(s) + 1] = x /\ \A k \in 1 .. Len(s) : t[k] = s[k]
      /\ DOMAIN s = 1 .. Len(s)
  OBVIOUS
<1> HIDE DEF t
<1>2. IsInjective(t)
  BY <1>1 DEF IsInjective, ToSet
<1>3. ToSet(t) = ToSet(s) \cup {x}
  BY <1>1 DEF ToSet
<1> QED BY <1>1, <1>2, <1>3 DEF t

\* binshead: a buffer that is not on the list comes to its head.
LEMMA PrependSeq ==
  ASSUME NEW s \in Seq(Buf), NEW x \in Buf, x \notin ToSet(s), IsInjective(s)
  PROVE  /\ <<x>> \o s \in Seq(Buf)
         /\ IsInjective(<<x>> \o s)
         /\ ToSet(<<x>> \o s) = ToSet(s) \cup {x}
<1> DEFINE t == <<x>> \o s
<1>1. /\ t \in Seq(Buf) /\ DOMAIN t = 1 .. Len(s) + 1 /\ Len(s) \in Nat
      /\ t[1] = x /\ \A k \in 1 .. Len(s) : t[k + 1] = s[k]
      /\ DOMAIN s = 1 .. Len(s)
  OBVIOUS
<1> HIDE DEF t
<1>2. \A k \in 2 .. Len(s) + 1 : k - 1 \in 1 .. Len(s) /\ t[k] = s[k - 1]
  <2> SUFFICES ASSUME NEW k \in 2 .. Len(s) + 1
               PROVE  k - 1 \in 1 .. Len(s) /\ t[k] = s[k - 1]
    OBVIOUS
  <2>1. k - 1 \in 1 .. Len(s) /\ (k - 1) + 1 = k
    BY <1>1
  <2> QED BY <1>1, <2>1
<1>3. \A k \in DOMAIN t : k = 1 \/ k \in 2 .. Len(s) + 1
  BY <1>1
<1>4. IsInjective(t)
  <2> SUFFICES ASSUME NEW k \in DOMAIN t, NEW l \in DOMAIN t, t[k] = t[l]
               PROVE  k = l
    BY DEF IsInjective
  <2>1. \A j \in 2 .. Len(s) + 1 : t[j] \in ToSet(s) /\ t[j] # x
    BY <1>1, <1>2 DEF ToSet
  <2>2. CASE k \in 2 .. Len(s) + 1 /\ l \in 2 .. Len(s) + 1
    <3>1. s[k - 1] = s[l - 1] /\ k - 1 \in DOMAIN s /\ l - 1 \in DOMAIN s
      BY <1>1, <1>2, <2>2
    <3>2. k - 1 = l - 1
      BY <3>1 DEF IsInjective
    <3> QED BY <2>2, <3>2
  <2> QED BY <1>1, <1>3, <2>1, <2>2
<1>5. ASSUME NEW y \in ToSet(t) PROVE y \in ToSet(s) \cup {x}
  <2>1. PICK k \in DOMAIN t : t[k] = y
    BY <1>5 DEF ToSet
  <2> QED BY <1>1, <1>2, <1>3, <2>1 DEF ToSet
<1>6. ASSUME NEW y \in ToSet(s) \cup {x} PROVE y \in ToSet(t)
  <2>1. CASE y = x
    BY <1>1, <2>1 DEF ToSet
  <2>2. CASE y \in ToSet(s)
    <3>1. PICK k \in 1 .. Len(s) : s[k] = y
      BY <1>1, <2>2 DEF ToSet
    <3>2. k + 1 \in DOMAIN t /\ t[k + 1] = y
      BY <1>1, <3>1
    <3> QED BY <3>2 DEF ToSet
  <2> QED BY <1>6, <2>1, <2>2
<1> QED BY <1>1, <1>4, <1>5, <1>6 DEF t

\* The two free lists have each buffer of S, once.
GoodLists(c, S) ==
    /\ c.lru \in Seq(Buf) /\ c.age \in Seq(Buf)
    /\ IsInjective(c.lru) /\ IsInjective(c.age)
    /\ ToSet(c.age) \cap ToSet(c.lru) = {}
    /\ ToSet(c.age) \cup ToSet(c.lru) = S

\* The lists of c and d are the same.
SameLists(c, d) == d.lru = c.lru /\ d.age = c.age

\* What the parts of the calls change of a cache, one by one: flags are added,
LEMMA AddFacts ==
  ASSUME NEW c \in Cache, NEW x \in Buf, NEW f \in SUBSET Flag
  PROVE  LET d == Add(c, x, f)
         IN  /\ d \in Cache /\ d.flags = [c.flags EXCEPT ![x] = c.flags[x] \cup f]
             /\ d.hash = c.hash /\ d.data = c.data /\ d.io = c.io
             /\ d.needbuffer = c.needbuffer /\ d.wait = c.wait /\ SameLists(c, d)
BY DEF Add, Cache, SameLists

\* flags are taken off,
LEMMA ClearFacts ==
  ASSUME NEW c \in Cache, NEW x \in Buf, NEW f
  PROVE  LET d == Clear(c, x, f)
         IN  /\ d \in Cache /\ d.flags = [c.flags EXCEPT ![x] = c.flags[x] \ f]
             /\ d.hash = c.hash /\ d.data = c.data /\ d.io = c.io
             /\ d.needbuffer = c.needbuffer /\ d.wait = c.wait /\ SameLists(c, d)
BY DEF Clear, Cache, SameLists

\* and whoever sleeps on an identifier is woken.
LEMMA WakeupFacts ==
  ASSUME NEW c \in Cache, NEW ident
  PROVE  LET d == Wakeup(c, ident)
         IN  /\ d \in Cache /\ d.flags = c.flags
             /\ d.hash = c.hash /\ d.data = c.data /\ d.io = c.io
             /\ d.needbuffer = c.needbuffer /\ SameLists(c, d)
             /\ \A p \in Proc : d.wait[p] = IF c.wait[p] = ident THEN NoWait ELSE c.wait[p]
BY DEF Wakeup, Cache, SameLists

\* bremfree, whether x is on a list or not
LEMMA BremfreeFacts ==
  ASSUME NEW c \in Cache, NEW x \in Buf, NEW S, GoodLists(c, S)
  PROVE  LET d == Bremfree(c, x)
         IN  /\ d \in Cache /\ d.flags = c.flags
             /\ d.hash = c.hash /\ d.data = c.data /\ d.io = c.io
             /\ d.needbuffer = c.needbuffer /\ d.wait = c.wait
             /\ GoodLists(d, S \ {x})
<1> DEFINE d == Bremfree(c, x)
<1>1. /\ Off(c.lru, x) \in Seq(Buf) /\ IsInjective(Off(c.lru, x))
      /\ ToSet(Off(c.lru, x)) = ToSet(c.lru) \ {x}
      /\ Off(c.age, x) \in Seq(Buf) /\ IsInjective(Off(c.age, x))
      /\ ToSet(Off(c.age, x)) = ToSet(c.age) \ {x}
  BY OffSeq DEF GoodLists
<1>2. /\ d \in Cache /\ d.flags = c.flags
      /\ d.hash = c.hash /\ d.data = c.data /\ d.io = c.io
      /\ d.needbuffer = c.needbuffer /\ d.wait = c.wait
      /\ d.lru = Off(c.lru, x) /\ d.age = Off(c.age, x)
  BY <1>1 DEF Bremfree, Cache
<1> HIDE DEF d
<1>3. GoodLists(d, S \ {x})
  BY <1>1, <1>2 DEF GoodLists
<1> QED BY <1>2, <1>3 DEF d

\* The last part of brelse, for a buffer on neither list
LEMMA QueueFacts ==
  ASSUME NEW c \in Cache, NEW x \in Buf, NEW S, x \notin S, GoodLists(c, S)
  PROVE  LET d == Queue(c, x)
         IN  /\ d \in Cache
             /\ d.flags = [c.flags EXCEPT ![x] =
                   c.flags[x] \ IF "ERROR" \in c.flags[x] THEN {"DELWRI"} ELSE {}]
             /\ d.hash = [c.hash EXCEPT ![x] =
                   IF "ERROR" \in c.flags[x] THEN NoBlock ELSE c.hash[x]]
             /\ d.data = c.data /\ d.io = c.io
             /\ d.needbuffer = c.needbuffer /\ d.wait = c.wait
             /\ GoodLists(d, S \cup {x})
<1> DEFINE d == Queue(c, x)
<1>0. x \notin ToSet(c.lru) /\ x \notin ToSet(c.age)
  BY DEF GoodLists
<1>1. /\ <<x>> \o c.age \in Seq(Buf) /\ IsInjective(<<x>> \o c.age)
      /\ ToSet(<<x>> \o c.age) = ToSet(c.age) \cup {x}
      /\ Append(c.age, x) \in Seq(Buf) /\ IsInjective(Append(c.age, x))
      /\ ToSet(Append(c.age, x)) = ToSet(c.age) \cup {x}
      /\ Append(c.lru, x) \in Seq(Buf) /\ IsInjective(Append(c.lru, x))
      /\ ToSet(Append(c.lru, x)) = ToSet(c.lru) \cup {x}
  BY <1>0, AppendSeq, PrependSeq DEF GoodLists
<1>2. CASE "ERROR" \in c.flags[x]
  <2>1. /\ d \in Cache /\ d.flags = [c.flags EXCEPT ![x] = c.flags[x] \ {"DELWRI"}]
        /\ d.hash = [c.hash EXCEPT ![x] = NoBlock]
        /\ d.data = c.data /\ d.io = c.io
        /\ d.needbuffer = c.needbuffer /\ d.wait = c.wait
        /\ d.lru = c.lru /\ d.age = <<x>> \o c.age
    BY <1>1, <1>2 DEF Queue, Has, Clear, Cache
  <2> HIDE DEF d
  <2>2. GoodLists(d, S \cup {x})
    BY <1>0, <1>1, <2>1 DEF GoodLists
  <2> QED BY <1>2, <2>1, <2>2 DEF d
<1>3. CASE "ERROR" \notin c.flags[x] /\ "AGE" \in c.flags[x]
  <2>1. d = [c EXCEPT !.age = Append(@, x)]
    BY <1>3 DEF Queue, Has
  <2> HIDE DEF d
  <2>2. /\ d \in Cache /\ d.flags = c.flags /\ d.hash = c.hash
        /\ d.data = c.data /\ d.io = c.io
        /\ d.needbuffer = c.needbuffer /\ d.wait = c.wait
        /\ d.lru = c.lru /\ d.age = Append(c.age, x)
    BY <1>1, <2>1 DEF Cache
  <2>3. GoodLists(d, S \cup {x})
    BY <1>0, <1>1, <2>2 DEF GoodLists
  <2>4. /\ c.flags = [c.flags EXCEPT ![x] = c.flags[x] \ {}]
        /\ c.hash = [c.hash EXCEPT ![x] = c.hash[x]]
    BY DEF Cache
  <2> QED BY <1>3, <2>2, <2>3, <2>4 DEF d
<1>4. CASE "ERROR" \notin c.flags[x] /\ "AGE" \notin c.flags[x]
  <2>1. d = [c EXCEPT !.lru = Append(@, x)]
    BY <1>4 DEF Queue, Has
  <2> HIDE DEF d
  <2>2. /\ d \in Cache /\ d.flags = c.flags /\ d.hash = c.hash
        /\ d.data = c.data /\ d.io = c.io
        /\ d.needbuffer = c.needbuffer /\ d.wait = c.wait
        /\ d.age = c.age /\ d.lru = Append(c.lru, x)
    BY <1>1, <2>1 DEF Cache
  <2>3. GoodLists(d, S \cup {x})
    BY <1>0, <1>1, <2>2 DEF GoodLists
  <2>4. /\ c.flags = [c.flags EXCEPT ![x] = c.flags[x] \ {}]
        /\ c.hash = [c.hash EXCEPT ![x] = c.hash[x]]
    BY DEF Cache
  <2> QED BY <1>4, <2>2, <2>3, <2>4 DEF d
<1> QED BY <1>2, <1>3, <1>4

\* p is one of those that brelse wakes before it looks at the buffer.
Woken(c, x, p) ==
    \/ c.needbuffer /\ c.wait[p] = NeedBuffer
    \/ "WANTED" \in c.flags[x] /\ c.wait[p] = x

\* The first part of brelse
LEMMA WakeWaitersFacts ==
  ASSUME NEW c \in Cache, NEW x \in Buf
  PROVE  LET d == WakeWaiters(c, x)
         IN  /\ d \in Cache /\ d.flags = [c.flags EXCEPT ![x] = c.flags[x] \ {"WANTED"}]
             /\ d.hash = c.hash /\ d.data = c.data /\ d.io = c.io
             /\ d.needbuffer = FALSE /\ SameLists(c, d)
             /\ \A p \in Proc : d.wait[p] = IF Woken(c, x, p) THEN NoWait ELSE c.wait[p]
<1> DEFINE any == IF c.needbuffer THEN [Wakeup(c, NeedBuffer) EXCEPT !.needbuffer = FALSE]
                  ELSE c
<1>1. /\ any \in Cache /\ any.flags = c.flags
      /\ any.hash = c.hash /\ any.data = c.data /\ any.io = c.io
      /\ any.needbuffer = FALSE /\ SameLists(c, any)
      /\ \A p \in Proc : any.wait[p] =
            IF c.needbuffer /\ c.wait[p] = NeedBuffer THEN NoWait ELSE c.wait[p]
  <2>1. CASE c.needbuffer
    <3> DEFINE w == Wakeup(c, NeedBuffer)
    <3>1. /\ w \in Cache /\ w.flags = c.flags
          /\ w.hash = c.hash /\ w.data = c.data /\ w.io = c.io /\ SameLists(c, w)
          /\ \A p \in Proc : w.wait[p] =
                IF c.wait[p] = NeedBuffer THEN NoWait ELSE c.wait[p]
      BY WakeupFacts
    <3>2. any = [w EXCEPT !.needbuffer = FALSE]
      BY <2>1
    <3> HIDE DEF w, any
    <3> QED BY <2>1, <3>1, <3>2 DEF Cache, SameLists
  <2>2. CASE ~c.needbuffer
    BY <2>2 DEF Cache, SameLists
  <2> QED BY <2>1, <2>2
<1> DEFINE d == WakeWaiters(c, x)
<1>2. d = IF "WANTED" \in any.flags[x] THEN Wakeup(Clear(any, x, {"WANTED"}), x) ELSE any
  BY DEF WakeWaiters, Has
<1> HIDE DEF any
<1>3. CASE "WANTED" \in c.flags[x]
  <2> DEFINE e == Clear(any, x, {"WANTED"})
  <2>1. /\ e \in Cache /\ e.flags = [any.flags EXCEPT ![x] = any.flags[x] \ {"WANTED"}]
        /\ e.hash = any.hash /\ e.data = any.data /\ e.io = any.io
        /\ e.needbuffer = any.needbuffer /\ e.wait = any.wait /\ SameLists(any, e)
    BY <1>1, ClearFacts
  <2> HIDE DEF e
  <2>2. d = Wakeup(e, x)
    BY <1>1, <1>2, <1>3 DEF e
  <2>3. /\ d \in Cache /\ d.flags = e.flags
        /\ d.hash = e.hash /\ d.data = e.data /\ d.io = e.io
        /\ d.needbuffer = e.needbuffer /\ SameLists(e, d)
        /\ \A p \in Proc : d.wait[p] = IF e.wait[p] = x THEN NoWait ELSE e.wait[p]
    BY <2>1, <2>2, WakeupFacts
  <2> HIDE DEF d
  <2>4. NoWait # x
    BY NamesAssumption
  <2> QED BY <1>1, <1>3, <2>1, <2>3, <2>4 DEF Woken, SameLists, d
<1>4. CASE "WANTED" \notin c.flags[x]
  <2>1. d = any
    BY <1>1, <1>2, <1>4
  <2>2. c.flags = [c.flags EXCEPT ![x] = c.flags[x] \ {"WANTED"}]
    BY <1>4 DEF Cache
  <2> HIDE DEF d
  <2> QED BY <1>1, <1>4, <2>1, <2>2 DEF Woken, d
<1> QED BY <1>3, <1>4

\* The same part of brelse for a buffer that vflushbuf wrote, which is on a list
\* already, and for any other
LEMMA RequeueFacts ==
  ASSUME NEW c \in Cache, NEW x \in Buf, NEW S, GoodLists(c, S),
         x \in S <=> "VFLUSH" \in c.flags[x]
  PROVE  LET d == Requeue(c, x)
         IN  /\ d \in Cache
             /\ d.flags = [c.flags EXCEPT ![x] = c.flags[x] \ ({"VFLUSH"} \cup
                   IF "ERROR" \in c.flags[x] THEN {"DELWRI"} ELSE {})]
             /\ d.hash = [c.hash EXCEPT ![x] =
                   IF "ERROR" \in c.flags[x] THEN NoBlock ELSE c.hash[x]]
             /\ d.data = c.data /\ d.io = c.io
             /\ d.needbuffer = c.needbuffer /\ d.wait = c.wait
             /\ GoodLists(d, S \cup {x})
<1> DEFINE d == Requeue(c, x)
           e == Clear(c, x, {"VFLUSH"})
<1>1. /\ e \in Cache /\ e.flags = [c.flags EXCEPT ![x] = c.flags[x] \ {"VFLUSH"}]
      /\ e.hash = c.hash /\ e.data = c.data /\ e.io = c.io
      /\ e.needbuffer = c.needbuffer /\ e.wait = c.wait /\ SameLists(c, e)
  BY ClearFacts
<1>2. d = IF "VFLUSH" \notin c.flags[x] THEN Queue(c, x)
          ELSE IF "ERROR" \in c.flags[x] \/ "AGE" \in c.flags[x]
               THEN Queue(Bremfree(e, x), x) ELSE e
  BY DEF Requeue, Has
<1> HIDE DEF d, e
<1>3. GoodLists(e, S)
  BY <1>1 DEF GoodLists, SameLists
<1>4. CASE "VFLUSH" \notin c.flags[x]
  <2>1. /\ d \in Cache
        /\ d.flags = [c.flags EXCEPT ![x] =
              c.flags[x] \ IF "ERROR" \in c.flags[x] THEN {"DELWRI"} ELSE {}]
        /\ d.hash = [c.hash EXCEPT ![x] =
              IF "ERROR" \in c.flags[x] THEN NoBlock ELSE c.hash[x]]
        /\ d.data = c.data /\ d.io = c.io
        /\ d.needbuffer = c.needbuffer /\ d.wait = c.wait
        /\ GoodLists(d, S \cup {x})
    BY <1>2, <1>4, QueueFacts
  <2>2. c.flags[x] \ (IF "ERROR" \in c.flags[x] THEN {"DELWRI"} ELSE {}) =
        c.flags[x] \ ({"VFLUSH"} \cup IF "ERROR" \in c.flags[x] THEN {"DELWRI"} ELSE {})
    BY <1>4
  <2> QED BY <2>1, <2>2 DEF d
<1>5. CASE "VFLUSH" \in c.flags[x] /\ ("ERROR" \in c.flags[x] \/ "AGE" \in c.flags[x])
  <2> DEFINE f == Bremfree(e, x)
  <2>1. /\ f \in Cache /\ f.flags = e.flags
        /\ f.hash = e.hash /\ f.data = e.data /\ f.io = e.io
        /\ f.needbuffer = e.needbuffer /\ f.wait = e.wait
        /\ GoodLists(f, S \ {x})
    BY <1>1, <1>3, BremfreeFacts
  <2>2. d = Queue(f, x)
    BY <1>2, <1>5
  <2> HIDE DEF f
  <2>3. /\ d \in Cache
        /\ d.flags = [f.flags EXCEPT ![x] =
              f.flags[x] \ IF "ERROR" \in f.flags[x] THEN {"DELWRI"} ELSE {}]
        /\ d.hash = [f.hash EXCEPT ![x] =
              IF "ERROR" \in f.flags[x] THEN NoBlock ELSE f.hash[x]]
        /\ d.data = f.data /\ d.io = f.io
        /\ d.needbuffer = f.needbuffer /\ d.wait = f.wait
        /\ GoodLists(d, (S \ {x}) \cup {x})
    <3>1. x \notin S \ {x}
      OBVIOUS
    <3> QED BY <2>1, <2>2, <3>1, QueueFacts
  <2>4. (S \ {x}) \cup {x} = S \cup {x}
    OBVIOUS
  <2>5. f.flags[x] = c.flags[x] \ {"VFLUSH"} /\ f.flags = [c.flags EXCEPT ![x] = f.flags[x]]
    BY <1>1, <2>1 DEF Cache
  <2>6. d.flags = [c.flags EXCEPT ![x] = c.flags[x] \ ({"VFLUSH"} \cup
                   IF "ERROR" \in c.flags[x] THEN {"DELWRI"} ELSE {})]
    <3>1. f.flags[x] \ (IF "ERROR" \in f.flags[x] THEN {"DELWRI"} ELSE {}) =
          c.flags[x] \ ({"VFLUSH"} \cup IF "ERROR" \in c.flags[x] THEN {"DELWRI"} ELSE {})
      BY <2>5
    <3> QED BY <2>3, <2>5, <3>1 DEF Cache
  <2>7. d.hash = [c.hash EXCEPT ![x] =
                   IF "ERROR" \in c.flags[x] THEN NoBlock ELSE c.hash[x]]
    BY <1>1, <2>1, <2>3, <2>5 DEF Cache
  <2> QED BY <1>1, <2>1, <2>3, <2>4, <2>6, <2>7 DEF d
<1>6. CASE "VFLUSH" \in c.flags[x] /\ ~("ERROR" \in c.flags[x] \/ "AGE" \in c.flags[x])
  <2>1. d = e /\ S \cup {x} = S
    BY <1>2, <1>6
  <2>2. c.flags[x] \ {"VFLUSH"} =
        c.flags[x] \ ({"VFLUSH"} \cup IF "ERROR" \in c.flags[x] THEN {"DELWRI"} ELSE {})
    BY <1>6
  <2>3. c.hash = [c.hash EXCEPT ![x] =
                   IF "ERROR" \in c.flags[x] THEN NoBlock ELSE c.hash[x]]
    BY <1>6 DEF Cache
  <2> QED BY <1>1, <1>3, <2>1, <2>2, <2>3 DEF d
<1> QED BY <1>4, <1>5, <1>6

\* The flags that brelse leaves to a buffer with the flags g
Freed(g) == g \ ({"WANTED", "VFLUSH", "AGE", "ASYNC", "BUSY"} \cup
                  IF "ERROR" \in g THEN {"DELWRI"} ELSE {})

\* brelse: x is on a free list, without its block if it is invalid, and whoever
\* waits for it or for any buffer is awake.
LEMMA BrelseFacts ==
  ASSUME NEW c \in Cache, NEW x \in Buf, NEW S, GoodLists(c, S),
         x \in S <=> "VFLUSH" \in c.flags[x]
  PROVE  LET d == Brelse(c, x)
         IN  /\ d \in Cache
             /\ d.flags = [c.flags EXCEPT ![x] = Freed(c.flags[x])]
             /\ d.hash = [c.hash EXCEPT ![x] =
                   IF "ERROR" \in c.flags[x] THEN NoBlock ELSE c.hash[x]]
             /\ d.data = c.data /\ d.io = c.io /\ d.needbuffer = FALSE
             /\ GoodLists(d, S \cup {x})
             /\ \A p \in Proc : d.wait[p] = IF Woken(c, x, p) THEN NoWait ELSE c.wait[p]
<1> DEFINE w == WakeWaiters(c, x)
           r == Requeue(w, x)
           d == Brelse(c, x)
<1>1. /\ w \in Cache /\ w.flags = [c.flags EXCEPT ![x] = c.flags[x] \ {"WANTED"}]
      /\ w.hash = c.hash /\ w.data = c.data /\ w.io = c.io
      /\ w.needbuffer = FALSE /\ SameLists(c, w)
      /\ \A p \in Proc : w.wait[p] = IF Woken(c, x, p) THEN NoWait ELSE c.wait[p]
  BY WakeWaitersFacts
<1> HIDE DEF w
<1>2. GoodLists(w, S) /\ w.flags[x] = c.flags[x] \ {"WANTED"}
  BY <1>1 DEF GoodLists, SameLists, Cache
<1>3. x \in S <=> "VFLUSH" \in w.flags[x]
  BY <1>2
<1>4. /\ r \in Cache
      /\ r.flags = [w.flags EXCEPT ![x] = w.flags[x] \ ({"VFLUSH"} \cup
            IF "ERROR" \in w.flags[x] THEN {"DELWRI"} ELSE {})]
      /\ r.hash = [w.hash EXCEPT ![x] =
            IF "ERROR" \in w.flags[x] THEN NoBlock ELSE w.hash[x]]
      /\ r.data = w.data /\ r.io = w.io
      /\ r.needbuffer = w.needbuffer /\ r.wait = w.wait
      /\ GoodLists(r, S \cup {x})
  BY <1>1, <1>2, <1>3, RequeueFacts
<1>5. d = Clear(r, x, {"AGE", "ASYNC", "BUSY"})
  BY DEF Brelse, w
<1> HIDE DEF r
<1>6. /\ d \in Cache
      /\ d.flags = [r.flags EXCEPT ![x] = r.flags[x] \ {"AGE", "ASYNC", "BUSY"}]
      /\ d.hash = r.hash /\ d.data = r.data /\ d.io = r.io
      /\ d.needbuffer = r.needbuffer /\ d.wait = r.wait /\ SameLists(r, d)
  BY <1>4, <1>5, ClearFacts
<1> HIDE DEF d
<1>7. GoodLists(d, S \cup {x})
  BY <1>4, <1>6 DEF GoodLists, SameLists
<1>8. d.flags = [c.flags EXCEPT ![x] = Freed(c.flags[x])]
  <2>1. r.flags[x] = w.flags[x] \ ({"VFLUSH"} \cup
            IF "ERROR" \in w.flags[x] THEN {"DELWRI"} ELSE {})
    BY <1>1, <1>4 DEF Cache
  <2>2. r.flags[x] \ {"AGE", "ASYNC", "BUSY"} = Freed(c.flags[x])
    BY <1>2, <2>1 DEF Freed
  <2>3. d.flags[x] = Freed(c.flags[x])
    BY <1>4, <1>6, <2>2 DEF Cache
  <2>4. \A y \in Buf : y # x => d.flags[y] = r.flags[y] /\ r.flags[y] = w.flags[y]
                               /\ w.flags[y] = c.flags[y]
    BY <1>1, <1>4, <1>6 DEF Cache
  <2>5. d.flags \in [Buf -> SUBSET Flag] /\ c.flags \in [Buf -> SUBSET Flag]
    BY <1>6 DEF Cache
  <2> QED BY <2>3, <2>4, <2>5
<1>9. d.hash = [c.hash EXCEPT ![x] =
                   IF "ERROR" \in c.flags[x] THEN NoBlock ELSE c.hash[x]]
  BY <1>1, <1>2, <1>4, <1>6
<1> QED BY <1>1, <1>4, <1>6, <1>7, <1>8, <1>9 DEF d

--------------------------------------------------------------------------------
\* VOP_STRATEGY for a write,
LEMMA StartWriteFacts ==
  ASSUME NEW c \in Cache, NEW x \in Buf
  PROVE  LET d == StartWrite(c, x)
         IN  /\ d \in Cache
             /\ d.flags = [c.flags EXCEPT ![x] =
                             c.flags[x] \ {"READ", "DONE", "ERROR", "DELWRI"}]
             /\ d.io = c.io \cup {x}
             /\ d.hash = c.hash /\ d.data = c.data
             /\ d.needbuffer = c.needbuffer /\ d.wait = c.wait /\ SameLists(c, d)
BY DEF StartWrite, Clear, Cache, SameLists

\* VOP_STRATEGY for a read,
LEMMA StartReadFacts ==
  ASSUME NEW c \in Cache, NEW x \in Buf, NEW f \in SUBSET {"ASYNC"}
  PROVE  LET d == StartRead(c, x, f)
         IN  /\ d \in Cache
             /\ d.flags = [c.flags EXCEPT ![x] = c.flags[x] \cup ({"READ"} \cup f)]
             /\ d.io = c.io \cup {x}
             /\ d.hash = c.hash /\ d.data = c.data
             /\ d.needbuffer = c.needbuffer /\ d.wait = c.wait /\ SameLists(c, d)
<1>1. {"READ"} \cup f \in SUBSET Flag
  BY DEF Flag
<1> QED BY <1>1 DEF StartRead, Add, Cache, SameLists

\* and tsleep
LEMMA TsleepFacts ==
  ASSUME NEW c \in Cache, NEW p \in Proc,
         NEW ident \in Buf \cup {NeedBuffer, NumOutput}
  PROVE  LET d == Tsleep(c, p, ident)
         IN  /\ d \in Cache /\ d.flags = c.flags /\ d.hash = c.hash /\ d.data = c.data
             /\ d.io = c.io /\ d.needbuffer = c.needbuffer /\ SameLists(c, d)
             /\ d.wait = [c.wait EXCEPT ![p] = ident]
BY DEF Tsleep, Cache, SameLists

\* The buffers that the free lists have to have
Free(c) == {x \in Buf : "BUSY" \notin c.flags[x] \/ "VFLUSH" \in c.flags[x]}

\* What the flags of y say of its block and its transfer
Mark(c, y) ==
    /\ "BUSY" \in c.flags[y] => c.hash[y] # NoBlock
    /\ "DELWRI" \in c.flags[y] =>
          "DONE" \in c.flags[y] /\ "ERROR" \notin c.flags[y] /\ c.hash[y] # NoBlock
    /\ y \in c.io => /\ "BUSY" \in c.flags[y]
                     /\ "DONE" \notin c.flags[y] /\ "DELWRI" \notin c.flags[y]

\* Buffer y is busy if and only if the driver has it for nobody, or a process has it
\* (own).  An invalid buffer that nobody has belongs to no block.
Place(c, own, y) ==
    /\ "BUSY" \in c.flags[y] <=> \/ y \in c.io /\ "ASYNC" \in c.flags[y]
                                 \/ \E p \in Proc : own[p] = y
    /\ "VFLUSH" \in c.flags[y] => y \in c.io /\ "ASYNC" \in c.flags[y]
    /\ "ASYNC" \in c.flags[y] => y \in c.io
    /\ "ERROR" \in c.flags[y] /\ "BUSY" \notin c.flags[y] => c.hash[y] = NoBlock

\* What holds of all buffers, the one that a call is working on included.
Common(c, own) ==
    /\ c \in Cache /\ own \in [Proc -> Buf \cup {NoBuf}]
    /\ GoodLists(c, Free(c))
    /\ \A y \in Buf : Mark(c, y)
    /\ \A p \in Proc : own[p] \in c.io => "ASYNC" \notin c.flags[own[p]]
    /\ \A p, q \in Proc : own[p] = own[q] /\ p # q => own[p] = NoBuf
    /\ \A y, z \in Buf : y # z => c.hash[y] = NoBlock \/ c.hash[y] # c.hash[z]

\* Every buffer is in its place.
Held(c, own) == Common(c, own) /\ \A y \in Buf : Place(c, own, y)

\* A call has taken x out of its place, and has not put it into another yet.
InHand(c, x, own) ==
    /\ Common(c, own)
    /\ \A y \in Buf \ {x} : Place(c, own, y)
    /\ "BUSY" \in c.flags[x] /\ x \notin c.io
    /\ \A p \in Proc : own[p] # x

\* brelse puts the buffer in hand into its place.
LEMMA BrelseHeld ==
  ASSUME NEW c, NEW x \in Buf, NEW own, InHand(c, x, own)
  PROVE  Held(Brelse(c, x), own)
<1> DEFINE d == Brelse(c, x)
<1>0. c \in Cache /\ GoodLists(c, Free(c)) /\ (x \in Free(c) <=> "VFLUSH" \in c.flags[x])
  BY DEF InHand, Common, Free
<1>1. /\ d \in Cache
      /\ d.flags = [c.flags EXCEPT ![x] = Freed(c.flags[x])]
      /\ d.hash = [c.hash EXCEPT ![x] =
            IF "ERROR" \in c.flags[x] THEN NoBlock ELSE c.hash[x]]
      /\ d.io = c.io
      /\ GoodLists(d, Free(c) \cup {x})
  BY <1>0, BrelseFacts
<1> HIDE DEF d
<1>2. /\ d.flags[x] = Freed(c.flags[x])
      /\ d.hash[x] = IF "ERROR" \in c.flags[x] THEN NoBlock ELSE c.hash[x]
      /\ \A y \in Buf \ {x} : d.flags[y] = c.flags[y] /\ d.hash[y] = c.hash[y]
  BY <1>0, <1>1 DEF Cache
<1>3. Free(d) = Free(c) \cup {x}
  BY <1>2 DEF Free, Freed
<1>4. ASSUME NEW y \in Buf PROVE Mark(d, y) /\ Place(d, own, y)
  <2>1. CASE y = x
    BY <1>1, <1>2, <2>1 DEF InHand, Common, Mark, Place, Freed
  <2>2. CASE y # x
    BY <1>1, <1>2, <2>2 DEF InHand, Common, Mark, Place
  <2> QED BY <2>1, <2>2
<1>5. ASSUME NEW p \in Proc, own[p] \in c.io PROVE "ASYNC" \notin d.flags[own[p]]
  <2>1. own[p] \in Buf \ {x} /\ "ASYNC" \notin c.flags[own[p]]
    BY <1>0, <1>5 DEF InHand, Common, Cache
  <2> QED BY <1>2, <2>1
<1>6. ASSUME NEW y \in Buf, NEW z \in Buf, y # z
      PROVE  d.hash[y] = NoBlock \/ d.hash[y] # d.hash[z]
  BY <1>2, <1>6 DEF InHand, Common
<1> QED BY <1>1, <1>3, <1>4, <1>5, <1>6 DEF InHand, Common, Held, d

\* A buffer in hand may change its flags.
LEMMA Remark ==
  ASSUME NEW c, NEW x \in Buf, NEW own, InHand(c, x, own),
         NEW d \in Cache, NEW g, d.flags = [c.flags EXCEPT ![x] = g],
         "BUSY" \in g, "VFLUSH" \in g <=> "VFLUSH" \in c.flags[x],
         "DELWRI" \in g => "DONE" \in g /\ "ERROR" \notin g,
         d.hash = c.hash, d.io = c.io, SameLists(c, d)
  PROVE  InHand(d, x, own)
<1>0. c \in Cache
  BY DEF InHand, Common
<1>2. /\ d.flags[x] = g
      /\ \A y \in Buf \ {x} : d.flags[y] = c.flags[y]
  BY <1>0 DEF Cache
<1>3. Free(d) = Free(c)
  BY <1>2 DEF Free, InHand
<1>4. GoodLists(d, Free(d))
  BY <1>3 DEF GoodLists, SameLists, InHand, Common
<1>5. ASSUME NEW y \in Buf PROVE Mark(d, y) /\ (y # x => Place(d, own, y))
  BY <1>2 DEF InHand, Common, Mark, Place
<1>6. ASSUME NEW p \in Proc, own[p] \in c.io PROVE "ASYNC" \notin d.flags[own[p]]
  <2>1. own[p] \in Buf \ {x} /\ "ASYNC" \notin c.flags[own[p]]
    BY <1>0, <1>6 DEF InHand, Common, Cache
  <2> QED BY <1>2, <2>1
<1> QED BY <1>2, <1>4, <1>5, <1>6 DEF InHand, Common

\* Process p keeps the buffer in hand, with or without a transfer that it waits for.
LEMMA KeepHeld ==
  ASSUME NEW c, NEW x \in Buf, NEW own, InHand(c, x, own), NEW p \in Proc, own[p] = NoBuf,
         "ASYNC" \notin c.flags[x], "VFLUSH" \notin c.flags[x],
         NEW d \in Cache, NEW g, d.flags = [c.flags EXCEPT ![x] = g],
         g \cap {"ASYNC", "VFLUSH"} = {}, "BUSY" \in g,
         "DELWRI" \in g => "DONE" \in g /\ "ERROR" \notin g,
         d.hash = c.hash, SameLists(c, d),
         \/ d.io = c.io
         \/ d.io = c.io \cup {x} /\ g \cap {"DONE", "DELWRI"} = {}
  PROVE  Held(d, [own EXCEPT ![p] = x])
<1> DEFINE new == [own EXCEPT ![p] = x]
<1>0. c \in Cache /\ own \in [Proc -> Buf \cup {NoBuf}] /\ NoBuf \notin Buf
  BY NamesAssumption DEF InHand, Common
<1>1. /\ new \in [Proc -> Buf \cup {NoBuf}] /\ new[p] = x
      /\ \A q \in Proc \ {p} : new[q] = own[q]
  BY <1>0
<1> HIDE DEF new
<1>2. /\ d.flags[x] = g
      /\ \A y \in Buf \ {x} : d.flags[y] = c.flags[y] /\ (y \in d.io <=> y \in c.io)
  BY <1>0 DEF Cache
<1>3. Free(d) = Free(c)
  BY <1>2 DEF Free, InHand
<1>4. GoodLists(d, Free(d))
  BY <1>3 DEF GoodLists, SameLists, InHand, Common
<1>5. ASSUME NEW y \in Buf PROVE Mark(d, y) /\ Place(d, new, y)
  <2>1. CASE y = x
    BY <1>1, <1>2, <2>1 DEF InHand, Common, Mark, Place
  <2>2. CASE y # x
    <3>1. (\E q \in Proc : new[q] = y) <=> (\E q \in Proc : own[q] = y)
      BY <1>0, <1>1, <2>2
    <3> QED BY <1>2, <2>2, <3>1 DEF InHand, Common, Mark, Place
  <2> QED BY <2>1, <2>2
<1>6. ASSUME NEW q \in Proc, new[q] \in d.io PROVE "ASYNC" \notin d.flags[new[q]]
  <2>1. CASE q = p
    BY <1>1, <1>2, <2>1
  <2>2. CASE q # p
    <3>1. own[q] \in Buf \ {x} /\ own[q] \in c.io /\ new[q] = own[q]
      BY <1>1, <1>2, <1>6, <2>2 DEF InHand, Cache
    <3> QED BY <1>2, <3>1 DEF InHand, Common
  <2> QED BY <2>1, <2>2
<1>7. ASSUME NEW q \in Proc, NEW r \in Proc, q # r, new[q] = new[r] PROVE new[q] = NoBuf
  BY <1>1, <1>7 DEF InHand, Common
<1>8. \A y, z \in Buf : y # z => d.hash[y] = NoBlock \/ d.hash[y] # d.hash[z]
  BY DEF InHand, Common
<1>9. Common(d, new)
  BY <1>1, <1>4, <1>5, <1>6, <1>7, <1>8 DEF Common
<1> QED BY <1>5, <1>9 DEF Held, new

\* The driver gets the buffer in hand for a transfer that nobody waits for.
LEMMA AsyncHeld ==
  ASSUME NEW c, NEW x \in Buf, NEW own, InHand(c, x, own),
         NEW d \in Cache, NEW g, d.flags = [c.flags EXCEPT ![x] = g],
         {"ASYNC", "BUSY"} \subseteq g, "VFLUSH" \in g <=> "VFLUSH" \in c.flags[x],
         g \cap {"DONE", "DELWRI"} = {},
         d.hash = c.hash, SameLists(c, d), d.io = c.io \cup {x}
  PROVE  Held(d, own)
<1>0. c \in Cache /\ own \in [Proc -> Buf \cup {NoBuf}]
  BY DEF InHand, Common
<1>2. /\ d.flags[x] = g
      /\ \A y \in Buf \ {x} : d.flags[y] = c.flags[y] /\ (y \in d.io <=> y \in c.io)
  BY <1>0 DEF Cache
<1>3. Free(d) = Free(c)
  BY <1>2 DEF Free, InHand
<1>4. GoodLists(d, Free(d))
  BY <1>3 DEF GoodLists, SameLists, InHand, Common
<1>5. ASSUME NEW y \in Buf PROVE Mark(d, y) /\ Place(d, own, y)
  <2>1. CASE y = x
    BY <1>2, <2>1 DEF InHand, Common, Mark, Place
  <2>2. CASE y # x
    BY <1>2, <2>2 DEF InHand, Common, Mark, Place
  <2> QED BY <2>1, <2>2
<1>6. ASSUME NEW q \in Proc, own[q] \in d.io PROVE "ASYNC" \notin d.flags[own[q]]
  <2>1. own[q] \in Buf \ {x} /\ own[q] \in c.io
    BY <1>2, <1>6 DEF InHand, Cache
  <2> QED BY <1>2, <2>1 DEF InHand, Common
<1> QED BY <1>4, <1>5, <1>6 DEF InHand, Common, Held

--------------------------------------------------------------------------------
\* x comes off the lists, or stays there for vflushbuf, and belongs to nobody.
LEMMA TakeInHand ==
  ASSUME NEW c, NEW own, Held(c, own), NEW x \in Buf,
         "BUSY" \notin c.flags[x],
         NEW d \in Cache, NEW g, d.flags = [c.flags EXCEPT ![x] = g],
         NEW b \in Block, d.hash = [c.hash EXCEPT ![x] = b],
         \A y \in Buf \ {x} : c.hash[y] # b,
         d.io = c.io, "BUSY" \in g, "DELWRI" \in g => "DONE" \in g /\ "ERROR" \notin g,
         NEW S, GoodLists(d, S),
         "VFLUSH" \in g => S = Free(c), "VFLUSH" \notin g => S = Free(c) \ {x}
  PROVE  InHand(d, x, own)
<1>0. c \in Cache /\ own \in [Proc -> Buf \cup {NoBuf}] /\ b # NoBlock
  BY NamesAssumption DEF Held, Common
<1>1. /\ d.flags[x] = g /\ d.hash[x] = b
      /\ \A y \in Buf \ {x} : d.flags[y] = c.flags[y] /\ d.hash[y] = c.hash[y]
  BY <1>0 DEF Cache
<1>2. x \in Free(c)
  BY DEF Free
<1>3. Free(d) = S
  BY <1>1, <1>2 DEF Free
<1>4. x \notin c.io /\ \A p \in Proc : own[p] # x
  BY DEF Held, Common, Place, Mark
<1>5. \A y \in Buf : Mark(d, y)
  BY <1>0, <1>1, <1>4 DEF Held, Common, Mark
<1>6. \A y \in Buf \ {x} : Place(d, own, y)
  BY <1>0, <1>1 DEF Held, Place
<1>7. ASSUME NEW p \in Proc, own[p] \in c.io PROVE "ASYNC" \notin d.flags[own[p]]
  <2>1. own[p] \in Buf \ {x} /\ "ASYNC" \notin c.flags[own[p]]
    BY <1>0, <1>4, <1>7 DEF Held, Common, Cache
  <2> QED BY <1>1, <2>1
<1>8. ASSUME NEW y \in Buf, NEW z \in Buf, y # z
      PROVE  d.hash[y] = NoBlock \/ d.hash[y] # d.hash[z]
  <2>1. c.hash[y] = NoBlock \/ c.hash[y] # c.hash[z]
    BY <1>8 DEF Held, Common
  <2> QED BY <1>1, <1>8, <2>1
<1>9. Common(d, own)
  BY <1>0, <1>3, <1>5, <1>7, <1>8 DEF Held, Common
<1> QED BY <1>1, <1>4, <1>6, <1>9 DEF InHand

\* The buffer of a process that is in no transfer is in its hands.
LEMMA OwnInHand ==
  ASSUME NEW c, NEW own, Held(c, own), NEW p \in Proc, own[p] # NoBuf, own[p] \notin c.io
  PROVE  /\ own[p] \in Buf
         /\ InHand(c, own[p], [own EXCEPT ![p] = NoBuf])
         /\ "ASYNC" \notin c.flags[own[p]] /\ "VFLUSH" \notin c.flags[own[p]]
<1> DEFINE x == own[p]
           new == [own EXCEPT ![p] = NoBuf]
<1>0. /\ c \in Cache /\ own \in [Proc -> Buf \cup {NoBuf}] /\ NoBuf \notin Buf
      /\ x \in Buf
  BY NamesAssumption DEF Held, Common
<1>1. /\ new \in [Proc -> Buf \cup {NoBuf}] /\ new[p] = NoBuf
      /\ \A q \in Proc \ {p} : new[q] = own[q]
  BY <1>0
<1>2. "BUSY" \in c.flags[x] /\ "ASYNC" \notin c.flags[x] /\ "VFLUSH" \notin c.flags[x]
  BY <1>0 DEF Held, Place
<1>3. \A q \in Proc : new[q] # x
  BY <1>0, <1>1 DEF Held, Common
<1> HIDE DEF new
<1>4. ASSUME NEW y \in Buf \ {x} PROVE Place(c, new, y)
  <2>1. (\E q \in Proc : new[q] = y) <=> (\E q \in Proc : own[q] = y)
    BY <1>0, <1>1
  <2> QED BY <2>1 DEF Held, Place
<1>5. ASSUME NEW q \in Proc, new[q] \in c.io PROVE "ASYNC" \notin c.flags[new[q]]
  <2>1. new[q] \in Buf
    BY <1>0, <1>5 DEF Cache
  <2>2. q # p /\ new[q] = own[q]
    BY <1>0, <1>1, <2>1
  <2> QED BY <1>5, <2>2 DEF Held, Common
<1>6. Common(c, new)
  BY <1>1, <1>5 DEF Held, Common
<1> QED BY <1>0, <1>2, <1>3, <1>4, <1>6 DEF InHand, new

\* A buffer that vflushbuf is writing and that getnewbuf takes off the lists is
\* still the driver's.
LEMMA AgeOutHeld ==
  ASSUME NEW c, NEW own, Held(c, own), NEW x \in Buf, "VFLUSH" \in c.flags[x],
         NEW d \in Cache,
         d.flags = [c.flags EXCEPT ![x] = (c.flags[x] \ {"VFLUSH"}) \cup {"AGE"}],
         d.hash = c.hash, d.io = c.io, GoodLists(d, Free(c) \ {x})
  PROVE  Held(d, own)
<1>0. c \in Cache /\ own \in [Proc -> Buf \cup {NoBuf}]
  BY DEF Held, Common
<1>1. /\ d.flags[x] = (c.flags[x] \ {"VFLUSH"}) \cup {"AGE"}
      /\ \A y \in Buf \ {x} : d.flags[y] = c.flags[y]
  BY <1>0 DEF Cache
<1>2. x \in c.io /\ {"ASYNC", "BUSY"} \subseteq c.flags[x]
  BY DEF Held, Common, Place, Mark
<1>3. Free(d) = Free(c) \ {x}
  BY <1>1, <1>2 DEF Free
<1>4. ASSUME NEW y \in Buf PROVE Mark(d, y) /\ Place(d, own, y)
  <2>1. CASE y = x
    BY <1>1, <1>2, <2>1 DEF Held, Common, Mark, Place
  <2>2. CASE y # x
    BY <1>1, <2>2 DEF Held, Common, Mark, Place
  <2> QED BY <2>1, <2>2
<1>5. ASSUME NEW q \in Proc, own[q] \in c.io PROVE "ASYNC" \notin d.flags[own[q]]
  <2>1. own[q] \in Buf \ {x} /\ "ASYNC" \notin c.flags[own[q]]
    BY <1>0, <1>2, <1>5 DEF Held, Common, Cache
  <2> QED BY <1>1, <2>1
<1>6. Common(d, own)
  BY <1>0, <1>3, <1>4, <1>5 DEF Held, Common
<1> QED BY <1>4, <1>6 DEF Held

\* The end of a transfer that somebody waits for.
LEMMA DoneHeld ==
  ASSUME NEW c, NEW own, Held(c, own), NEW x \in c.io, "ASYNC" \notin c.flags[x],
         NEW d \in Cache, NEW g, d.flags = [c.flags EXCEPT ![x] = g],
         "BUSY" \in g, "VFLUSH" \notin g, "ASYNC" \notin g, "DELWRI" \notin g,
         d.hash = c.hash, d.io = c.io \ {x}, SameLists(c, d)
  PROVE  Held(d, own)
<1>0. c \in Cache /\ own \in [Proc -> Buf \cup {NoBuf}] /\ x \in Buf
  BY DEF Held, Common, Cache
<1>1. /\ d.flags[x] = g
      /\ \A y \in Buf \ {x} : d.flags[y] = c.flags[y] /\ (y \in d.io <=> y \in c.io)
  BY <1>0 DEF Cache
<1>2. "BUSY" \in c.flags[x] /\ "VFLUSH" \notin c.flags[x] /\ \E p \in Proc : own[p] = x
  BY <1>0 DEF Held, Common, Place, Mark
<1>3. Free(d) = Free(c)
  BY <1>0, <1>1, <1>2 DEF Free
<1>4. GoodLists(d, Free(d))
  BY <1>3 DEF GoodLists, SameLists, Held, Common
<1>5. ASSUME NEW y \in Buf PROVE Mark(d, y) /\ Place(d, own, y)
  <2>1. CASE y = x
    BY <1>1, <1>2, <2>1 DEF Held, Common, Mark, Place
  <2>2. CASE y # x
    BY <1>1, <2>2 DEF Held, Common, Mark, Place
  <2> QED BY <2>1, <2>2
<1>6. ASSUME NEW q \in Proc, own[q] \in d.io PROVE "ASYNC" \notin d.flags[own[q]]
  <2>1. own[q] \in Buf \ {x} /\ own[q] \in c.io
    BY <1>0, <1>6 DEF Cache
  <2> QED BY <1>1, <2>1 DEF Held, Common
<1>7. Common(d, own)
  BY <1>0, <1>4, <1>5, <1>6 DEF Held, Common
<1> QED BY <1>5, <1>7 DEF Held

\* The end of a transfer that nobody waits for, before its buffer is released.
LEMMA DoneInHand ==
  ASSUME NEW c, NEW own, Held(c, own), NEW x \in c.io, "ASYNC" \in c.flags[x],
         NEW d \in Cache, NEW g, d.flags = [c.flags EXCEPT ![x] = g],
         "BUSY" \in g, "VFLUSH" \in g <=> "VFLUSH" \in c.flags[x], "DELWRI" \notin g,
         d.hash = c.hash, d.io = c.io \ {x}, SameLists(c, d)
  PROVE  InHand(d, x, own)
<1>0. c \in Cache /\ own \in [Proc -> Buf \cup {NoBuf}] /\ x \in Buf
  BY DEF Held, Common, Cache
<1>1. /\ d.flags[x] = g
      /\ \A y \in Buf \ {x} : d.flags[y] = c.flags[y] /\ (y \in d.io <=> y \in c.io)
  BY <1>0 DEF Cache
<1>2. "BUSY" \in c.flags[x] /\ \A p \in Proc : own[p] # x
  BY <1>0 DEF Held, Common, Mark
<1>3. Free(d) = Free(c)
  BY <1>0, <1>1, <1>2 DEF Free
<1>4. GoodLists(d, Free(d))
  BY <1>3 DEF GoodLists, SameLists, Held, Common
<1>5. ASSUME NEW y \in Buf PROVE Mark(d, y) /\ (y # x => Place(d, own, y))
  <2>1. CASE y = x
    BY <1>0, <1>1, <1>2, <2>1 DEF Held, Common, Mark
  <2>2. CASE y # x
    BY <1>1, <2>2 DEF Held, Common, Mark, Place
  <2> QED BY <2>1, <2>2
<1>6. ASSUME NEW q \in Proc, own[q] \in d.io PROVE "ASYNC" \notin d.flags[own[q]]
  <2>1. own[q] \in Buf \ {x} /\ own[q] \in c.io
    BY <1>0, <1>6 DEF Cache
  <2> QED BY <1>1, <2>1 DEF Held, Common
<1>7. Common(d, own)
  BY <1>0, <1>4, <1>5, <1>6 DEF Held, Common
<1> QED BY <1>0, <1>1, <1>2, <1>5, <1>7 DEF InHand

--------------------------------------------------------------------------------
\* The calls

\* The places of a process in its calls, and what getblk is called for
Places == {"user", "getblk", "getnewbuf", "breadn", "biowait", "hold", "bwrite",
           "vflushbuf", "vflushwait"}
Calls == [use : {"none", "read", "ahead", "write"},
          block : Block \cup {NoBlock}, next : Block \cup {NoBlock}]

\* Process p, at the place l with buffer b, sleeps for what will come.
Wait(c, p, l, b) ==
    /\ \A y \in Buf : c.wait[p] = y =>
          \/ l = "getblk" /\ {"BUSY", "WANTED"} \subseteq c.flags[y]
          \/ l \in {"biowait", "bwrite"} /\ y = b /\ y \in c.io
    /\ c.wait[p] = NeedBuffer => c.needbuffer /\ Free(c) = {}
    /\ c.wait[p] = NumOutput => Outputs(c) # {}
    /\ c.wait[p] # NoWait => l \in {"getblk", "biowait", "bwrite", "vflushwait"}

\* The blocks that have data which is not on the disk
Due(c) == {c.hash[x] : x \in Dirty(c) \cup Outputs(c)}

\* What holds of a process p at the place l: k is its call, b its buffer, run who has
\* the processor and o what its flush must still see on the disk.  Only getnewbuf
\* keeps the processor between the search and the end, so that the block it goes to
\* use cannot come into the cache.
Good(c, p, l, k, b, run, o) ==
    /\ l \in {"getblk", "getnewbuf"} <=> k.use # "none"
    /\ l \in {"getblk", "getnewbuf"} => k.block \in Block
    /\ b # NoBuf <=> \/ l \in {"breadn", "biowait", "hold", "bwrite"}
                     \/ l \in {"getblk", "getnewbuf"} /\ k.use = "ahead"
    /\ Wait(c, p, l, b)
    /\ l = "getnewbuf" => run = p /\ \A y \in Buf : c.hash[y] # k.block
    /\ l = "hold" => b \notin c.io /\ "ERROR" \notin c.flags[b]
    /\ b # NoBuf /\ l # "hold" => b \in c.io \/ "DONE" \in c.flags[b]
    /\ o \subseteq Due(c)
    /\ l \notin {"vflushbuf", "vflushwait"} => o = {}

\* The part of TypeOK that does not depend on the place of a process
Types ==
    /\ disk \in [Block -> Value] /\ written \in [Block -> Value]
    /\ pc \in [Proc -> Places] /\ call \in [Proc -> Calls]
    /\ cpu \in Proc \cup {NoProc} /\ owed \in [Proc -> SUBSET Block]


\* The processes are where they should be.
AllGood == \A p \in Proc : Good(cache, p, pc[p], call[p], bp[p], cpu, owed[p])

\* The inductive invariant
IInv == Types /\ Held(cache, bp) /\ AllGood

\* A step from c to d that leaves the data of buffer y to be written, if it was.
Covers(c, d, y) ==
    "DELWRI" \in c.flags[y] \/ (y \in c.io /\ "READ" \notin c.flags[y]) =>
        /\ d.hash[y] = c.hash[y]
        /\ "DELWRI" \in d.flags[y] \/ (y \in d.io /\ "READ" \notin d.flags[y])

\* Then a flush still waits for what it has to.
LEMMA CoversDue ==
  ASSUME NEW c \in Cache, NEW d \in Cache, \A y \in Buf : Covers(c, d, y)
  PROVE  Due(c) \subseteq Due(d)
<1> SUFFICES ASSUME NEW y \in Dirty(c) \cup Outputs(c) PROVE c.hash[y] \in Due(d)
  BY DEF Due
<1>1. y \in Buf /\ y \in Dirty(d) \cup Outputs(d) /\ d.hash[y] = c.hash[y]
  BY DEF Covers, Dirty, Outputs, Has, Cache
<1> QED BY <1>1 DEF Due

\* What a step on buffer x that p takes leaves to the other processes.
Touch(c, d, x, p) ==
    /\ \A y \in Buf \ {x} : /\ d.flags[y] = c.flags[y] /\ d.hash[y] = c.hash[y]
                            /\ y \in d.io <=> y \in c.io
    /\ \A q \in Proc \ {p} :
          /\ d.wait[q] \in {c.wait[q], NoWait}
          /\ d.wait[q] = x => \/ pc[q] = "getblk" /\ {"BUSY", "WANTED"} \subseteq d.flags[x]
                              \/ pc[q] \in {"biowait", "bwrite"} /\ x = bp[q] /\ x \in d.io
          /\ d.wait[q] = NeedBuffer => d.needbuffer /\ Free(d) = {}
          /\ d.wait[q] = NumOutput => Outputs(d) # {}
          /\ bp[q] = x => IF pc[q] = "hold" THEN x \notin d.io /\ "ERROR" \notin d.flags[x]
                          ELSE x \in d.io \/ "DONE" \in d.flags[x]

\* Such a step keeps what another process relies on,
LEMMA TouchOthers ==
  ASSUME IInv, NEW p, NEW x \in Buf, NEW d \in Cache, Touch(cache, d, x, p),
         NEW q \in Proc \ {p}
  PROVE  /\ Wait(d, q, pc[q], bp[q])
         /\ pc[q] = "hold" => bp[q] \notin d.io /\ "ERROR" \notin d.flags[bp[q]]
         /\ bp[q] # NoBuf /\ pc[q] # "hold" => bp[q] \in d.io \/ "DONE" \in d.flags[bp[q]]
<1>0. /\ cache \in Cache /\ Good(cache, q, pc[q], call[q], bp[q], cpu, owed[q])
      /\ bp[q] \in Buf \cup {NoBuf} /\ NoBuf \notin Buf
      /\ NoWait \notin Buf /\ NoWait # NeedBuffer /\ NoWait # NumOutput
  BY NamesAssumption DEF IInv, AllGood, Held, Common
<1>1. Wait(d, q, pc[q], bp[q])
  BY <1>0 DEF Good, Wait, Touch
<1>2. /\ pc[q] = "hold" => bp[q] \notin d.io /\ "ERROR" \notin d.flags[bp[q]]
      /\ bp[q] # NoBuf /\ pc[q] # "hold" => bp[q] \in d.io \/ "DONE" \in d.flags[bp[q]]
  BY <1>0 DEF Good, Touch
<1> QED BY <1>1, <1>2

\* and all that holds of that process.
LEMMA OthersGood ==
  ASSUME IInv, NEW p, NEW run, cpu \in {p, NoProc}, NEW x \in Buf, NEW d \in Cache,
         Touch(cache, d, x, p), Covers(cache, d, x), NEW q \in Proc \ {p}
  PROVE  Good(d, q, pc[q], call[q], bp[q], run, owed[q])
<1>0. cache \in Cache /\ Good(cache, q, pc[q], call[q], bp[q], cpu, owed[q]) /\ q # NoProc
  BY NamesAssumption DEF IInv, AllGood, Held, Common
<1>1. pc[q] # "getnewbuf"
  BY <1>0 DEF Good
<1>2. owed[q] \subseteq Due(d)
  <2>1. \A y \in Buf : Covers(cache, d, y)
    BY DEF Touch, Covers
  <2> QED BY <1>0, <2>1, CoversDue DEF Good
<1> QED BY <1>0, <1>1, <1>2, TouchOthers DEF Good

\* p may release x, as it is in c, without a process that missed it.
Ready(c, x, p) ==
    /\ \A y \in Buf \ {x} : /\ c.flags[y] = cache.flags[y] /\ c.hash[y] = cache.hash[y]
                            /\ y \in c.io <=> y \in cache.io
    /\ c.wait = cache.wait /\ c.needbuffer = cache.needbuffer
    /\ \A q \in Proc \ {p} :
          /\ bp[q] # x
          /\ cache.wait[q] = x => "WANTED" \in c.flags[x]
          /\ cache.wait[q] = NumOutput => Outputs(c) # {}

\* brelse is such a step.
LEMMA BrelseTouch ==
  ASSUME IInv, NEW p, NEW x \in Buf, NEW c, NEW own, InHand(c, x, own), Ready(c, x, p)
  PROVE  LET d == Brelse(c, x)
         IN  /\ Touch(cache, d, x, p)
             /\ Outputs(d) = Outputs(c)
             /\ \A q \in Proc : c.wait[q] = NoWait => d.wait[q] = NoWait
             /\ Covers(c, d, x)
<1> DEFINE d == Brelse(c, x)
<1>0. c \in Cache /\ GoodLists(c, Free(c)) /\ (x \in Free(c) <=> "VFLUSH" \in c.flags[x])
  BY DEF InHand, Common, Free
<1>1. /\ d \in Cache
      /\ d.flags = [c.flags EXCEPT ![x] = Freed(c.flags[x])]
      /\ d.hash = [c.hash EXCEPT ![x] =
            IF "ERROR" \in c.flags[x] THEN NoBlock ELSE c.hash[x]]
      /\ d.io = c.io /\ d.needbuffer = FALSE
      /\ \A q \in Proc : d.wait[q] = IF Woken(c, x, q) THEN NoWait ELSE c.wait[q]
  BY <1>0, BrelseFacts
<1> HIDE DEF d
<1>2. /\ d.flags[x] = Freed(c.flags[x])
      /\ d.hash[x] = IF "ERROR" \in c.flags[x] THEN NoBlock ELSE c.hash[x]
      /\ \A y \in Buf \ {x} : d.flags[y] = c.flags[y] /\ d.hash[y] = c.hash[y]
  BY <1>0, <1>1 DEF Cache
<1>3. Outputs(d) = Outputs(c)
  BY <1>0, <1>1, <1>2 DEF Outputs, Has, InHand, Cache
<1>4. Covers(c, d, x)
  BY <1>2 DEF Covers, Freed, InHand, Common, Mark
<1>5. ASSUME NEW q \in Proc \ {p}
      PROVE  /\ d.wait[q] \in {cache.wait[q], NoWait} /\ d.wait[q] # x
             /\ d.wait[q] # NeedBuffer
             /\ d.wait[q] = NumOutput => Outputs(d) # {}
  <2>1. NoWait \notin Buf /\ NoWait # NeedBuffer /\ NoWait # NumOutput
    BY NamesAssumption
  <2>2. cache.wait[q] = NeedBuffer => cache.needbuffer
    BY DEF IInv, AllGood, Good, Wait
  <2> QED BY <1>1, <1>3, <2>1, <2>2 DEF Woken, Ready
<1>6. Touch(cache, d, x, p)
  BY <1>1, <1>2, <1>5 DEF Touch, Ready
<1>7. \A q \in Proc : c.wait[q] = NoWait => d.wait[q] = NoWait
  BY <1>1
<1> QED BY <1>3, <1>4, <1>6, <1>7, Zenon DEF d

--------------------------------------------------------------------------------
\* The processes but p are as they were.
Alone(p) ==
    /\ pc' \in [Proc -> Places] /\ call' \in [Proc -> Calls]
    /\ \A q \in Proc \ {p} : pc'[q] = pc[q] /\ call'[q] = call[q] /\ bp'[q] = bp[q]
    /\ disk' = disk /\ written' \in [Block -> Value] /\ owed' = owed
    /\ cpu \in {p, NoProc} /\ cpu' \in {p, NoProc}

\* A step of p on buffer x keeps the invariant if it puts x into its place, touches
\* the others as it may, and p is where it should be.
LEMMA StepOn ==
  ASSUME IInv, NEW p \in Proc, NEW x \in Buf, Alone(p),
         Touch(cache, cache', x, p), Covers(cache, cache', x), Held(cache', bp'),
         Good(cache', p, pc'[p], call'[p], bp'[p], cpu', owed[p])
  PROVE  IInv'
<1>1. cache' \in Cache
  BY DEF Held, Common
<1>2. \A q \in Proc \ {p} : Good(cache', q, pc[q], call[q], bp[q], cpu', owed[q])
  BY <1>1, OthersGood DEF Alone
<1>3. ASSUME NEW q \in Proc
      PROVE  Good(cache', q, pc'[q], call'[q], bp'[q], cpu', owed'[q])
  BY <1>2 DEF Alone
<1>4. Types'
  BY DEF Types, Alone, IInv
<1> QED BY <1>3, <1>4 DEF IInv, AllGood

\* getblk returns x, which p has taken.
LEMMA GotGood ==
  ASSUME IInv, NEW p \in Proc, Runs(p), pc[p] \in {"getblk", "getnewbuf"},
         NEW x \in Buf, NEW c, InHand(c, x, bp), "BUSY" \notin cache.flags[x],
         \A y \in Buf \ {x} : c.flags[y] = cache.flags[y] /\ c.hash[y] = cache.hash[y],
         c.io = cache.io, c.wait = cache.wait, c.needbuffer = cache.needbuffer,
         c.flags[x] \cap {"ASYNC", "VFLUSH", "ERROR"} = {}, Covers(cache, c, x),
         Got(p, c, x), UNCHANGED <<disk, owed, written>>
  PROVE  IInv'
<1>0. /\ c \in Cache /\ cache \in Cache /\ bp \in [Proc -> Buf \cup {NoBuf}]
      /\ NoBuf \notin Buf /\ NoWait \notin Buf \cup {NeedBuffer, NumOutput}
      /\ NeedBuffer \notin Buf /\ NumOutput \notin Buf
      /\ Good(cache, p, pc[p], call[p], bp[p], cpu, owed[p]) /\ owed[p] = {}
      /\ call[p] \in Calls /\ NoBlock \in Block \cup {NoBlock}
      /\ Types
  BY NamesAssumption DEF InHand, IInv, Held, Common, AllGood, Good, Types
<1>1. cpu \in {p, NoProc} /\ c.wait[p] = NoWait
  BY DEF Runs
<1>2. x \notin c.io /\ x \notin cache.io /\ \A q \in Proc : bp[q] # x
  BY DEF InHand
<1>3. \A q \in Proc : cache.wait[q] # x /\ cache.wait[q] # NeedBuffer
  <2> SUFFICES ASSUME NEW q \in Proc PROVE cache.wait[q] # x /\ cache.wait[q] # NeedBuffer
    OBVIOUS
  <2>1. Wait(cache, q, pc[q], bp[q]) /\ x \in Free(cache)
    BY DEF IInv, AllGood, Good, Free
  <2> QED BY <1>2, <2>1 DEF Wait
<1>4. Outputs(c) = Outputs(cache)
  BY <1>0, <1>2 DEF Outputs, Has, Cache
<1>5. \A q \in Proc : cache.wait[q] = NumOutput => Outputs(c) # {}
  BY <1>4 DEF IInv, AllGood, Good, Wait
<1>6. SUFFICES ASSUME call[p].use # "none" PROVE IInv'
  BY <1>0 DEF Good
<1>7. ASSUME NEW d \in Cache, NEW g, d.flags = [c.flags EXCEPT ![x] = g],
             d.hash = c.hash, d.wait = c.wait, d.needbuffer = c.needbuffer,
             Covers(c, d, x),
             \/ d.io = c.io
             \/ d.io = c.io \cup {x} /\ "READ" \in g
      PROVE  Touch(cache, d, x, p) /\ Covers(cache, d, x) /\ d.wait[p] = NoWait
  <2>1. /\ d.flags[x] = g
        /\ \A y \in Buf \ {x} : d.flags[y] = cache.flags[y] /\ d.hash[y] = cache.hash[y]
                                /\ (y \in d.io <=> y \in cache.io)
    BY <1>0, <1>7 DEF Cache
  <2>2. Outputs(d) = Outputs(c)
    BY <1>0, <1>2, <1>7, <2>1 DEF Outputs, Has, Cache
  <2>3. Touch(cache, d, x, p)
    BY <1>2, <1>3, <1>5, <1>7, <2>1, <2>2 DEF Touch
  <2>4. Covers(cache, d, x)
    BY <1>2, <1>7, <2>1 DEF Covers
  <2> QED BY <1>1, <1>7, <2>3, <2>4
<1>8. CASE call[p].use = "read"
  <2>1. /\ cache' = IF Valid(c, x) THEN c ELSE StartRead(c, x, {})
        /\ bp' = [bp EXCEPT ![p] = x]
        /\ call' = [call EXCEPT ![p] = [NoCall EXCEPT !.next = call[p].next]]
        /\ pc' = [pc EXCEPT ![p] = "breadn"] /\ cpu' = p
    BY <1>8 DEF Got, Goto
  <2>2. bp[p] = NoBuf
    BY <1>0, <1>8 DEF Good
  <2>3. /\ call'[p].use = "none" /\ call'[p] \in Calls /\ pc'[p] = "breadn" /\ bp'[p] = x
        /\ Alone(p)
    BY <1>0, <1>1, <2>1 DEF Types, Alone, Places, Calls, NoCall
  <2>4. ASSUME cache' \in Cache, cache'.wait[p] = NoWait,
               x \in cache'.io \/ "DONE" \in cache'.flags[x]
        PROVE  Good(cache', p, pc'[p], call'[p], bp'[p], cpu', owed[p])
    BY <1>0, <2>3, <2>4 DEF Good, Wait
  <2>5. CASE Valid(c, x)
    <3>1. cache' = c /\ c.flags = [c.flags EXCEPT ![x] = c.flags[x]] /\ Covers(c, c, x)
      BY <1>0, <2>1, <2>5 DEF Cache, Covers
    <3>2. Touch(cache, c, x, p) /\ Covers(cache, c, x) /\ c.wait[p] = NoWait
      BY <1>0, <1>7, <3>1
    <3>3. Held(c, bp')
      <4>1. /\ "BUSY" \in c.flags[x]
            /\ "DELWRI" \in c.flags[x] => "DONE" \in c.flags[x] /\ "ERROR" \notin c.flags[x]
            /\ "ASYNC" \notin c.flags[x] /\ "VFLUSH" \notin c.flags[x]
            /\ c.flags[x] \cap {"ASYNC", "VFLUSH"} = {}
        BY DEF InHand, Common, Mark
      <4>2. SameLists(c, c)
        BY DEF SameLists
      <4> QED BY <1>0, <2>1, <2>2, <3>1, <4>1, <4>2, KeepHeld
    <3>4. "DONE" \in c.flags[x]
      BY <2>5 DEF Valid, Has, InHand, Common, Mark
    <3> QED BY <1>0, <2>3, <2>4, <3>1, <3>2, <3>3, <3>4, StepOn
  <2>6. CASE ~Valid(c, x)
    <3> DEFINE d == StartRead(c, x, {})
               g == c.flags[x] \cup ({"READ"} \cup {})
    <3>1. /\ d \in Cache /\ d.flags = [c.flags EXCEPT ![x] = g]
          /\ d.io = c.io \cup {x}
          /\ d.hash = c.hash /\ d.needbuffer = c.needbuffer /\ d.wait = c.wait
          /\ SameLists(c, d)
      BY <1>0, StartReadFacts
    <3>2. cache' = d
      BY <2>1, <2>6
    <3> HIDE DEF d
    <3>3. Covers(c, d, x)
      BY <2>6 DEF Covers, Valid, Has, InHand
    <3>4. Touch(cache, d, x, p) /\ Covers(cache, d, x) /\ d.wait[p] = NoWait
      BY <1>7, <3>1, <3>3
    <3>5. Held(d, bp')
      <4>1. /\ "BUSY" \in g /\ g \cap {"ASYNC", "VFLUSH"} = {}
            /\ "DELWRI" \in g => "DONE" \in g /\ "ERROR" \notin g
            /\ g \cap {"DONE", "DELWRI"} = {}
        BY <2>6 DEF InHand, Common, Mark, Valid, Has
      <4> QED BY <2>1, <2>2, <3>1, <4>1, KeepHeld
    <3> QED BY <2>3, <2>4, <3>1, <3>2, <3>4, <3>5, StepOn
  <2> QED BY <2>5, <2>6
<1>9. CASE call[p].use = "ahead"
  <2>1. /\ cache' = IF Valid(c, x) THEN Brelse(c, x) ELSE StartRead(c, x, {"ASYNC"})
        /\ bp' = bp
        /\ call' = [call EXCEPT ![p] = NoCall]
        /\ pc' = [pc EXCEPT ![p] = "biowait"] /\ cpu' = p
    BY <1>9 DEF Got, Goto
  <2>2. bp[p] # NoBuf
    BY <1>0, <1>9 DEF Good
  <2>3. /\ call'[p].use = "none" /\ call'[p] \in Calls
        /\ pc'[p] = "biowait" /\ bp'[p] = bp[p]
        /\ Alone(p)
    BY <1>0, <1>1, <2>1 DEF Types, Alone, Places, Calls, NoCall
  <2>4. ASSUME cache' \in Cache, cache'.wait[p] = NoWait, Touch(cache, cache', x, p)
        PROVE  Good(cache', p, pc'[p], call'[p], bp'[p], cpu', owed[p])
    <3>1. bp[p] \in Buf \ {x} /\ (bp[p] \in cache.io \/ "DONE" \in cache.flags[bp[p]])
      BY <1>0, <1>2, <2>2 DEF Good
    <3>2. bp[p] \in cache'.io \/ "DONE" \in cache'.flags[bp[p]]
      BY <2>4, <3>1 DEF Touch
    <3> QED BY <1>0, <2>2, <2>3, <2>4, <3>2 DEF Good, Wait
  <2>5. CASE Valid(c, x)
    <3>1. cache' = Brelse(c, x)
      BY <2>1, <2>5
    <3>2. Held(cache', bp')
      BY <2>1, <3>1, BrelseHeld
    <3>3. /\ Touch(cache, cache', x, p) /\ Covers(c, cache', x)
          /\ \A q \in Proc : c.wait[q] = NoWait => cache'.wait[q] = NoWait
      <4>1. Ready(c, x, p)
        BY <1>2, <1>3, <1>5 DEF Ready
      <4> QED BY <3>1, <4>1, BrelseTouch
    <3>4. Covers(cache, cache', x)
      BY <1>2, <3>3 DEF Covers
    <3>5. cache' \in Cache
      BY <3>2 DEF Held, Common
    <3> QED BY <1>1, <2>3, <2>4, <3>2, <3>3, <3>4, <3>5, StepOn
  <2>6. CASE ~Valid(c, x)
    <3> DEFINE d == StartRead(c, x, {"ASYNC"})
               g == c.flags[x] \cup ({"READ"} \cup {"ASYNC"})
    <3>1. /\ d \in Cache /\ d.flags = [c.flags EXCEPT ![x] = g]
          /\ d.io = c.io \cup {x}
          /\ d.hash = c.hash /\ d.needbuffer = c.needbuffer /\ d.wait = c.wait
          /\ SameLists(c, d)
      BY <1>0, StartReadFacts
    <3>2. cache' = d
      BY <2>1, <2>6
    <3> HIDE DEF d
    <3>3. Covers(c, d, x)
      BY <2>6 DEF Covers, Valid, Has, InHand
    <3>4. Touch(cache, d, x, p) /\ Covers(cache, d, x) /\ d.wait[p] = NoWait
      BY <1>7, <3>1, <3>3
    <3>5. Held(d, bp)
      <4>1. /\ {"ASYNC", "BUSY"} \subseteq g
            /\ "VFLUSH" \in g <=> "VFLUSH" \in c.flags[x]
            /\ g \cap {"DONE", "DELWRI"} = {}
        BY <2>6 DEF InHand, Valid, Has
      <4> QED BY <3>1, <4>1, AsyncHeld
    <3> QED BY <2>1, <2>3, <2>4, <3>1, <3>2, <3>4, <3>5, StepOn
  <2> QED BY <2>5, <2>6
<1>10. CASE call[p].use = "write"
  <2>1. /\ cache' = c /\ bp' = [bp EXCEPT ![p] = x]
        /\ call' = [call EXCEPT ![p] = NoCall]
        /\ pc' = [pc EXCEPT ![p] = "hold"] /\ cpu' = NoProc
    BY <1>10 DEF Got, Leave
  <2>2. bp[p] = NoBuf
    BY <1>0, <1>10 DEF Good
  <2>3. /\ call'[p].use = "none" /\ call'[p] \in Calls /\ pc'[p] = "hold" /\ bp'[p] = x
        /\ Alone(p)
    BY <1>0, <1>1, <2>1 DEF Types, Alone, Places, Calls, NoCall
  <2>4. Good(c, p, pc'[p], call'[p], bp'[p], cpu', owed[p])
    BY <1>0, <1>1, <1>2, <2>3 DEF Good, Wait
  <2>5. c.flags = [c.flags EXCEPT ![x] = c.flags[x]] /\ Covers(c, c, x)
    BY <1>0 DEF Cache, Covers
  <2>6. Touch(cache, c, x, p) /\ Covers(cache, c, x)
    BY <1>0, <1>7, <2>5
  <2>7. Held(c, bp')
    <3>1. /\ "BUSY" \in c.flags[x]
          /\ "DELWRI" \in c.flags[x] => "DONE" \in c.flags[x] /\ "ERROR" \notin c.flags[x]
          /\ "ASYNC" \notin c.flags[x] /\ "VFLUSH" \notin c.flags[x]
          /\ c.flags[x] \cap {"ASYNC", "VFLUSH"} = {}
      BY DEF InHand, Common, Mark
    <3>2. SameLists(c, c)
      BY DEF SameLists
    <3> QED BY <1>0, <2>1, <2>2, <2>5, <3>1, <3>2, KeepHeld
  <2> QED BY <2>1, <2>3, <2>4, <2>6, <2>7, StepOn
<1> QED BY <1>0, <1>6, <1>8, <1>9, <1>10 DEF Calls

--------------------------------------------------------------------------------
\* WANTED says nothing of the place of a buffer.
LEMMA HeldSame ==
  ASSUME NEW c, NEW own, Held(c, own), NEW d \in Cache,
         \A y \in Buf : d.flags[y] \ {"WANTED"} = c.flags[y] \ {"WANTED"},
         d.hash = c.hash, d.io = c.io, SameLists(c, d)
  PROVE  Held(d, own)
<1>1. \A y \in Buf : \A f \in Flag \ {"WANTED"} : f \in d.flags[y] <=> f \in c.flags[y]
  OBVIOUS
<1>2. \A y \in Buf :
         /\ "BUSY" \in d.flags[y] <=> "BUSY" \in c.flags[y]
         /\ "VFLUSH" \in d.flags[y] <=> "VFLUSH" \in c.flags[y]
         /\ "ASYNC" \in d.flags[y] <=> "ASYNC" \in c.flags[y]
         /\ "DELWRI" \in d.flags[y] <=> "DELWRI" \in c.flags[y]
         /\ "DONE" \in d.flags[y] <=> "DONE" \in c.flags[y]
         /\ "ERROR" \in d.flags[y] <=> "ERROR" \in c.flags[y]
  BY <1>1 DEF Flag
<1>3. Free(d) = Free(c)
  BY <1>2 DEF Free
<1>4. GoodLists(d, Free(d))
  BY <1>3 DEF GoodLists, SameLists, Held, Common
<1>5. ASSUME NEW y \in Buf PROVE Mark(d, y) /\ Place(d, own, y)
  BY <1>2 DEF Held, Common, Mark, Place
<1>6. \A p \in Proc : own[p] \in d.io => "ASYNC" \notin d.flags[own[p]]
  BY <1>2 DEF Held, Common, Cache
<1>7. Common(d, own)
  BY <1>4, <1>5, <1>6 DEF Held, Common
<1> QED BY <1>5, <1>7 DEF Held

\* A step after which p may sleep and that changes no buffer but for WANTED.
LEMMA StepSame ==
  ASSUME IInv, NEW p \in Proc, Alone(p), cache' \in Cache, bp' = bp,
         \A y \in Buf : /\ cache'.flags[y] \ {"WANTED"} = cache.flags[y] \ {"WANTED"}
                        /\ cache.flags[y] \subseteq cache'.flags[y],
         cache'.hash = cache.hash, cache'.io = cache.io, SameLists(cache, cache'),
         \A q \in Proc \ {p} : cache'.wait[q] = cache.wait[q],
         cache.needbuffer => cache'.needbuffer,
         Good(cache', p, pc'[p], call'[p], bp[p], cpu', owed[p])
  PROVE  IInv'
<1>1. Held(cache', bp')
  BY HeldSame DEF IInv
<1>2. cache \in Cache /\ cache' \in Cache
  BY DEF IInv, Held, Common
<1>3. \A y \in Buf :
         /\ "BUSY" \in cache'.flags[y] <=> "BUSY" \in cache.flags[y]
         /\ "VFLUSH" \in cache'.flags[y] <=> "VFLUSH" \in cache.flags[y]
         /\ "DELWRI" \in cache'.flags[y] <=> "DELWRI" \in cache.flags[y]
         /\ "DONE" \in cache'.flags[y] <=> "DONE" \in cache.flags[y]
         /\ "ERROR" \in cache'.flags[y] <=> "ERROR" \in cache.flags[y]
         /\ "READ" \in cache'.flags[y] <=> "READ" \in cache.flags[y]
  OBVIOUS
<1>4. /\ Outputs(cache') = Outputs(cache) /\ Dirty(cache') = Dirty(cache)
      /\ Due(cache') = Due(cache)
  BY <1>2, <1>3 DEF Outputs, Dirty, Due, Has, Cache
<1>5. Free(cache') = Free(cache)
  BY <1>3 DEF Free
<1>6. ASSUME NEW q \in Proc \ {p}
      PROVE  Good(cache', q, pc[q], call[q], bp[q], cpu', owed[q])
  <2>1. /\ Good(cache, q, pc[q], call[q], bp[q], cpu, owed[q])
        /\ bp[q] \in Buf \cup {NoBuf} /\ q # NoProc /\ NoBuf \notin Buf
    BY NamesAssumption DEF IInv, AllGood, Held, Common
  <2>2. Wait(cache', q, pc[q], bp[q])
    BY <1>4, <1>5, <2>1 DEF Good, Wait
  <2>3. pc[q] # "getnewbuf"
    BY <2>1 DEF Good, Alone
  <2>4. /\ pc[q] = "hold" => bp[q] \notin cache'.io /\ "ERROR" \notin cache'.flags[bp[q]]
        /\ bp[q] # NoBuf /\ pc[q] # "hold" =>
              bp[q] \in cache'.io \/ "DONE" \in cache'.flags[bp[q]]
    BY <1>3, <2>1 DEF Good
  <2> QED BY <1>4, <2>1, <2>2, <2>3, <2>4 DEF Good
<1>7. ASSUME NEW q \in Proc
      PROVE  Good(cache', q, pc'[q], call'[q], bp'[q], cpu', owed'[q])
  BY <1>6 DEF Alone
<1>8. Types'
  BY DEF Types, Alone, IInv
<1> QED BY <1>1, <1>7, <1>8 DEF IInv, AllGood

\* The case of a cache that stays as it is.
LEMMA StepIdle ==
  ASSUME IInv, NEW p \in Proc, Alone(p), cache' = cache, bp' = bp,
         Good(cache, p, pc'[p], call'[p], bp[p], cpu', owed[p])
  PROVE  IInv'
<1>1. cache' \in Cache /\ SameLists(cache, cache')
  BY DEF IInv, Held, Common, SameLists
<1> QED BY <1>1, StepSame

\* What the invariant says of the process that takes a step.
LEMMA OfProc ==
  ASSUME IInv, NEW p \in Proc
  PROVE  /\ cache \in Cache /\ bp \in [Proc -> Buf \cup {NoBuf}] /\ Types
         /\ GoodLists(cache, Free(cache))
         /\ NoBuf \notin Buf /\ NoWait \notin Buf \cup {NeedBuffer, NumOutput}
         /\ NeedBuffer \notin Buf /\ NumOutput \notin Buf /\ NeedBuffer # NumOutput
         /\ NoBlock \notin Block /\ NoProc \notin Proc
         /\ Good(cache, p, pc[p], call[p], bp[p], cpu, owed[p])
         /\ call[p] \in Calls /\ pc[p] \in Places /\ owed[p] \in SUBSET Block
BY NamesAssumption DEF IInv, Held, Common, AllGood, Types

\* A free buffer: nobody waits for it, and nobody for any buffer.
LEMMA FreeBuffer ==
  ASSUME IInv, NEW x \in Buf, x \in Free(cache), NEW q \in Proc
  PROVE  cache.wait[q] # NeedBuffer /\ ("BUSY" \notin cache.flags[x] => cache.wait[q] # x)
<1>1. Wait(cache, q, pc[q], bp[q]) /\ \A y \in Buf : Mark(cache, y)
  BY DEF IInv, AllGood, Good, Held, Common
<1> QED BY <1>1 DEF Wait, Mark

\* The head of a list is on it.
LEMMA HeadInSeq ==
  ASSUME NEW s \in Seq(Buf), s # <<>>
  PROVE  Head(s) = s[1] /\ Head(s) \in ToSet(s) /\ Len(s) \in Nat \ {0}
<1>1. Len(s) \in Nat \ {0}
  BY EmptySeq
<1>2. DOMAIN s = 1 .. Len(s) /\ Head(s) = s[1]
  OBVIOUS
<1>3. 1 \in DOMAIN s
  BY <1>1, <1>2
<1> QED BY <1>1, <1>2, <1>3 DEF ToSet

\* getnewbuf takes a buffer that is free,
LEMMA HeadFree ==
  ASSUME NEW c, NEW S, GoodLists(c, S), FreeList(c) # <<>>
  PROVE  Head(FreeList(c)) \in S
<1>1. c.age \in Seq(Buf) /\ c.lru \in Seq(Buf)
  BY DEF GoodLists
<1>2. CASE c.age = <<>>
  <2>1. FreeList(c) = c.lru
    BY <1>1, <1>2, ConcatEmptySeq DEF FreeList
  <2>2. Head(c.lru) \in ToSet(c.lru)
    BY <1>1, <2>1, HeadInSeq
  <2> QED BY <2>1, <2>2 DEF GoodLists
<1>3. CASE c.age # <<>>
  <2>1. Head(c.age) = c.age[1] /\ Head(c.age) \in ToSet(c.age) /\ Len(c.age) \in Nat \ {0}
    BY <1>1, <1>3, HeadInSeq
  <2>2. /\ FreeList(c) \in Seq(Buf) /\ FreeList(c)[1] = c.age[1]
    <3>1. /\ c.age \o c.lru \in Seq(Buf)
          /\ \A i \in 1 .. Len(c.age) + Len(c.lru) :
                (c.age \o c.lru)[i] = IF i <= Len(c.age) THEN c.age[i]
                                      ELSE c.lru[i - Len(c.age)]
      BY <1>1, ConcatProperties
    <3>2. Len(c.lru) \in Nat
      BY <1>1
    <3>3. 1 \in 1 .. Len(c.age) + Len(c.lru) /\ 1 <= Len(c.age)
      <4>1. \A m \in Nat \ {0}, n \in Nat : 1 \in 1 .. m + n /\ 1 <= m
        OBVIOUS
      <4> QED BY <2>1, <3>2, <4>1
    <3> QED BY <3>1, <3>3 DEF FreeList
  <2>3. Head(FreeList(c)) = FreeList(c)[1]
    BY <2>2, HeadInSeq
  <2> QED BY <2>1, <2>2, <2>3 DEF GoodLists
<1> QED BY <1>2, <1>3

\* and finds none only if none is.
LEMMA NoneFree ==
  ASSUME NEW c, NEW S, GoodLists(c, S)
  PROVE  FreeList(c) = <<>> <=> S = {}
<1>1. c.age \in Seq(Buf) /\ c.lru \in Seq(Buf)
  BY DEF GoodLists
<1>2. ASSUME FreeList(c) = <<>> PROVE S = {}
  <2>1. c.age = <<>> /\ c.lru = <<>>
    BY <1>1, <1>2, ConcatEqualIffEmpty DEF FreeList
  <2>2. DOMAIN c.age = {} /\ DOMAIN c.lru = {}
    BY <2>1
  <2> QED BY <2>2 DEF GoodLists, ToSet
<1>3. ASSUME FreeList(c) # <<>> PROVE S # {}
  BY <1>3, HeadFree
<1> QED BY <1>2, <1>3

--------------------------------------------------------------------------------
\* getnewbuf: it sleeps, ages a buffer out, writes it, or takes it for the new block.
LEMMA TakeBufferGood ==
  ASSUME IInv, NEW p \in Proc, Runs(p), pc[p] \in {"getblk", "getnewbuf"},
         \A y \in Buf : cache.hash[y] # call[p].block,
         TakeBuffer(p), UNCHANGED <<disk, owed, written>>
  PROVE  IInv'
<1>0. /\ cache \in Cache /\ bp \in [Proc -> Buf \cup {NoBuf}] /\ Types
      /\ GoodLists(cache, Free(cache))
      /\ NoWait # NeedBuffer /\ NeedBuffer \notin Buf /\ NeedBuffer # NumOutput
      /\ NoBlock \notin Block /\ NoBuf \notin Buf
      /\ Good(cache, p, pc[p], call[p], bp[p], cpu, owed[p])
      /\ call[p] \in Calls /\ Held(cache, bp)
  BY OfProc DEF IInv
<1>1. /\ cpu \in {p, NoProc} /\ cache.wait[p] = NoWait
      /\ call[p].use # "none" /\ call[p].block \in Block
  BY <1>0 DEF Runs, Good
<1>2. CASE FreeList(cache) = <<>> /\ NeedAnyBuffer(p)
  <2> DEFINE n == [cache EXCEPT !.needbuffer = TRUE]
  <2>1. /\ n \in Cache /\ n.flags = cache.flags /\ n.hash = cache.hash /\ n.io = cache.io
        /\ n.needbuffer = TRUE /\ n.wait = cache.wait /\ SameLists(cache, n)
    BY <1>0 DEF Cache, SameLists
  <2>2. /\ cache' = Tsleep(n, p, NeedBuffer) /\ UNCHANGED <<call, bp>>
        /\ pc' = [pc EXCEPT ![p] = "getblk"] /\ cpu' = NoProc
    BY <1>2 DEF NeedAnyBuffer, Sleep, Leave
  <2> HIDE DEF n
  <2>3. /\ cache' \in Cache /\ cache'.flags = n.flags /\ cache'.hash = n.hash
        /\ cache'.io = n.io /\ cache'.needbuffer = n.needbuffer /\ SameLists(n, cache')
        /\ cache'.wait = [n.wait EXCEPT ![p] = NeedBuffer]
    BY <2>1, <2>2, TsleepFacts
  <2>4. /\ SameLists(cache, cache') /\ cache'.wait[p] = NeedBuffer
        /\ \A q \in Proc \ {p} : cache'.wait[q] = cache.wait[q]
    BY <1>0, <2>1, <2>3 DEF SameLists, Cache
  <2>5. Alone(p) /\ pc'[p] = "getblk" /\ call'[p] = call[p]
    BY <1>0, <1>1, <2>2 DEF Types, Alone, Places
  <2>6. Free(cache') = {} /\ cache'.needbuffer
    <3>1. Free(cache) = {}
      BY <1>0, <1>2, NoneFree
    <3> QED BY <2>1, <2>3, <3>1 DEF Free
  <2>7. Good(cache', p, pc'[p], call'[p], bp[p], cpu', owed[p])
    <3>1. Wait(cache', p, pc'[p], bp[p])
      BY <1>0, <2>4, <2>5, <2>6 DEF Wait
    <3>2. Due(cache') = Due(cache)
      BY <2>1, <2>3 DEF Due, Dirty, Outputs, Has
    <3> QED BY <1>0, <1>1, <2>1, <2>3, <2>5, <3>1, <3>2 DEF Good
  <2> QED BY <2>1, <2>2, <2>3, <2>4, <2>5, <2>7, StepSame
<1>3. CASE FreeList(cache) # <<>>
  <2> DEFINE x == Head(FreeList(cache))
             c == Bremfree(cache, x)
  <2>1. /\ IF Has(c, x, "VFLUSH") THEN AgeOut(p, c, x)
           ELSE IF Has(c, x, "DELWRI") THEN WriteOut(p, c, x)
           ELSE Reuse(p, c, x)
    BY <1>2, <1>3 DEF TakeBuffer
  <2>2. x \in Free(cache) /\ x \in Buf
    BY <1>0, <1>3, HeadFree DEF Free
  <2> HIDE DEF x
  <2>3. /\ c \in Cache /\ c.flags = cache.flags /\ c.hash = cache.hash /\ c.io = cache.io
        /\ c.data = cache.data /\ c.needbuffer = cache.needbuffer /\ c.wait = cache.wait
        /\ GoodLists(c, Free(cache) \ {x})
    BY <1>0, <2>2, BremfreeFacts
  <2> HIDE DEF c
  <2>4. \A q \in Proc : /\ cache.wait[q] # NeedBuffer
                        /\ "BUSY" \notin cache.flags[x] => cache.wait[q] # x
    BY <2>2, FreeBuffer
  <2>5. /\ Mark(cache, x) /\ Place(cache, bp, x)
        /\ \A q \in Proc : bp[q] \in cache.io => "ASYNC" \notin cache.flags[bp[q]]
    BY <2>2 DEF Held, Common, IInv
  <2>6. ASSUME NEW q \in Proc, cache.wait[q] = NumOutput PROVE Outputs(cache) # {}
    BY <2>6 DEF IInv, AllGood, Good, Wait
  <2>7. CASE "VFLUSH" \in cache.flags[x]
    <3> DEFINE e == Clear(c, x, {"VFLUSH"})
               d == Add(e, x, {"AGE"})
    <3>1. /\ cache' = d /\ pc' = [pc EXCEPT ![p] = "getnewbuf"] /\ cpu' = p
          /\ UNCHANGED <<call, bp>>
      BY <2>1, <2>3, <2>7 DEF AgeOut, Goto, Has
    <3>2. /\ e \in Cache /\ e.flags = [c.flags EXCEPT ![x] = c.flags[x] \ {"VFLUSH"}]
          /\ e.hash = c.hash /\ e.data = c.data /\ e.io = c.io
          /\ e.needbuffer = c.needbuffer /\ e.wait = c.wait /\ SameLists(c, e)
      BY <2>2, <2>3, ClearFacts
    <3> HIDE DEF e
    <3>3. /\ d \in Cache /\ d.flags = [e.flags EXCEPT ![x] = e.flags[x] \cup {"AGE"}]
          /\ d.hash = e.hash /\ d.data = e.data /\ d.io = e.io
          /\ d.needbuffer = e.needbuffer /\ d.wait = e.wait /\ SameLists(e, d)
      <4>1. {"AGE"} \in SUBSET Flag
        BY DEF Flag
      <4> QED BY <2>2, <3>2, <4>1, AddFacts
    <3> HIDE DEF d
    <3>4. d.flags = [cache.flags EXCEPT ![x] = (cache.flags[x] \ {"VFLUSH"}) \cup {"AGE"}]
      BY <2>2, <2>3, <3>2, <3>3 DEF Cache
    <3>5. GoodLists(d, Free(cache) \ {x})
      BY <2>3, <3>2, <3>3 DEF GoodLists, SameLists
    <3>6. Held(d, bp)
      BY <1>0, <2>2, <2>3, <2>7, <3>2, <3>3, <3>4, <3>5, AgeOutHeld
    <3>7. /\ d.flags[x] = (cache.flags[x] \ {"VFLUSH"}) \cup {"AGE"}
          /\ \A y \in Buf \ {x} : d.flags[y] = cache.flags[y]
      BY <1>0, <2>2, <3>4 DEF Cache
    <3>8. x \in cache.io /\ "ASYNC" \in cache.flags[x] /\ \A q \in Proc : bp[q] # x
      BY <2>2, <2>5, <2>7 DEF Place
    <3>9. Outputs(d) = Outputs(cache)
      BY <1>0, <2>3, <3>2, <3>3, <3>7 DEF Outputs, Has, Cache
    <3>10. ASSUME NEW q \in Proc, cache.wait[q] = x
           PROVE  pc[q] = "getblk" /\ {"BUSY", "WANTED"} \subseteq cache.flags[x]
      BY <2>2, <3>8, <3>10 DEF IInv, AllGood, Good, Wait
    <3>11. Touch(cache, d, x, p)
      <4>1. \A q \in Proc : cache.wait[q] = x =>
               pc[q] = "getblk" /\ {"BUSY", "WANTED"} \subseteq d.flags[x]
        BY <3>7, <3>10
      <4>2. /\ d.wait = cache.wait /\ d.hash = cache.hash /\ d.io = cache.io
            /\ \A q \in Proc : bp[q] # x
            /\ \A q \in Proc : cache.wait[q] = NumOutput => Outputs(d) # {}
            /\ \A y \in Buf \ {x} : d.flags[y] = cache.flags[y]
        BY <2>3, <2>6, <3>2, <3>3, <3>7, <3>8, <3>9
      <4> QED BY <2>4, <4>1, <4>2 DEF Touch
    <3>12. Covers(cache, d, x)
      BY <2>3, <3>2, <3>3, <3>7 DEF Covers
    <3>13. /\ Alone(p) /\ pc'[p] = "getnewbuf" /\ cpu' = p
           /\ call'[p] = call[p] /\ bp'[p] = bp[p]
      BY <1>0, <1>1, <3>1 DEF Types, Alone, Places
    <3>14. Good(d, p, pc'[p], call'[p], bp'[p], cpu', owed[p])
      <4>1. d.wait[p] = NoWait /\ \A y \in Buf : d.hash[y] = cache.hash[y]
        BY <1>1, <2>3, <3>2, <3>3
      <4>2. bp[p] # NoBuf => bp[p] \in d.io \/ "DONE" \in d.flags[bp[p]]
        BY <1>0, <2>3, <3>2, <3>3, <3>7, <3>8 DEF Good
      <4>3. NoWait \notin Buf \cup {NeedBuffer, NumOutput}
        BY NamesAssumption
      <4> QED BY <1>0, <1>1, <3>13, <4>1, <4>2, <4>3 DEF Good, Wait
    <3> QED BY <2>2, <3>1, <3>6, <3>11, <3>12, <3>13, <3>14, StepOn
  <2>8. ASSUME "VFLUSH" \notin cache.flags[x]
        PROVE  /\ "BUSY" \notin cache.flags[x] /\ "ASYNC" \notin cache.flags[x]
               /\ x \notin cache.io /\ \A q \in Proc : bp[q] # x
    BY <2>2, <2>5, <2>8 DEF Free, Mark, Place
  <2>9. CASE "VFLUSH" \notin cache.flags[x] /\ "DELWRI" \in cache.flags[x]
    <3> DEFINE f == {"BUSY", "AGE", "ASYNC"}
               e == Add(c, x, f)
               d == StartWrite(e, x)
    <3>1. /\ cache' = d /\ pc' = [pc EXCEPT ![p] = "getnewbuf"] /\ cpu' = p
          /\ UNCHANGED <<call, bp>>
      BY <2>1, <2>3, <2>9 DEF WriteOut, Goto, Has
    <3>2. /\ e \in Cache /\ e.flags = [c.flags EXCEPT ![x] = c.flags[x] \cup f]
          /\ e.hash = c.hash /\ e.data = c.data /\ e.io = c.io
          /\ e.needbuffer = c.needbuffer /\ e.wait = c.wait /\ SameLists(c, e)
      <4>1. f \in SUBSET Flag
        BY DEF Flag
      <4> QED BY <2>2, <2>3, <4>1, AddFacts
    <3>3. InHand(e, x, bp)
      <4> DEFINE b == cache.hash[x]
      <4>1. /\ b \in Block /\ \A y \in Buf \ {x} : cache.hash[y] # b
            /\ e.hash = [cache.hash EXCEPT ![x] = b]
        BY <1>0, <2>2, <2>3, <2>5, <2>9, <3>2 DEF Mark, Cache, Held, Common
      <4> DEFINE h == cache.flags[x] \cup f
      <4>2. /\ e.flags = [cache.flags EXCEPT ![x] = h] /\ e.io = cache.io
            /\ "BUSY" \in h /\ "VFLUSH" \notin h
            /\ "DELWRI" \in h => "DONE" \in h /\ "ERROR" \notin h
        BY <2>3, <2>5, <2>9, <3>2 DEF Mark
      <4>3. GoodLists(e, Free(cache) \ {x})
        BY <2>3, <3>2 DEF GoodLists, SameLists
      <4>4. GoodLists(e, IF "VFLUSH" \in h THEN Free(cache) ELSE Free(cache) \ {x})
        BY <4>2, <4>3
      <4>5. "BUSY" \notin cache.flags[x] /\ e \in Cache
        BY <2>8, <2>9, <3>2
      <4> HIDE DEF e, h, b
      <4> QED BY <1>0, <2>2, <4>1, <4>2, <4>4, <4>5, TakeInHand
    <3>4. /\ d \in Cache
          /\ d.flags = [e.flags EXCEPT ![x] = e.flags[x] \ {"READ", "DONE", "ERROR", "DELWRI"}]
          /\ d.io = e.io \cup {x}
          /\ d.hash = e.hash /\ d.data = e.data
          /\ d.needbuffer = e.needbuffer /\ d.wait = e.wait /\ SameLists(e, d)
      BY <2>2, <3>2, StartWriteFacts
    <3>5. /\ e.flags[x] = cache.flags[x] \cup f
          /\ \A y \in Buf \ {x} : e.flags[y] = cache.flags[y]
      BY <1>0, <2>2, <2>3, <3>2 DEF Cache
    <3> HIDE DEF d, e
    <3>6. Held(d, bp)
      <4> DEFINE g == e.flags[x] \ {"READ", "DONE", "ERROR", "DELWRI"}
      <4>1. /\ {"ASYNC", "BUSY"} \subseteq g
            /\ "VFLUSH" \in g <=> "VFLUSH" \in e.flags[x]
            /\ g \cap {"DONE", "DELWRI"} = {} /\ d.flags = [e.flags EXCEPT ![x] = g]
        BY <3>4, <3>5
      <4> HIDE DEF g
      <4> QED BY <2>2, <3>3, <3>4, <4>1, AsyncHeld
    <3>7. /\ d.flags[x] = e.flags[x] \ {"READ", "DONE", "ERROR", "DELWRI"}
          /\ \A y \in Buf \ {x} : d.flags[y] = cache.flags[y]
      BY <3>2, <3>4, <3>5 DEF Cache
    <3>8. Outputs(cache) \subseteq Outputs(d)
      BY <1>0, <2>3, <2>8, <2>9, <3>2, <3>4, <3>7 DEF Outputs, Has, Cache
    <3>9. Touch(cache, d, x, p)
      BY <2>3, <2>4, <2>6, <2>8, <2>9, <3>2, <3>4, <3>7, <3>8 DEF Touch
    <3>10. Covers(cache, d, x)
      BY <2>3, <3>2, <3>4, <3>7 DEF Covers
    <3>11. /\ Alone(p) /\ pc'[p] = "getnewbuf" /\ cpu' = p
           /\ call'[p] = call[p] /\ bp'[p] = bp[p]
      BY <1>0, <1>1, <3>1 DEF Types, Alone, Places
    <3>12. Good(d, p, pc'[p], call'[p], bp'[p], cpu', owed[p])
      <4>1. d.wait[p] = NoWait /\ \A y \in Buf : d.hash[y] = cache.hash[y]
        BY <1>1, <2>3, <3>2, <3>4
      <4>2. bp[p] # NoBuf => bp[p] \in d.io \/ "DONE" \in d.flags[bp[p]]
        BY <1>0, <2>3, <2>8, <2>9, <3>2, <3>4, <3>7 DEF Good
      <4>3. NoWait \notin Buf \cup {NeedBuffer, NumOutput}
        BY NamesAssumption
      <4> QED BY <1>0, <1>1, <3>11, <4>1, <4>2, <4>3 DEF Good, Wait
    <3> QED BY <2>2, <3>1, <3>6, <3>9, <3>10, <3>11, <3>12, StepOn
  <2>10. CASE "VFLUSH" \notin cache.flags[x] /\ "DELWRI" \notin cache.flags[x]
    <3> DEFINE b == call[p].block
               d == [c EXCEPT !.flags[x] = {"BUSY"}, !.hash[x] = b]
    <3>1. Got(p, d, x)
      BY <2>1, <2>3, <2>10 DEF Reuse, Has
    <3>2. /\ d \in Cache /\ d.flags = [cache.flags EXCEPT ![x] = {"BUSY"}]
          /\ d.hash = [cache.hash EXCEPT ![x] = b]
          /\ d.io = cache.io /\ d.wait = cache.wait /\ d.needbuffer = cache.needbuffer
          /\ d.lru = c.lru /\ d.age = c.age
      BY <1>0, <1>1, <2>2, <2>3 DEF Cache, Flag
    <3> HIDE DEF d
    <3>3. GoodLists(d, Free(cache) \ {x})
      BY <2>3, <3>2 DEF GoodLists
    <3>4. InHand(d, x, bp)
      <4> DEFINE g == {"BUSY"}
      <4>1. /\ "BUSY" \in g /\ ("DELWRI" \in g => "DONE" \in g /\ "ERROR" \notin g)
            /\ "VFLUSH" \notin g /\ d.flags = [cache.flags EXCEPT ![x] = g]
        BY <3>2
      <4>2. GoodLists(d, Free(cache) \ {x})
        BY <3>3
      <4>3. b \in Block /\ \A y \in Buf \ {x} : cache.hash[y] # b
        BY <1>1
      <4>4. "BUSY" \notin cache.flags[x]
        BY <2>8, <2>10
      <4> HIDE DEF g, b
      <4> QED BY <1>0, <2>2, <3>2, <4>1, <4>2, <4>3, <4>4, TakeInHand
    <3>5. /\ d.flags[x] = {"BUSY"}
          /\ \A y \in Buf \ {x} : d.flags[y] = cache.flags[y] /\ d.hash[y] = cache.hash[y]
      BY <1>0, <2>2, <3>2 DEF Cache
    <3>6. Covers(cache, d, x) /\ d.flags[x] \cap {"ASYNC", "VFLUSH", "ERROR"} = {}
      BY <2>8, <2>10, <3>5 DEF Covers
    <3> QED BY <2>2, <2>8, <2>10, <3>1, <3>2, <3>4, <3>5, <3>6, GotGood
  <2> QED BY <2>7, <2>9, <2>10
<1> QED BY <1>2, <1>3 DEF TakeBuffer

--------------------------------------------------------------------------------
\* getblk: it sleeps for the buffer of the block, takes it, or goes on to getnewbuf.
LEMMA GetblkGood ==
  ASSUME IInv, NEW p \in Proc, Getblk(p)
  PROVE  IInv'
<1>0. /\ cache \in Cache /\ bp \in [Proc -> Buf \cup {NoBuf}] /\ Types
      /\ GoodLists(cache, Free(cache))
      /\ NoWait \notin Buf \cup {NeedBuffer, NumOutput}
      /\ NeedBuffer \notin Buf /\ NumOutput \notin Buf /\ NeedBuffer # NumOutput
      /\ NoBlock \notin Block /\ NoBuf \notin Buf
      /\ Good(cache, p, pc[p], call[p], bp[p], cpu, owed[p])
      /\ call[p] \in Calls /\ Held(cache, bp)
  BY OfProc DEF IInv
<1>1. /\ Runs(p) /\ pc[p] = "getblk" /\ UNCHANGED <<disk, owed, written>>
      /\ cpu \in {p, NoProc} /\ cache.wait[p] = NoWait
  BY DEF Getblk, Runs
<1>2. call[p].use # "none" /\ call[p].block \in Block
  BY <1>0, <1>1 DEF Good
<1> DEFINE found == Incore(cache, call[p].block)
<1>3. CASE \E x \in found : /\ Has(cache, x, "BUSY")
                            /\ Sleep(p, "getblk", Add(cache, x, {"WANTED"}), x)
                            /\ UNCHANGED <<call, bp>>
  <2>1. PICK x \in Buf : /\ "BUSY" \in cache.flags[x]
                         /\ cache' = Tsleep(Add(cache, x, {"WANTED"}), p, x)
                         /\ pc' = [pc EXCEPT ![p] = "getblk"] /\ cpu' = NoProc
                         /\ UNCHANGED <<call, bp>>
    BY <1>3 DEF Incore, Has, Sleep, Leave
  <2> DEFINE e == Add(cache, x, {"WANTED"})
  <2>2. /\ e \in Cache /\ e.flags = [cache.flags EXCEPT ![x] = cache.flags[x] \cup {"WANTED"}]
        /\ e.hash = cache.hash /\ e.data = cache.data /\ e.io = cache.io
        /\ e.needbuffer = cache.needbuffer /\ e.wait = cache.wait /\ SameLists(cache, e)
    <3>1. {"WANTED"} \in SUBSET Flag
      BY DEF Flag
    <3> QED BY <1>0, <3>1, AddFacts
  <2> HIDE DEF e
  <2>3. /\ cache' \in Cache /\ cache'.flags = e.flags /\ cache'.hash = e.hash
        /\ cache'.io = e.io /\ cache'.needbuffer = e.needbuffer /\ SameLists(e, cache')
        /\ cache'.wait = [e.wait EXCEPT ![p] = x]
    BY <2>1, <2>2, TsleepFacts DEF e
  <2>4. /\ SameLists(cache, cache') /\ cache'.wait[p] = x
        /\ \A q \in Proc \ {p} : cache'.wait[q] = cache.wait[q]
    BY <1>0, <2>2, <2>3 DEF SameLists, Cache
  <2>5. \A y \in Buf : /\ cache'.flags[y] \ {"WANTED"} = cache.flags[y] \ {"WANTED"}
                       /\ cache.flags[y] \subseteq cache'.flags[y]
    BY <1>0, <2>2, <2>3 DEF Cache
  <2>6. {"BUSY", "WANTED"} \subseteq cache'.flags[x]
    BY <1>0, <2>1, <2>2, <2>3 DEF Cache
  <2>7. Alone(p) /\ pc'[p] = "getblk" /\ call'[p] = call[p]
    BY <1>0, <1>1, <2>1 DEF Types, Alone, Places
  <2>8. Good(cache', p, pc'[p], call'[p], bp[p], cpu', owed[p])
    <3>1. Wait(cache', p, pc'[p], bp[p])
      BY <1>0, <2>4, <2>6, <2>7 DEF Wait
    <3>2. /\ owed[p] = {}
          /\ bp[p] # NoBuf => /\ bp[p] \in Buf
                              /\ bp[p] \in cache.io \/ "DONE" \in cache.flags[bp[p]]
      BY <1>0, <1>1 DEF Good
    <3>3. bp[p] # NoBuf => bp[p] \in cache'.io \/ "DONE" \in cache'.flags[bp[p]]
      BY <2>2, <2>3, <2>5, <3>2
    <3> QED BY <1>0, <1>2, <2>7, <3>1, <3>2, <3>3, <1>1 DEF Good
  <2> QED BY <2>1, <2>2, <2>3, <2>4, <2>5, <2>7, <2>8, StepSame
<1>4. CASE \E x \in found : /\ ~Has(cache, x, "BUSY")
                            /\ Got(p, Bremfree(Add(cache, x, {"BUSY"}), x), x)
  <2>1. PICK x \in Buf : /\ cache.hash[x] = call[p].block
                         /\ "BUSY" \notin cache.flags[x]
                         /\ Got(p, Bremfree(Add(cache, x, {"BUSY"}), x), x)
    BY <1>4 DEF Incore, Has
  <2> DEFINE e == Add(cache, x, {"BUSY"})
             d == Bremfree(e, x)
             g == cache.flags[x] \cup {"BUSY"}
             b == call[p].block
  <2>2. /\ e \in Cache /\ e.flags = [cache.flags EXCEPT ![x] = g]
        /\ e.hash = cache.hash /\ e.data = cache.data /\ e.io = cache.io
        /\ e.needbuffer = cache.needbuffer /\ e.wait = cache.wait /\ SameLists(cache, e)
    <3>1. {"BUSY"} \in SUBSET Flag
      BY DEF Flag
    <3> QED BY <1>0, <3>1, AddFacts
  <2>3. GoodLists(e, Free(cache))
    BY <1>0, <2>2 DEF GoodLists, SameLists
  <2> HIDE DEF e
  <2>4. /\ d \in Cache /\ d.flags = e.flags /\ d.hash = e.hash /\ d.io = e.io
        /\ d.needbuffer = e.needbuffer /\ d.wait = e.wait
        /\ GoodLists(d, Free(cache) \ {x})
    BY <2>2, <2>3, BremfreeFacts
  <2>5. Got(p, d, x)
    BY <2>1 DEF e
  <2> HIDE DEF d
  <2>6. /\ "ASYNC" \notin cache.flags[x] /\ "VFLUSH" \notin cache.flags[x]
        /\ "ERROR" \notin cache.flags[x]
        /\ "DELWRI" \in g => "DONE" \in g /\ "ERROR" \notin g
    BY <1>0, <1>2, <2>1 DEF Held, Common, Mark, Place
  <2>7. /\ d.flags[x] = g
        /\ \A y \in Buf \ {x} : d.flags[y] = cache.flags[y] /\ d.hash[y] = cache.hash[y]
    BY <1>0, <2>2, <2>4 DEF Cache
  <2>8. InHand(d, x, bp)
    <3>1. /\ b \in Block /\ \A y \in Buf \ {x} : cache.hash[y] # b
          /\ d.hash = [cache.hash EXCEPT ![x] = b]
      BY <1>0, <1>2, <2>1, <2>2, <2>4 DEF Cache, Held, Common
    <3>2. "BUSY" \in g /\ "VFLUSH" \notin g /\ d.flags = [cache.flags EXCEPT ![x] = g]
          /\ d.io = cache.io
      BY <2>2, <2>4, <2>6
    <3>3. GoodLists(d, Free(cache) \ {x})
      BY <2>4
    <3>4. "BUSY" \notin cache.flags[x] /\ d \in Cache
          /\ ("DELWRI" \in g => "DONE" \in g /\ "ERROR" \notin g)
      BY <2>1, <2>4, <2>6
    <3> HIDE DEF b, g
    <3> QED BY <1>0, <3>1, <3>2, <3>3, <3>4, TakeInHand
  <2>9. Covers(cache, d, x) /\ d.flags[x] \cap {"ASYNC", "VFLUSH", "ERROR"} = {}
    BY <2>2, <2>4, <2>6, <2>7 DEF Covers
  <2>10. d.io = cache.io /\ d.wait = cache.wait /\ d.needbuffer = cache.needbuffer
    BY <2>2, <2>4
  <2> QED BY <1>1, <2>1, <2>5, <2>7, <2>8, <2>9, <2>10, GotGood
<1>5. CASE found = {} /\ TakeBuffer(p)
  <2>1. \A y \in Buf : cache.hash[y] # call[p].block
    BY <1>5 DEF Incore
  <2> QED BY <1>1, <1>5, <2>1, TakeBufferGood
<1> QED BY <1>3, <1>4, <1>5 DEF Getblk

\* getnewbuf goes round again.
LEMMA GetnewbufGood ==
  ASSUME IInv, NEW p \in Proc, Getnewbuf(p)
  PROVE  IInv'
<1>1. \A y \in Buf : cache.hash[y] # call[p].block
  BY DEF IInv, AllGood, Good, Getnewbuf
<1> QED BY <1>1, TakeBufferGood DEF Getnewbuf

\* The calls that begin with a search
LEMMA BreadGood ==
  ASSUME IInv, NEW p \in Proc, NEW b \in Block, NEW n \in Block \cup {NoBlock},
         Bread(p, b, n) \/ BeginWrite(p, b)
  PROVE  IInv'
<1>0. /\ Types /\ NoWait \notin Buf \cup {NeedBuffer, NumOutput}
      /\ Good(cache, p, pc[p], call[p], bp[p], cpu, owed[p])
  BY OfProc
<1>1. PICK u \in {"read", "write"}, m \in Block \cup {NoBlock} :
         /\ call' = [call EXCEPT ![p] = [use |-> u, block |-> b, next |-> m]]
         /\ cpu = NoProc /\ pc[p] = "user"
         /\ pc' = [pc EXCEPT ![p] = "getblk"] /\ cpu' = NoProc
         /\ UNCHANGED <<cache, disk, bp, owed, written>>
  BY DEF Bread, BeginWrite, Leave
<1>2. /\ Alone(p) /\ pc'[p] = "getblk"
      /\ call'[p].use \in {"read", "write"} /\ call'[p].block = b
  BY <1>0, <1>1 DEF Types, Alone, Places, Calls
<1>3. cache.wait[p] = NoWait /\ bp[p] = NoBuf
  BY <1>0, <1>1 DEF Good, Wait
<1>4. Good(cache, p, pc'[p], call'[p], bp[p], cpu', owed[p])
  BY <1>0, <1>1, <1>2, <1>3 DEF Good, Wait
<1> QED BY <1>1, <1>2, <1>4, StepIdle

\* The read-ahead of breadn
LEMMA BreadnGood ==
  ASSUME IInv, NEW p \in Proc, Breadn(p)
  PROVE  IInv'
<1>0. /\ Types /\ NoWait \notin Buf \cup {NeedBuffer, NumOutput} /\ call[p] \in Calls
      /\ Good(cache, p, pc[p], call[p], bp[p], cpu, owed[p])
  BY OfProc
<1>1. PICK l \in {"biowait", "getblk"}, k \in Calls :
         /\ cpu \in {p, NoProc} /\ cache.wait[p] = NoWait /\ pc[p] = "breadn"
         /\ UNCHANGED <<cache, disk, bp, owed, written>> /\ cpu' = p
         /\ pc' = [pc EXCEPT ![p] = l] /\ call' = [call EXCEPT ![p] = k]
         /\ l = "biowait" => k.use = "none"
         /\ l = "getblk" => k.use = "ahead" /\ k.block \in Block
  <2>1. CASE call[p].next = NoBlock \/ Incore(cache, call[p].next) # {}
    BY <2>1 DEF Breadn, Runs, Goto, NoCall, Calls
  <2>2. CASE ~(call[p].next = NoBlock \/ Incore(cache, call[p].next) # {})
    <3> DEFINE k == [use |-> "ahead", block |-> call[p].next, next |-> NoBlock]
    <3>1. k \in Calls /\ k.use = "ahead" /\ k.block \in Block
      BY <1>0, <2>2 DEF Calls
    <3> HIDE DEF k
    <3>2. /\ cpu \in {p, NoProc} /\ cache.wait[p] = NoWait /\ pc[p] = "breadn"
          /\ UNCHANGED <<cache, disk, bp, owed, written>> /\ cpu' = p
          /\ pc' = [pc EXCEPT ![p] = "getblk"] /\ call' = [call EXCEPT ![p] = k]
      BY <2>2 DEF Breadn, Runs, Goto, k
    <3> QED BY <3>1, <3>2
  <2> QED BY <2>1, <2>2
<1>2. Alone(p) /\ pc'[p] = l /\ call'[p] = k
  BY <1>0, <1>1 DEF Types, Alone, Places
<1>3. Good(cache, p, pc'[p], call'[p], bp[p], cpu', owed[p])
  BY <1>0, <1>1, <1>2 DEF Good, Wait
<1> QED BY <1>1, <1>2, <1>3, StepIdle

--------------------------------------------------------------------------------
\* The buffer of p, which is in no transfer: who sleeps for it wants it.
LEMMA OwnBuffer ==
  ASSUME IInv, NEW p \in Proc, bp[p] # NoBuf, bp[p] \notin cache.io
  PROVE  /\ bp[p] \in Buf
         /\ InHand(cache, bp[p], [bp EXCEPT ![p] = NoBuf])
         /\ "ASYNC" \notin cache.flags[bp[p]] /\ "VFLUSH" \notin cache.flags[bp[p]]
         /\ "BUSY" \in cache.flags[bp[p]]
         /\ \A q \in Proc \ {p} : bp[q] # bp[p]
         /\ \A q \in Proc : cache.wait[q] = bp[p] =>
               pc[q] = "getblk" /\ {"BUSY", "WANTED"} \subseteq cache.flags[bp[p]]
         /\ \A q \in Proc : cache.wait[q] = NumOutput => Outputs(cache) # {}
         /\ \A q \in Proc : cache.wait[q] = NeedBuffer => cache.needbuffer /\ Free(cache) = {}
<1>1. /\ bp[p] \in Buf
      /\ InHand(cache, bp[p], [bp EXCEPT ![p] = NoBuf])
      /\ "ASYNC" \notin cache.flags[bp[p]] /\ "VFLUSH" \notin cache.flags[bp[p]]
  BY OwnInHand DEF IInv
<1>2. "BUSY" \in cache.flags[bp[p]]
  BY <1>1 DEF InHand
<1>3. \A q \in Proc \ {p} : bp[q] # bp[p]
  BY DEF IInv, Held, Common
<1>4. \A q \in Proc : Wait(cache, q, pc[q], bp[q])
  BY DEF IInv, AllGood, Good
<1>5. ASSUME NEW q \in Proc, cache.wait[q] = bp[p]
      PROVE  pc[q] = "getblk" /\ {"BUSY", "WANTED"} \subseteq cache.flags[bp[p]]
  BY <1>1, <1>4, <1>5 DEF Wait
<1>6. /\ \A q \in Proc : cache.wait[q] = NumOutput => Outputs(cache) # {}
      /\ \A q \in Proc : cache.wait[q] = NeedBuffer => cache.needbuffer /\ Free(cache) = {}
  BY <1>4 DEF Wait
<1> QED BY <1>1, <1>2, <1>3, <1>5, <1>6

\* A process that has buffer x, in no transfer, releases it and is done.
LEMMA FreedGood ==
  ASSUME IInv, NEW p \in Proc, NEW x \in Buf, x = bp[p], x \notin cache.io,
         cache.wait[p] = NoWait, call[p].use = "none", owed[p] = {},
         NEW c, InHand(c, x, [bp EXCEPT ![p] = NoBuf]),
         \A y \in Buf \ {x} : c.flags[y] = cache.flags[y] /\ c.hash[y] = cache.hash[y],
         c.io = cache.io, c.wait = cache.wait, c.needbuffer = cache.needbuffer,
         "WANTED" \in cache.flags[x] => "WANTED" \in c.flags[x], Covers(cache, c, x),
         cache' = Brelse(c, x), bp' = [bp EXCEPT ![p] = NoBuf],
         pc' = [pc EXCEPT ![p] = "user"], call' = call,
         cpu \in {p, NoProc}, cpu' = NoProc,
         UNCHANGED <<disk, owed>>, written' \in [Block -> Value]
  PROVE  IInv'
<1>0. /\ Types /\ NoWait \notin Buf \cup {NeedBuffer, NumOutput} /\ x # NoBuf
      /\ cache \in Cache /\ bp \in [Proc -> Buf \cup {NoBuf}]
  BY OfProc
<1>1. /\ \A q \in Proc \ {p} : bp[q] # x
      /\ \A q \in Proc : cache.wait[q] = x => "WANTED" \in c.flags[x]
      /\ \A q \in Proc : cache.wait[q] = NumOutput => Outputs(cache) # {}
  BY <1>0, OwnBuffer
<1>2. c \in Cache
  BY DEF InHand, Common
<1>3. Outputs(c) = Outputs(cache)
  BY <1>0, <1>2 DEF Outputs, Has, Cache
<1>4. /\ Touch(cache, cache', x, p) /\ Covers(c, cache', x)
      /\ \A q \in Proc : c.wait[q] = NoWait => cache'.wait[q] = NoWait
  <2>1. Ready(c, x, p)
    BY <1>1, <1>3 DEF Ready
  <2> QED BY <2>1, BrelseTouch
<1>5. Covers(cache, cache', x)
  BY <1>4 DEF Covers
<1>6. Held(cache', bp')
  BY BrelseHeld
<1>7. Alone(p) /\ pc'[p] = "user" /\ call'[p] = call[p] /\ bp'[p] = NoBuf
  BY <1>0 DEF Types, Alone, Places
<1>8. Good(cache', p, pc'[p], call'[p], bp'[p], cpu', owed[p])
  BY <1>0, <1>4, <1>7 DEF Good, Wait
<1> QED BY <1>4, <1>5, <1>6, <1>7, <1>8, StepOn

\* biowait, and what bread and bwrite do after it
LEMMA BiowaitGood ==
  ASSUME IInv, NEW p \in Proc, Biowait(p)
  PROVE  IInv'
<1>0. /\ cache \in Cache /\ bp \in [Proc -> Buf \cup {NoBuf}] /\ Types
      /\ NoWait \notin Buf \cup {NeedBuffer, NumOutput} /\ NeedBuffer \notin Buf
      /\ NumOutput \notin Buf /\ NoBuf \notin Buf
      /\ Good(cache, p, pc[p], call[p], bp[p], cpu, owed[p])
  BY OfProc
<1> DEFINE x == bp[p]
<1>1. /\ cpu \in {p, NoProc} /\ cache.wait[p] = NoWait /\ pc[p] \in {"biowait", "bwrite"}
      /\ UNCHANGED <<disk, call, owed, written>>
      /\ IF "DONE" \notin cache.flags[x]
         THEN Sleep(p, pc[p], cache, x) /\ UNCHANGED bp
         ELSE IF pc[p] = "bwrite" \/ "ERROR" \in cache.flags[x]
         THEN /\ cache' = Brelse(cache, x) /\ bp' = [bp EXCEPT ![p] = NoBuf]
              /\ Leave(p, "user")
         ELSE Leave(p, "hold") /\ UNCHANGED <<cache, bp>>
  BY DEF Biowait, Runs, Has
<1>2. x # NoBuf /\ x \in Buf /\ call[p].use = "none" /\ owed[p] = {}
  BY <1>0, <1>1 DEF Good
<1>3. CASE "DONE" \notin cache.flags[x]
  <2>1. /\ cache' = Tsleep(cache, p, x) /\ bp' = bp
        /\ pc' = [pc EXCEPT ![p] = pc[p]] /\ cpu' = NoProc
    BY <1>1, <1>3 DEF Sleep, Leave
  <2>2. /\ cache' \in Cache /\ cache'.flags = cache.flags /\ cache'.hash = cache.hash
        /\ cache'.io = cache.io /\ cache'.needbuffer = cache.needbuffer
        /\ SameLists(cache, cache') /\ cache'.wait = [cache.wait EXCEPT ![p] = x]
    BY <1>0, <1>2, <2>1, TsleepFacts
  <2>3. /\ cache'.wait[p] = x /\ x \in cache'.io
        /\ \A q \in Proc \ {p} : cache'.wait[q] = cache.wait[q]
    BY <1>0, <1>1, <1>2, <1>3, <2>2 DEF Cache, Good
  <2>4. Alone(p) /\ pc'[p] = pc[p] /\ call'[p] = call[p]
    BY <1>0, <1>1, <2>1 DEF Types, Alone, Places
  <2>5. Good(cache', p, pc'[p], call'[p], bp[p], cpu', owed[p])
    BY <1>0, <1>1, <1>2, <2>2, <2>3, <2>4 DEF Good, Wait
  <2> QED BY <2>1, <2>2, <2>3, <2>4, <2>5, StepSame
<1>4. CASE "DONE" \in cache.flags[x] /\ (pc[p] = "bwrite" \/ "ERROR" \in cache.flags[x])
  <2>1. /\ cache' = Brelse(cache, x) /\ bp' = [bp EXCEPT ![p] = NoBuf]
        /\ pc' = [pc EXCEPT ![p] = "user"] /\ cpu' = NoProc
    BY <1>1, <1>4 DEF Leave
  <2>2. x \notin cache.io
    BY <1>2, <1>4 DEF IInv, Held, Common, Mark
  <2>3. InHand(cache, x, [bp EXCEPT ![p] = NoBuf])
    BY <1>2, <2>2, OwnBuffer
  <2>4. Covers(cache, cache, x) /\ written' \in [Block -> Value]
    BY <1>0, <1>1 DEF Covers, Types
  <2> QED BY <1>1, <1>2, <2>1, <2>2, <2>3, <2>4, FreedGood
<1>5. CASE "DONE" \in cache.flags[x] /\ pc[p] # "bwrite" /\ "ERROR" \notin cache.flags[x]
  <2>1. pc' = [pc EXCEPT ![p] = "hold"] /\ cpu' = NoProc /\ UNCHANGED <<cache, bp>>
    BY <1>1, <1>5 DEF Leave
  <2>2. Alone(p) /\ pc'[p] = "hold" /\ call'[p] = call[p]
    BY <1>0, <1>1, <2>1 DEF Types, Alone, Places
  <2>3. x \notin cache.io
    BY <1>2, <1>5 DEF IInv, Held, Common, Mark
  <2>4. Good(cache, p, pc'[p], call'[p], bp[p], cpu', owed[p])
    BY <1>0, <1>1, <1>2, <1>5, <2>2, <2>3 DEF Good, Wait
  <2> QED BY <2>1, <2>2, <2>4, StepIdle
<1> QED BY <1>3, <1>4, <1>5

\* What holds when the caller of bread or getblk lets a buffer go.
LEMMA HoldFacts ==
  ASSUME IInv, NEW p \in Proc, Holds(p)
  PROVE  /\ cpu = NoProc /\ pc[p] = "hold" /\ cache.wait[p] = NoWait
         /\ call[p].use = "none" /\ owed[p] = {}
         /\ bp[p] # NoBuf /\ bp[p] \in Buf /\ bp[p] \notin cache.io
         /\ "ERROR" \notin cache.flags[bp[p]] /\ cache.hash[bp[p]] \in Block
<1>1. /\ Good(cache, p, pc[p], call[p], bp[p], cpu, owed[p])
      /\ NoWait \notin Buf \cup {NeedBuffer, NumOutput} /\ cache \in Cache
      /\ bp \in [Proc -> Buf \cup {NoBuf}]
  BY OfProc
<1>2. /\ cpu = NoProc /\ pc[p] = "hold" /\ cache.wait[p] = NoWait
      /\ call[p].use = "none" /\ owed[p] = {}
      /\ bp[p] # NoBuf /\ bp[p] \in Buf /\ bp[p] \notin cache.io
      /\ "ERROR" \notin cache.flags[bp[p]]
  BY <1>1 DEF Holds, Good, Wait
<1>3. InHand(cache, bp[p], [bp EXCEPT ![p] = NoBuf])
  BY <1>2, OwnBuffer
<1>4. cache.hash[bp[p]] \in Block
  BY <1>1, <1>2, <1>3 DEF InHand, Common, Mark, Cache
<1> QED BY <1>2, <1>4

\* brelse by the caller of bread
LEMMA ReleaseGood ==
  ASSUME IInv, NEW p \in Proc, Release(p)
  PROVE  IInv'
<1>0. Types
  BY DEF IInv
<1> DEFINE x == bp[p]
<1>1. /\ Holds(p) /\ cache' = Brelse(cache, x) /\ bp' = [bp EXCEPT ![p] = NoBuf]
      /\ pc' = [pc EXCEPT ![p] = "user"] /\ cpu' = NoProc
      /\ UNCHANGED <<disk, call, owed, written>>
  BY DEF Release, LetGo, Leave
<1>2. InHand(cache, x, [bp EXCEPT ![p] = NoBuf])
  BY <1>1, HoldFacts, OwnBuffer
<1>3. Covers(cache, cache, x) /\ written' \in [Block -> Value]
  BY <1>0, <1>1 DEF Covers, Types
<1> QED BY <1>1, <1>2, <1>3, HoldFacts, FreedGood

\* The contents of the buffer of p are replaced.
LEMMA FilledFacts ==
  ASSUME IInv, NEW p \in Proc, Holds(p), NEW v \in Value, Write(p, v)
  PROVE  LET d == Filled(p, v)
         IN  /\ d \in Cache /\ d.flags = cache.flags /\ d.hash = cache.hash
             /\ d.io = cache.io /\ d.needbuffer = cache.needbuffer /\ d.wait = cache.wait
             /\ SameLists(cache, d) /\ written' \in [Block -> Value]
<1>1. bp[p] \in Buf /\ cache \in Cache /\ cache.hash[bp[p]] \in Block /\ Types
  BY HoldFacts, OfProc
<1>2. written' \in [Block -> Value]
  BY <1>1 DEF Write, Types
<1> QED BY <1>1, <1>2 DEF Filled, Cache, SameLists

\* bdwrite
LEMMA BdwriteGood ==
  ASSUME IInv, NEW p \in Proc, NEW v \in Value, Bdwrite(p, v)
  PROVE  IInv'
<1> DEFINE x == bp[p]
           f == {"DELWRI", "DONE"}
           e == Filled(p, v)
           c == Add(e, x, f)
           own == [bp EXCEPT ![p] = NoBuf]
<1>1. /\ Holds(p) /\ Write(p, v) /\ cache' = Brelse(c, x) /\ bp' = own
      /\ pc' = [pc EXCEPT ![p] = "user"] /\ cpu' = NoProc
      /\ UNCHANGED <<disk, call, owed>>
  BY DEF Bdwrite, LetGo, Leave
<1>2. /\ cpu = NoProc /\ cache.wait[p] = NoWait
      /\ call[p].use = "none" /\ owed[p] = {} /\ x # NoBuf /\ x \in Buf /\ x \notin cache.io
      /\ "ERROR" \notin cache.flags[x] /\ cache \in Cache
  BY <1>1, HoldFacts, OfProc
<1>3. /\ e \in Cache /\ e.flags = cache.flags /\ e.hash = cache.hash
      /\ e.io = cache.io /\ e.needbuffer = cache.needbuffer /\ e.wait = cache.wait
      /\ SameLists(cache, e) /\ written' \in [Block -> Value]
  BY <1>1, FilledFacts
<1> HIDE DEF e
<1>4. /\ c \in Cache /\ c.flags = [e.flags EXCEPT ![x] = e.flags[x] \cup f]
      /\ c.hash = e.hash /\ c.io = e.io
      /\ c.needbuffer = e.needbuffer /\ c.wait = e.wait /\ SameLists(e, c)
  <2>1. f \in SUBSET Flag
    BY DEF Flag
  <2> QED BY <1>2, <1>3, <2>1, AddFacts
<1> HIDE DEF c
<1>5. InHand(cache, x, own) /\ "VFLUSH" \notin cache.flags[x] /\ "BUSY" \in cache.flags[x]
  BY <1>2, OwnBuffer
<1> HIDE DEF own
<1>6. InHand(c, x, own)
  <2> DEFINE g == cache.flags[x] \cup f
  <2>1. /\ c.flags = [cache.flags EXCEPT ![x] = g] /\ "BUSY" \in g
        /\ ("VFLUSH" \in g <=> "VFLUSH" \in cache.flags[x])
        /\ ("DELWRI" \in g => "DONE" \in g /\ "ERROR" \notin g)
    BY <1>2, <1>3, <1>4, <1>5
  <2>2. SameLists(cache, c) /\ c.hash = cache.hash /\ c.io = cache.io /\ c \in Cache
    BY <1>3, <1>4 DEF SameLists
  <2> HIDE DEF g, x
  <2> QED BY <1>2, <1>5, <2>1, <2>2, Remark
<1>7. /\ c.flags[x] = cache.flags[x] \cup f
      /\ \A y \in Buf \ {x} : c.flags[y] = cache.flags[y] /\ c.hash[y] = cache.hash[y]
      /\ c.io = cache.io /\ c.wait = cache.wait /\ c.needbuffer = cache.needbuffer
  BY <1>2, <1>3, <1>4 DEF Cache
<1>8. Covers(cache, c, x) /\ ("WANTED" \in cache.flags[x] => "WANTED" \in c.flags[x])
  BY <1>2, <1>3, <1>4, <1>7 DEF Covers
<1> QED BY <1>1, <1>2, <1>3, <1>6, <1>7, <1>8, FreedGood DEF own

--------------------------------------------------------------------------------
\* bwrite up to VOP_STRATEGY, of a buffer that its caller has: the buffer is in hand,
\* and the step does to others what a step on it may.
LEMMA WriteFacts ==
  ASSUME IInv, NEW p \in Proc, Holds(p), NEW c \in Cache, NEW f \in {{}, {"ASYNC"}},
         c.flags = [cache.flags EXCEPT ![bp[p]] = cache.flags[bp[p]] \cup f],
         c.hash = cache.hash, c.io = cache.io, c.wait = cache.wait,
         c.needbuffer = cache.needbuffer, SameLists(cache, c)
  PROVE  LET x == bp[p]
             g == (cache.flags[x] \cup f) \ {"READ", "DONE", "ERROR", "DELWRI"}
             d == StartWrite(c, x)
         IN  /\ InHand(c, x, [bp EXCEPT ![p] = NoBuf])
             /\ d \in Cache /\ d.flags = [c.flags EXCEPT ![x] = g]
             /\ d.io = c.io \cup {x} /\ d.hash = c.hash /\ d.wait = cache.wait
             /\ SameLists(c, d)
             /\ Touch(cache, d, x, p) /\ Covers(cache, d, x)
             /\ "BUSY" \in g /\ "VFLUSH" \notin g /\ g \cap {"DONE", "DELWRI"} = {}
             /\ "ASYNC" \notin c.flags[x] \ f /\ "VFLUSH" \notin c.flags[x]
<1> DEFINE x == bp[p]
           h == cache.flags[x] \cup f
           g == h \ {"READ", "DONE", "ERROR", "DELWRI"}
           d == StartWrite(c, x)
           own == [bp EXCEPT ![p] = NoBuf]
<1>0. /\ x # NoBuf /\ x \in Buf /\ x \notin cache.io
      /\ "ERROR" \notin cache.flags[x] /\ cache \in Cache
  BY HoldFacts, OfProc
<1>1. /\ InHand(cache, x, own)
      /\ "ASYNC" \notin cache.flags[x] /\ "VFLUSH" \notin cache.flags[x]
      /\ "BUSY" \in cache.flags[x] /\ \A q \in Proc \ {p} : bp[q] # x
      /\ \A q \in Proc : cache.wait[q] = x =>
            pc[q] = "getblk" /\ {"BUSY", "WANTED"} \subseteq cache.flags[x]
      /\ \A q \in Proc : cache.wait[q] = NumOutput => Outputs(cache) # {}
      /\ \A q \in Proc : cache.wait[q] = NeedBuffer => cache.needbuffer /\ Free(cache) = {}
  BY <1>0, OwnBuffer
<1>2. /\ d \in Cache
      /\ d.flags = [c.flags EXCEPT ![x] = c.flags[x] \ {"READ", "DONE", "ERROR", "DELWRI"}]
      /\ d.io = c.io \cup {x} /\ d.hash = c.hash
      /\ d.needbuffer = c.needbuffer /\ d.wait = c.wait /\ SameLists(c, d)
  BY <1>0, StartWriteFacts
<1> HIDE DEF d
<1>3. /\ c.flags[x] = h
      /\ \A y \in Buf \ {x} : c.flags[y] = cache.flags[y]
  BY <1>0 DEF Cache
<1>4. /\ d.flags = [c.flags EXCEPT ![x] = g] /\ d.flags[x] = g
      /\ \A y \in Buf \ {x} : d.flags[y] = cache.flags[y]
  BY <1>0, <1>2, <1>3 DEF Cache
<1>5. /\ "BUSY" \in h /\ ("VFLUSH" \in h <=> "VFLUSH" \in cache.flags[x])
      /\ ("DELWRI" \in h => "DONE" \in h /\ "ERROR" \notin h)
  BY <1>0, <1>1 DEF InHand, Common, Mark
<1>6. InHand(c, x, own)
  <2>1. c.flags = [cache.flags EXCEPT ![x] = h]
    OBVIOUS
  <2> HIDE DEF x, h, own
  <2> QED BY <1>0, <1>1, <1>5, <2>1, Remark
<1>7. /\ "BUSY" \in g /\ "VFLUSH" \notin g /\ g \cap {"DONE", "DELWRI"} = {}
      /\ "ASYNC" \notin c.flags[x] \ f /\ "VFLUSH" \notin c.flags[x]
  BY <1>1, <1>3
<1>8. Outputs(cache) \subseteq Outputs(d) /\ Free(d) = Free(cache)
  BY <1>0, <1>1, <1>2, <1>4, <1>7 DEF Outputs, Has, Cache, Free
<1>9. Touch(cache, d, x, p)
  <2>1. {"BUSY", "WANTED"} \subseteq cache.flags[x] => {"BUSY", "WANTED"} \subseteq d.flags[x]
    BY <1>4
  <2>2. /\ d.wait = cache.wait /\ d.needbuffer = cache.needbuffer /\ d.hash = cache.hash
        /\ \A y \in Buf \ {x} : y \in d.io <=> y \in cache.io
    BY <1>2
  <2>3. \A q \in Proc \ {p} : bp[q] # x
    BY <1>1
  <2>4. \A y \in Buf \ {x} : d.flags[y] = cache.flags[y]
    BY <1>4
  <2>5. /\ \A q \in Proc : cache.wait[q] = x =>
              pc[q] = "getblk" /\ {"BUSY", "WANTED"} \subseteq d.flags[x]
        /\ \A q \in Proc : cache.wait[q] = NumOutput => Outputs(d) # {}
        /\ \A q \in Proc : cache.wait[q] = NeedBuffer => cache.needbuffer /\ Free(d) = {}
    BY <1>1, <1>8, <2>1
  <2> HIDE DEF x, g
  <2> QED BY <2>2, <2>3, <2>4, <2>5 DEF Touch
<1>10. Covers(cache, d, x)
  BY <1>2, <1>4 DEF Covers
<1> QED BY <1>2, <1>4, <1>6, <1>7, <1>9, <1>10 DEF d

\* bawrite
LEMMA BawriteGood ==
  ASSUME IInv, NEW p \in Proc, NEW v \in Value, Bawrite(p, v)
  PROVE  IInv'
<1> DEFINE x == bp[p]
           e == Filled(p, v)
           c == Add(e, x, {"ASYNC"})
           own == [bp EXCEPT ![p] = NoBuf]
           g == (cache.flags[x] \cup {"ASYNC"}) \ {"READ", "DONE", "ERROR", "DELWRI"}
<1>1. /\ Holds(p) /\ Write(p, v) /\ cache' = StartWrite(c, x) /\ bp' = own
      /\ pc' = [pc EXCEPT ![p] = "user"] /\ cpu' = NoProc
      /\ UNCHANGED <<disk, call, owed>>
  BY DEF Bawrite, LetGo, Leave
<1>2. /\ cpu = NoProc /\ cache.wait[p] = NoWait /\ call[p].use = "none" /\ owed[p] = {}
      /\ x \in Buf /\ cache \in Cache /\ Types
      /\ NoWait \notin Buf \cup {NeedBuffer, NumOutput} /\ bp \in [Proc -> Buf \cup {NoBuf}]
  BY <1>1, HoldFacts, OfProc
<1>3. /\ e \in Cache /\ e.flags = cache.flags /\ e.hash = cache.hash
      /\ e.io = cache.io /\ e.needbuffer = cache.needbuffer /\ e.wait = cache.wait
      /\ SameLists(cache, e) /\ written' \in [Block -> Value]
  BY <1>1, FilledFacts
<1> HIDE DEF e
<1>4. /\ c \in Cache /\ c.flags = [cache.flags EXCEPT ![x] = cache.flags[x] \cup {"ASYNC"}]
      /\ c.hash = cache.hash /\ c.io = cache.io
      /\ c.needbuffer = cache.needbuffer /\ c.wait = cache.wait /\ SameLists(cache, c)
  <2>1. {"ASYNC"} \in SUBSET Flag
    BY DEF Flag
  <2> QED BY <1>2, <1>3, <2>1, AddFacts DEF SameLists
<1> HIDE DEF c
<1>5. /\ InHand(c, x, own)
      /\ cache' \in Cache /\ cache'.flags = [c.flags EXCEPT ![x] = g]
      /\ cache'.io = c.io \cup {x} /\ cache'.hash = c.hash /\ cache'.wait = cache.wait
      /\ SameLists(c, cache')
      /\ Touch(cache, cache', x, p) /\ Covers(cache, cache', x)
      /\ "BUSY" \in g /\ "VFLUSH" \notin g /\ g \cap {"DONE", "DELWRI"} = {}
      /\ "VFLUSH" \notin c.flags[x]
  BY <1>1, <1>4, WriteFacts
<1>6. Held(cache', own)
  <2>1. {"ASYNC", "BUSY"} \subseteq g
    BY <1>5
  <2> HIDE DEF g, own, x
  <2> QED BY <1>2, <1>5, <2>1, AsyncHeld
<1>7. Alone(p) /\ pc'[p] = "user" /\ call'[p] = call[p] /\ bp'[p] = NoBuf
  BY <1>1, <1>2, <1>3 DEF Types, Alone, Places
<1>8. Good(cache', p, pc'[p], call'[p], bp'[p], cpu', owed[p])
  BY <1>2, <1>5, <1>7 DEF Good, Wait
<1> HIDE DEF x, g
<1> QED BY <1>1, <1>2, <1>5, <1>6, <1>7, <1>8, StepOn

\* The same of bwrite, which waits for its transfer
LEMMA BwriteGood ==
  ASSUME IInv, NEW p \in Proc, NEW v \in Value, Bwrite(p, v)
  PROVE  IInv'
<1> DEFINE x == bp[p]
           c == Filled(p, v)
           own == [bp EXCEPT ![p] = NoBuf]
           g == (cache.flags[x] \cup {}) \ {"READ", "DONE", "ERROR", "DELWRI"}
<1>1. /\ Holds(p) /\ Write(p, v) /\ cache' = StartWrite(c, x)
      /\ bp' = [bp EXCEPT ![p] = bp[p]]
      /\ pc' = [pc EXCEPT ![p] = "bwrite"] /\ cpu' = p
      /\ UNCHANGED <<disk, call, owed>>
  BY DEF Bwrite, LetGo, Goto
<1>2. /\ cpu = NoProc /\ cache.wait[p] = NoWait /\ call[p].use = "none" /\ owed[p] = {}
      /\ x \in Buf /\ cache \in Cache /\ Types /\ x # NoBuf
      /\ NoWait \notin Buf \cup {NeedBuffer, NumOutput} /\ bp \in [Proc -> Buf \cup {NoBuf}]
  BY <1>1, HoldFacts, OfProc
<1>3. /\ c \in Cache /\ c.flags = cache.flags /\ c.hash = cache.hash
      /\ c.io = cache.io /\ c.needbuffer = cache.needbuffer /\ c.wait = cache.wait
      /\ SameLists(cache, c) /\ written' \in [Block -> Value]
  BY <1>1, FilledFacts
<1> HIDE DEF c
<1>4. c.flags = [cache.flags EXCEPT ![x] = cache.flags[x] \cup {}] /\ bp' = bp
  BY <1>1, <1>2, <1>3 DEF Cache
<1>5. /\ InHand(c, x, own)
      /\ cache' \in Cache /\ cache'.flags = [c.flags EXCEPT ![x] = g]
      /\ cache'.io = c.io \cup {x} /\ cache'.hash = c.hash /\ cache'.wait = cache.wait
      /\ SameLists(c, cache')
      /\ Touch(cache, cache', x, p) /\ Covers(cache, cache', x)
      /\ "BUSY" \in g /\ "VFLUSH" \notin g /\ g \cap {"DONE", "DELWRI"} = {}
      /\ "VFLUSH" \notin c.flags[x] /\ "ASYNC" \notin c.flags[x]
  <2>1. {} \in {{}, {"ASYNC"}}
    OBVIOUS
  <2>2. /\ InHand(c, x, own)
        /\ cache' \in Cache /\ cache'.flags = [c.flags EXCEPT ![x] = g]
        /\ cache'.io = c.io \cup {x} /\ cache'.hash = c.hash /\ cache'.wait = cache.wait
        /\ SameLists(c, cache')
        /\ Touch(cache, cache', x, p) /\ Covers(cache, cache', x)
        /\ "BUSY" \in g /\ "VFLUSH" \notin g /\ g \cap {"DONE", "DELWRI"} = {}
        /\ "ASYNC" \notin c.flags[x] \ {} /\ "VFLUSH" \notin c.flags[x]
    BY <1>1, <1>3, <1>4, <2>1, WriteFacts
  <2> QED BY <2>2
<1>6. Held(cache', bp')
  <2>1. g \cap {"ASYNC", "VFLUSH"} = {}
    BY <1>3, <1>5
  <2>2. own[p] = NoBuf /\ bp' = [own EXCEPT ![p] = x]
    BY <1>2, <1>4
  <2>3. "DELWRI" \in g => "DONE" \in g /\ "ERROR" \notin g
    BY <1>5
  <2> HIDE DEF g, own, x
  <2> QED BY <1>2, <1>5, <2>1, <2>2, <2>3, KeepHeld
<1>7. Alone(p) /\ pc'[p] = "bwrite" /\ call'[p] = call[p] /\ bp'[p] = x
  BY <1>1, <1>2, <1>3, <1>4 DEF Types, Alone, Places
<1>8. Good(cache', p, pc'[p], call'[p], bp'[p], cpu', owed[p])
  BY <1>2, <1>5, <1>7 DEF Good, Wait
<1> HIDE DEF x, g
<1> QED BY <1>1, <1>2, <1>5, <1>6, <1>7, <1>8, StepOn

\* The same of a buffer that stays on the lists.
LEMMA TakeListed ==
  ASSUME NEW c, NEW own, Held(c, own), NEW x \in Buf, "BUSY" \notin c.flags[x],
         NEW d \in Cache, NEW g, d.flags = [c.flags EXCEPT ![x] = g],
         {"BUSY", "VFLUSH"} \subseteq g, "DELWRI" \in g => "DONE" \in g /\ "ERROR" \notin g,
         c.hash[x] \in Block, d.hash = c.hash, d.io = c.io, SameLists(c, d)
  PROVE  InHand(d, x, own)
<1> DEFINE b == c.hash[x]
<1>1. /\ b \in Block /\ d.hash = [c.hash EXCEPT ![x] = b]
      /\ \A y \in Buf \ {x} : c.hash[y] # b
  BY NamesAssumption DEF Held, Common, Cache
<1>2. GoodLists(d, Free(c))
  BY DEF GoodLists, SameLists, Held, Common
<1>3. "BUSY" \in g /\ "VFLUSH" \in g
  OBVIOUS
<1> HIDE DEF b
<1> QED BY <1>1, <1>2, <1>3, TakeInHand

\* vflushbuf: it writes the next dirty buffer that nobody has,
LEMMA FlushNextGood ==
  ASSUME IInv, NEW p \in Proc, FlushNext(p)
  PROVE  IInv'
<1>0. /\ cache \in Cache /\ bp \in [Proc -> Buf \cup {NoBuf}] /\ Types
      /\ GoodLists(cache, Free(cache)) /\ Held(cache, bp)
      /\ NoWait \notin Buf \cup {NeedBuffer, NumOutput}
      /\ NoBlock \notin Block /\ NoBuf \notin Buf
      /\ Good(cache, p, pc[p], call[p], bp[p], cpu, owed[p])
  BY OfProc DEF IInv
<1>1. /\ cpu \in {p, NoProc} /\ cache.wait[p] = NoWait /\ pc[p] = "vflushbuf"
      /\ UNCHANGED <<disk, call, bp, owed, written>> /\ bp[p] = NoBuf
  BY <1>0 DEF FlushNext, Runs, Good
<1> DEFINE f == {"BUSY", "VFLUSH", "ASYNC"}
<1>2. CASE \E x \in Buf : /\ "DELWRI" \in cache.flags[x] /\ "BUSY" \notin cache.flags[x]
                          /\ cache' = StartWrite(Add(cache, x, f), x)
                          /\ Goto(p, "vflushbuf")
  <2>1. PICK x \in Buf : /\ "DELWRI" \in cache.flags[x] /\ "BUSY" \notin cache.flags[x]
                         /\ cache' = StartWrite(Add(cache, x, f), x)
                         /\ pc' = [pc EXCEPT ![p] = "vflushbuf"] /\ cpu' = p
    BY <1>2 DEF Goto
  <2> DEFINE c == Add(cache, x, f)
             h == cache.flags[x] \cup f
             g == h \ {"READ", "DONE", "ERROR", "DELWRI"}
  <2>2. /\ c \in Cache /\ c.flags = [cache.flags EXCEPT ![x] = h]
        /\ c.hash = cache.hash /\ c.io = cache.io
        /\ c.needbuffer = cache.needbuffer /\ c.wait = cache.wait /\ SameLists(cache, c)
    <3>1. f \in SUBSET Flag
      BY DEF Flag
    <3> QED BY <1>0, <3>1, AddFacts
  <2> HIDE DEF c
  <2>3. /\ Mark(cache, x) /\ x \notin cache.io /\ \A q \in Proc : bp[q] # x
    BY <1>0, <2>1 DEF Held, Common, Mark, Place
  <2>4. InHand(c, x, bp)
    <3>1. {"BUSY", "VFLUSH"} \subseteq h /\ cache.hash[x] \in Block
      BY <1>0, <2>1, <2>3 DEF Mark, Cache
    <3>2. "DELWRI" \in h => "DONE" \in h /\ "ERROR" \notin h
      BY <2>1, <2>3 DEF Mark
    <3> HIDE DEF h
    <3> QED BY <1>0, <2>1, <2>2, <3>1, <3>2, TakeListed
  <2>5. /\ cache' \in Cache
        /\ cache'.flags = [c.flags EXCEPT ![x] =
                             c.flags[x] \ {"READ", "DONE", "ERROR", "DELWRI"}]
        /\ cache'.io = c.io \cup {x} /\ cache'.hash = c.hash
        /\ cache'.needbuffer = c.needbuffer /\ cache'.wait = c.wait /\ SameLists(c, cache')
    BY <2>1, <2>2, StartWriteFacts DEF c
  <2>6. /\ c.flags[x] = h /\ cache'.flags = [c.flags EXCEPT ![x] = g] /\ cache'.flags[x] = g
        /\ \A y \in Buf \ {x} : cache'.flags[y] = cache.flags[y]
    BY <1>0, <2>2, <2>5 DEF Cache
  <2>7. Held(cache', bp)
    <3>1. /\ {"ASYNC", "BUSY"} \subseteq g /\ g \cap {"DONE", "DELWRI"} = {}
          /\ ("VFLUSH" \in g <=> "VFLUSH" \in c.flags[x])
      BY <2>6
    <3> HIDE DEF g
    <3> QED BY <2>4, <2>5, <2>6, <3>1, AsyncHeld
  <2>8. \A q \in Proc : cache.wait[q] # x /\ cache.wait[q] # NeedBuffer
    <3>1. x \in Free(cache)
      BY <2>1 DEF Free
    <3> QED BY <2>1, <3>1, FreeBuffer
  <2>9. Outputs(cache) \subseteq Outputs(cache')
    BY <1>0, <2>2, <2>3, <2>5, <2>6 DEF Outputs, Has, Cache
  <2>10. \A q \in Proc : cache.wait[q] = NumOutput => Outputs(cache) # {}
    BY DEF IInv, AllGood, Good, Wait
  <2>11. Touch(cache, cache', x, p)
    BY <2>2, <2>3, <2>5, <2>6, <2>8, <2>9, <2>10 DEF Touch
  <2>12. Covers(cache, cache', x)
    BY <2>2, <2>5, <2>6 DEF Covers
  <2>13. Alone(p) /\ pc'[p] = "vflushbuf" /\ call'[p] = call[p] /\ bp'[p] = bp[p]
    BY <1>0, <1>1, <2>1 DEF Types, Alone, Places
  <2>14. Good(cache', p, pc'[p], call'[p], bp'[p], cpu', owed[p])
    <3>1. \A y \in Buf : Covers(cache, cache', y)
      BY <2>11, <2>12 DEF Touch, Covers
    <3>2. owed[p] \subseteq Due(cache')
      BY <1>0, <2>5, <3>1, CoversDue DEF Good
    <3> QED BY <1>0, <1>1, <2>2, <2>5, <2>13, <3>2 DEF Good, Wait
  <2> QED BY <1>1, <2>7, <2>11, <2>12, <2>13, <2>14, StepOn
<1>3. CASE Goto(p, "vflushwait") /\ UNCHANGED cache
  <2>1. pc' = [pc EXCEPT ![p] = "vflushwait"] /\ cpu' = p /\ cache' = cache
    BY <1>3 DEF Goto
  <2>2. Alone(p) /\ pc'[p] = "vflushwait" /\ call'[p] = call[p]
    BY <1>0, <1>1, <2>1 DEF Types, Alone, Places
  <2>3. Good(cache, p, pc'[p], call'[p], bp[p], cpu', owed[p])
    BY <1>0, <1>1, <2>2 DEF Good, Wait
  <2> QED BY <1>1, <2>1, <2>2, <2>3, StepIdle
<1> QED BY <1>2, <1>3 DEF FlushNext, Dirty, Has

\* waits for the output in progress, begins again or returns,
LEMMA FlushWaitGood ==
  ASSUME IInv, NEW p \in Proc, FlushWait(p)
  PROVE  IInv'
<1>0. /\ cache \in Cache /\ bp \in [Proc -> Buf \cup {NoBuf}] /\ Types
      /\ NoWait \notin Buf \cup {NeedBuffer, NumOutput}
      /\ NeedBuffer # NumOutput /\ NumOutput \notin Buf
      /\ Good(cache, p, pc[p], call[p], bp[p], cpu, owed[p])
  BY OfProc
<1>1. /\ cpu \in {p, NoProc} /\ cache.wait[p] = NoWait /\ pc[p] = "vflushwait"
      /\ UNCHANGED <<disk, call, bp, owed, written>> /\ bp[p] = NoBuf
  BY <1>0 DEF FlushWait, Runs, Good
<1>2. CASE Outputs(cache) # {}
  <2>1. /\ cache' = Tsleep(cache, p, NumOutput)
        /\ pc' = [pc EXCEPT ![p] = "vflushwait"] /\ cpu' = NoProc
    BY <1>2 DEF FlushWait, Sleep, Leave
  <2>2. /\ cache' \in Cache /\ cache'.flags = cache.flags /\ cache'.hash = cache.hash
        /\ cache'.io = cache.io /\ cache'.needbuffer = cache.needbuffer
        /\ SameLists(cache, cache') /\ cache'.wait = [cache.wait EXCEPT ![p] = NumOutput]
    BY <1>0, <2>1, TsleepFacts
  <2>3. /\ cache'.wait[p] = NumOutput
        /\ \A q \in Proc \ {p} : cache'.wait[q] = cache.wait[q]
    BY <1>0, <2>2 DEF Cache
  <2>4. Alone(p) /\ pc'[p] = "vflushwait" /\ call'[p] = call[p]
    BY <1>0, <1>1, <2>1 DEF Types, Alone, Places
  <2>5. Outputs(cache') = Outputs(cache) /\ Due(cache') = Due(cache)
    BY <2>2 DEF Outputs, Due, Dirty, Has
  <2>6. Good(cache', p, pc'[p], call'[p], bp[p], cpu', owed[p])
    BY <1>0, <1>1, <1>2, <2>3, <2>4, <2>5 DEF Good, Wait
  <2> QED BY <1>1, <2>2, <2>3, <2>4, <2>6, StepSame
<1>3. CASE Outputs(cache) = {}
  <2>1. /\ cache' = cache
        /\ \/ pc' = [pc EXCEPT ![p] = "vflushbuf"] /\ cpu' = p
           \/ Dirty(cache) = {} /\ pc' = [pc EXCEPT ![p] = "user"] /\ cpu' = NoProc
    BY <1>3 DEF FlushWait, Goto, Leave
  <2>2. Dirty(cache) = {} => owed[p] = {}
    BY <1>0, <1>3 DEF Good, Due
  <2>3. /\ Alone(p) /\ call'[p] = call[p]
        /\ pc'[p] = "vflushbuf" \/ (pc'[p] = "user" /\ owed[p] = {})
    BY <1>0, <1>1, <2>1, <2>2 DEF Types, Alone, Places
  <2>4. Good(cache, p, pc'[p], call'[p], bp[p], cpu', owed[p])
    BY <1>0, <1>1, <2>3 DEF Good, Wait
  <2> QED BY <1>1, <2>1, <2>3, <2>4, StepIdle
<1> QED BY <1>2, <1>3

\* and at its call has to see all that is dirty or on its way.
LEMMA FlushGood ==
  ASSUME IInv, NEW p \in Proc, Flush(p)
  PROVE  IInv'
<1>0. /\ cache \in Cache /\ bp \in [Proc -> Buf \cup {NoBuf}] /\ Types
      /\ NoWait \notin Buf \cup {NeedBuffer, NumOutput}
      /\ Good(cache, p, pc[p], call[p], bp[p], cpu, owed[p])
  BY OfProc
<1>1. /\ cpu = NoProc /\ pc[p] = "user" /\ owed' = [owed EXCEPT ![p] = Due(cache)]
      /\ pc' = [pc EXCEPT ![p] = "vflushbuf"] /\ cpu' = p
      /\ UNCHANGED <<cache, disk, call, bp, written>>
  BY DEF Flush, Goto, Due
<1>2. Due(cache) \in SUBSET Block
  <2> SUFFICES ASSUME NEW y \in Dirty(cache) \cup Outputs(cache) PROVE cache.hash[y] \in Block
    BY DEF Due
  <2>1. y \in Buf /\ Mark(cache, y)
    BY <1>0 DEF IInv, Held, Common, Dirty, Outputs, Cache
  <2> QED BY <1>0, <2>1 DEF Mark, Dirty, Outputs, Has, Cache
<1>3. Types'
  BY <1>0, <1>1, <1>2 DEF Types, Places
<1>4. ASSUME NEW q \in Proc
      PROVE  Good(cache', q, pc'[q], call'[q], bp'[q], cpu', owed'[q])
  <2>1. Good(cache, q, pc[q], call[q], bp[q], cpu, owed[q]) /\ q # NoProc
    BY NamesAssumption DEF IInv, AllGood
  <2>2. CASE q = p
    <3>1. pc'[p] = "vflushbuf" /\ owed'[p] = Due(cache)
      BY <1>0, <1>1 DEF Types
    <3> QED BY <1>0, <1>1, <2>2, <3>1 DEF Good, Wait
  <2>3. CASE q # p
    <3>1. pc'[q] = pc[q] /\ owed'[q] = owed[q] /\ pc[q] # "getnewbuf"
      BY <1>0, <1>1, <2>1, <2>3 DEF Types, Good
    <3> QED BY <1>1, <2>1, <3>1 DEF Good
  <2> QED BY <2>2, <2>3
<1> QED BY <1>1, <1>3, <1>4 DEF IInv, AllGood

--------------------------------------------------------------------------------
\* What biodone leaves of the cache before it wakes or releases: the transfer of x
\* is over, and who waits for the output in progress is told of the last write.
Over(x, error, v) ==
    [Add(cache, x, {"DONE"} \cup error) EXCEPT !.io = @ \ {x}, !.data[x] = v]
Told(x, error, v) ==
    IF ~Has(cache, x, "READ") /\ Outputs(Over(x, error, v)) = {}
    THEN Wakeup(Over(x, error, v), NumOutput) ELSE Over(x, error, v)

\* What the rest of biodone finds: x is done, with the flags h.
ToldOf(t, x, h) ==
    /\ t \in Cache /\ t.flags = [cache.flags EXCEPT ![x] = h]
    /\ t.hash = cache.hash /\ t.io = cache.io \ {x}
    /\ t.needbuffer = cache.needbuffer /\ SameLists(cache, t)
    /\ \A q \in Proc : /\ t.wait[q] \in {cache.wait[q], NoWait}
                       /\ t.wait[q] = NumOutput => Outputs(t) # {}
                       /\ cache.wait[q] # NumOutput => t.wait[q] = cache.wait[q]

\* It is what it finds.
LEMMA ToldFacts ==
  ASSUME IInv, NEW x \in cache.io, NEW error \in SUBSET {"ERROR"}, NEW v \in Value
  PROVE  ToldOf(Told(x, error, v), x, cache.flags[x] \cup ({"DONE"} \cup error))
<1> DEFINE f == {"DONE"} \cup error
           h == cache.flags[x] \cup f
           over == Over(x, error, v)
           w == Wakeup(over, NumOutput)
           told == Told(x, error, v)
<1>0. /\ cache \in Cache /\ x \in Buf /\ NoWait # NumOutput
      /\ \A q \in Proc : cache.wait[q] = NumOutput => Outputs(cache) # {}
  BY NamesAssumption DEF IInv, Held, Common, Cache, AllGood, Good, Wait
<1>1. /\ over \in Cache /\ over.flags = [cache.flags EXCEPT ![x] = h]
      /\ over.hash = cache.hash /\ over.io = cache.io \ {x} /\ over.wait = cache.wait
      /\ over.needbuffer = cache.needbuffer /\ SameLists(cache, over)
  <2> DEFINE c == Add(cache, x, f)
  <2>1. f \in SUBSET Flag
    BY DEF Flag
  <2>2. /\ c \in Cache /\ c.flags = [cache.flags EXCEPT ![x] = h]
        /\ c.hash = cache.hash /\ c.io = cache.io /\ c.wait = cache.wait
        /\ c.needbuffer = cache.needbuffer /\ SameLists(cache, c)
    BY <1>0, <2>1, AddFacts
  <2> HIDE DEF c, f
  <2>3. over = [c EXCEPT !.io = @ \ {x}, !.data[x] = v]
    BY DEF c, f, Over
  <2> HIDE DEF over, h
  <2> QED BY <2>2, <2>3 DEF Cache, SameLists
<1>2. Outputs(over) = Outputs(cache) \ {x}
  BY <1>0, <1>1 DEF Outputs, Has, Cache
<1> HIDE DEF over
<1>3. /\ w \in Cache /\ w.flags = over.flags /\ w.hash = over.hash /\ w.io = over.io
      /\ w.needbuffer = over.needbuffer /\ SameLists(over, w)
      /\ \A q \in Proc : w.wait[q] = IF over.wait[q] = NumOutput THEN NoWait ELSE over.wait[q]
  BY <1>1, WakeupFacts
<1> HIDE DEF w
<1>4. CASE "READ" \notin cache.flags[x] /\ Outputs(over) = {}
  <2>1. told = w
    BY <1>4 DEF Told, Has, w, over
  <2>2. \A q \in Proc : w.wait[q] \in {cache.wait[q], NoWait} /\ w.wait[q] # NumOutput
    BY <1>0, <1>1, <1>3
  <2> HIDE DEF told
  <2>3. /\ told \in Cache /\ told.flags = [cache.flags EXCEPT ![x] = h]
        /\ told.hash = cache.hash /\ told.io = cache.io \ {x}
        /\ told.needbuffer = cache.needbuffer /\ SameLists(cache, told)
        /\ \A q \in Proc : /\ told.wait[q] \in {cache.wait[q], NoWait}
                           /\ told.wait[q] # NumOutput
                           /\ cache.wait[q] # NumOutput => told.wait[q] = cache.wait[q]
    BY <1>1, <1>3, <2>1, <2>2 DEF SameLists
  <2> QED BY <2>3 DEF told, ToldOf
<1>5. CASE ~("READ" \notin cache.flags[x] /\ Outputs(over) = {})
  <2>1. told = over
    BY <1>5 DEF Told, Has, w, over
  <2>2. Outputs(cache) # {} => Outputs(over) # {}
    <3>1. CASE "READ" \in cache.flags[x]
      BY <1>2, <3>1 DEF Outputs, Has
    <3>2. CASE Outputs(over) # {}
      BY <3>2
    <3> QED BY <1>5, <3>1, <3>2
  <2> HIDE DEF told
  <2>3. /\ told \in Cache /\ told.flags = [cache.flags EXCEPT ![x] = h]
        /\ told.hash = cache.hash /\ told.io = cache.io \ {x}
        /\ told.needbuffer = cache.needbuffer /\ SameLists(cache, told)
        /\ told.wait = cache.wait
        /\ \A q \in Proc : told.wait[q] = NumOutput => Outputs(told) # {}
    BY <1>0, <1>1, <2>1, <2>2
  <2> QED BY <2>3 DEF told, ToldOf
<1> QED BY <1>4, <1>5

\* biodone
LEMMA BiodoneGood ==
  ASSUME IInv, NEW x \in Buf, Biodone(x)
  PROVE  IInv'
<1> DEFINE b == cache.hash[x]
           reads == "READ" \in cache.flags[x]
<1>0. /\ cache \in Cache /\ bp \in [Proc -> Buf \cup {NoBuf}] /\ Types /\ AllGood
      /\ Held(cache, bp) /\ x \in cache.io /\ NoBlock \notin Block /\ NoProc \notin Proc
      /\ NoWait \notin Buf \cup {NeedBuffer, NumOutput}
      /\ NeedBuffer \notin Buf /\ NumOutput \notin Buf /\ NeedBuffer # NumOutput
  BY NamesAssumption DEF IInv, Held, Common, Biodone
<1>1. /\ b \in Block /\ "BUSY" \in cache.flags[x]
      /\ "DONE" \notin cache.flags[x] /\ "DELWRI" \notin cache.flags[x]
      /\ disk[b] \in Value /\ cache.data[x] \in Value
  BY <1>0 DEF Held, Common, Mark, Cache, Types
<1>2. PICK error \in IF IoErrors THEN {{}, {"ERROR"}} ELSE {{}} :
        LET old   == Has(cache, x, "READ")
            block == cache.hash[x]
            over  == [Add(cache, x, {"DONE"} \cup error) EXCEPT !.io = @ \ {x},
                        !.data[x] = IF old /\ error = {} THEN disk[block] ELSE @]
            told  == IF ~old /\ Outputs(over) = {} THEN Wakeup(over, NumOutput)
                     ELSE over
        IN  /\ cache' = IF Has(told, x, "ASYNC") THEN Brelse(told, x)
                        ELSE Wakeup(Clear(told, x, {"WANTED"}), x)
            /\ disk' = IF old \/ error # {} THEN disk
                       ELSE [disk EXCEPT ![block] = cache.data[x]]
            /\ owed' = IF old THEN owed ELSE [p \in Proc |-> owed[p] \ {block}]
  BY DEF Biodone, WakeOwner
<1> DEFINE v == IF reads /\ error = {} THEN disk[b] ELSE cache.data[x]
           h == cache.flags[x] \cup ({"DONE"} \cup error)
           told == Told(x, error, v)
<1>3. /\ cache' = IF Has(told, x, "ASYNC") THEN Brelse(told, x)
                  ELSE Wakeup(Clear(told, x, {"WANTED"}), x)
      /\ disk' = IF reads \/ error # {} THEN disk ELSE [disk EXCEPT ![b] = cache.data[x]]
      /\ owed' = IF reads THEN owed ELSE [p \in Proc |-> owed[p] \ {b}]
      /\ UNCHANGED <<pc, call, bp, cpu, written>>
  <2> DEFINE a == Add(cache, x, {"DONE"} \cup error)
             was == [a EXCEPT !.io = @ \ {x},
                              !.data[x] = IF reads /\ error = {} THEN disk[b] ELSE @]
  <2>1. a.data = cache.data
    BY <1>0 DEF Add, Cache
  <2>2. /\ cache' = LET t == IF ~reads /\ Outputs(was) = {} THEN Wakeup(was, NumOutput)
                              ELSE was
                    IN  IF Has(t, x, "ASYNC") THEN Brelse(t, x)
                        ELSE Wakeup(Clear(t, x, {"WANTED"}), x)
        /\ disk' = IF reads \/ error # {} THEN disk ELSE [disk EXCEPT ![b] = cache.data[x]]
        /\ owed' = IF reads THEN owed ELSE [p \in Proc |-> owed[p] \ {b}]
    BY <1>2, Zenon DEF Has
  <2>3. UNCHANGED <<pc, call, bp, cpu, written>>
    BY DEF Biodone, WakeOwner
  <2>4. Over(x, error, v) = was
    <3> HIDE DEF a, b, reads
    <3>1. Over(x, error, v) = [a EXCEPT !.io = @ \ {x}, !.data[x] = v]
      BY DEF a, Over
    <3> QED BY <2>1, <3>1
  <2> HIDE DEF was, a, b, v
  <2>5. told = IF ~reads /\ Outputs(was) = {} THEN Wakeup(was, NumOutput) ELSE was
    BY <2>4 DEF Told, Has
  <2> HIDE DEF told
  <2> QED BY <2>2, <2>3, <2>5
<1>4. /\ told \in Cache /\ told.flags = [cache.flags EXCEPT ![x] = h]
      /\ told.hash = cache.hash /\ told.io = cache.io \ {x}
      /\ told.needbuffer = cache.needbuffer /\ SameLists(cache, told)
      /\ \A q \in Proc : /\ told.wait[q] \in {cache.wait[q], NoWait}
                         /\ told.wait[q] = NumOutput => Outputs(told) # {}
                         /\ cache.wait[q] # NumOutput => told.wait[q] = cache.wait[q]
  <2>1. v \in Value /\ x \in cache.io /\ error \in SUBSET {"ERROR"}
    BY <1>0, <1>1, <1>2
  <2>2. ToldOf(told, x, h)
    <3> HIDE DEF v
    <3> QED BY <2>1, ToldFacts
  <2> HIDE DEF told, v, h
  <2> QED BY <2>2 DEF ToldOf
<1> HIDE DEF told, v
<1>5. /\ told.flags[x] = h /\ "BUSY" \in h /\ "DONE" \in h /\ "DELWRI" \notin h
      /\ \A g \in {"VFLUSH", "ASYNC", "WANTED"} : g \in h <=> g \in cache.flags[x]
      /\ \A y \in Buf \ {x} : told.flags[y] = cache.flags[y]
  BY <1>0, <1>1, <1>4 DEF Cache
<1> HIDE DEF h
<1>6. /\ Held(cache', bp) /\ Touch(cache, cache', x, NoProc)
      /\ cache' \in Cache /\ \A y \in Buf : cache'.hash[y] \in {cache.hash[y], NoBlock}
  <2>1. \A q \in Proc : Wait(cache, q, pc[q], bp[q])
    BY <1>0 DEF AllGood, Good
  <2>2. CASE "ASYNC" \in cache.flags[x]
    <3>1. cache' = Brelse(told, x)
      BY <1>3, <1>5, <2>2 DEF Has
    <3>2. InHand(told, x, bp)
      BY <1>0, <1>4, <1>5, <2>2, DoneInHand
    <3>3. Held(cache', bp)
      BY <3>1, <3>2, BrelseHeld
    <3>4. GoodLists(told, Free(told)) /\ (x \in Free(told) <=> "VFLUSH" \in told.flags[x])
      BY <3>2 DEF InHand, Common, Free
    <3>5. /\ cache' \in Cache
          /\ cache'.flags = [told.flags EXCEPT ![x] = Freed(told.flags[x])]
          /\ cache'.hash = [told.hash EXCEPT ![x] =
                IF "ERROR" \in told.flags[x] THEN NoBlock ELSE told.hash[x]]
          /\ cache'.io = told.io
          /\ \A q \in Proc : cache'.wait[q] = IF Woken(told, x, q) THEN NoWait ELSE told.wait[q]
      BY <1>4, <3>1, <3>4, BrelseFacts
    <3>6. /\ \A y \in Buf \ {x} : /\ cache'.flags[y] = cache.flags[y]
                                  /\ cache'.hash[y] = cache.hash[y]
                                  /\ y \in cache'.io <=> y \in cache.io
          /\ cache'.hash[x] \in {cache.hash[x], NoBlock}
      BY <1>0, <1>4, <1>5, <3>5 DEF Cache
    <3>7. Outputs(cache') = Outputs(told)
      BY <1>4, <1>5, <3>5, <3>6 DEF Outputs, Has, Cache
    <3>8. ASSUME NEW q \in Proc
          PROVE  /\ bp[q] # x
                 /\ cache'.wait[q] \in {cache.wait[q], NoWait}
                 /\ cache'.wait[q] # x /\ cache'.wait[q] # NeedBuffer
                 /\ cache'.wait[q] = NumOutput => Outputs(cache') # {}
      <4>1. bp[q] # x
        BY <3>2 DEF InHand
      <4>2. cache.wait[q] = x => "WANTED" \in told.flags[x] /\ told.wait[q] = x
        BY <1>0, <1>4, <1>5, <2>1, <4>1 DEF Wait
      <4>3. cache.wait[q] = NeedBuffer => told.needbuffer /\ told.wait[q] = NeedBuffer
        BY <1>0, <1>4, <2>1 DEF Wait
      <4> QED BY <1>0, <1>4, <3>5, <3>7, <4>1, <4>2, <4>3 DEF Woken
    <3>9. Touch(cache, cache', x, NoProc)
      BY <3>6, <3>8 DEF Touch
    <3> QED BY <3>3, <3>5, <3>6, <3>9
  <2>3. CASE "ASYNC" \notin cache.flags[x]
    <3> DEFINE c == Clear(told, x, {"WANTED"})
               g == h \ {"WANTED"}
    <3>1. cache' = Wakeup(c, x)
      BY <1>3, <1>5, <2>3 DEF Has
    <3>2. /\ c \in Cache /\ c.flags = [told.flags EXCEPT ![x] = told.flags[x] \ {"WANTED"}]
          /\ c.hash = told.hash /\ c.io = told.io
          /\ c.needbuffer = told.needbuffer /\ c.wait = told.wait /\ SameLists(told, c)
      BY <1>0, <1>4, ClearFacts
    <3> HIDE DEF c
    <3>3. /\ cache' \in Cache /\ cache'.flags = c.flags /\ cache'.hash = c.hash
          /\ cache'.io = c.io /\ cache'.needbuffer = c.needbuffer /\ SameLists(c, cache')
          /\ \A q \in Proc : cache'.wait[q] = IF c.wait[q] = x THEN NoWait ELSE c.wait[q]
      BY <3>1, <3>2, WakeupFacts
    <3>4. /\ cache'.flags = [cache.flags EXCEPT ![x] = g] /\ cache'.flags[x] = g
          /\ \A y \in Buf \ {x} : cache'.flags[y] = cache.flags[y]
      <4>1. cache'.flags = [told.flags EXCEPT ![x] = g]
        BY <1>5, <3>2, <3>3
      <4> HIDE DEF g
      <4> QED BY <1>0, <1>4, <4>1 DEF Cache
    <3>5. /\ "BUSY" \in g /\ "VFLUSH" \notin g /\ "ASYNC" \notin g /\ "DELWRI" \notin g
          /\ "DONE" \in g /\ "VFLUSH" \notin cache.flags[x]
      BY <1>0, <1>5, <2>3 DEF Held, Common, Place
    <3> HIDE DEF g
    <3>6. /\ cache'.hash = cache.hash /\ cache'.io = cache.io \ {x} /\ SameLists(cache, cache')
          /\ cache'.needbuffer = cache.needbuffer
      BY <1>4, <3>2, <3>3 DEF SameLists
    <3>7. Held(cache', bp)
      BY <1>0, <2>3, <3>3, <3>4, <3>5, <3>6, DoneHeld
    <3>8. Free(cache') = Free(cache)
      BY <1>1, <3>4, <3>5 DEF Free
    <3>9. Outputs(cache') = Outputs(told)
      BY <1>4, <1>5, <3>3, <3>4, <3>6 DEF Outputs, Has, Cache
    <3>10. ASSUME NEW q \in Proc
           PROVE  /\ cache'.wait[q] \in {cache.wait[q], NoWait} /\ cache'.wait[q] # x
                  /\ cache'.wait[q] = NeedBuffer => cache'.needbuffer /\ Free(cache') = {}
                  /\ cache'.wait[q] = NumOutput => Outputs(cache') # {}
                  /\ bp[q] = x => pc[q] # "hold"
      <4>1. bp[q] = x => pc[q] # "hold"
        BY <1>0 DEF AllGood, Good
      <4>2. cache'.wait[q] = NeedBuffer => cache'.needbuffer /\ Free(cache') = {}
        BY <1>0, <1>4, <2>1, <3>2, <3>3, <3>6, <3>8 DEF Wait
      <4> QED BY <1>0, <1>4, <3>2, <3>3, <3>9, <4>1, <4>2
    <3>11. Touch(cache, cache', x, NoProc)
      BY <3>4, <3>5, <3>6, <3>10 DEF Touch
    <3> QED BY <3>3, <3>6, <3>7, <3>11
  <2> QED BY <2>2, <2>3
<1>7. Types'
  BY <1>0, <1>1, <1>3 DEF Types
<1>8. ASSUME NEW q \in Proc PROVE owed'[q] \subseteq Due(cache') /\ owed'[q] \subseteq owed[q]
  <2>1. /\ owed[q] \subseteq Due(cache) /\ owed \in [Proc -> SUBSET Block]
        /\ owed'[q] = IF reads THEN owed[q] ELSE owed[q] \ {b}
    BY <1>0, <1>3 DEF AllGood, Good, Types
  <2> SUFFICES ASSUME NEW o \in owed'[q] PROVE o \in Due(cache')
    BY <2>1
  <2>2. PICK y \in Dirty(cache) \cup Outputs(cache) : cache.hash[y] = o
    BY <2>1 DEF Due
  <2>3. y \in Buf /\ y # x
    BY <1>0, <1>1, <2>1, <2>2 DEF Dirty, Outputs, Has, Cache
  <2>4. y \in Dirty(cache') \cup Outputs(cache') /\ cache'.hash[y] = o
    BY <1>6, <2>2, <2>3 DEF Touch, Dirty, Outputs, Has
  <2> QED BY <2>4 DEF Due
<1>9. ASSUME NEW q \in Proc
      PROVE  Good(cache', q, pc'[q], call'[q], bp'[q], cpu', owed'[q])
  <2>1. q \in Proc \ {NoProc} /\ Good(cache, q, pc[q], call[q], bp[q], cpu, owed[q])
    BY <1>0 DEF AllGood
  <2>2. /\ Wait(cache', q, pc[q], bp[q])
        /\ pc[q] = "hold" => bp[q] \notin cache'.io /\ "ERROR" \notin cache'.flags[bp[q]]
        /\ bp[q] # NoBuf /\ pc[q] # "hold" =>
              bp[q] \in cache'.io \/ "DONE" \in cache'.flags[bp[q]]
    BY <1>6, <2>1, TouchOthers
  <2>3. pc[q] = "getnewbuf" =>
           cpu = q /\ \A y \in Buf : cache'.hash[y] # call[q].block
    BY <1>0, <1>6, <2>1 DEF Good
  <2>4. pc[q] \notin {"vflushbuf", "vflushwait"} => owed'[q] = {}
    BY <1>8, <2>1 DEF Good
  <2> QED BY <1>3, <1>8, <2>1, <2>2, <2>3, <2>4 DEF Good
<1> QED BY <1>3, <1>6, <1>7, <1>9 DEF IInv, AllGood

--------------------------------------------------------------------------------
\* The AGE list that bufinit leaves.
LEMMA SeqsOfBuf ==
  ASSUME NEW s \in SetToSeqs(Buf)
  PROVE  s \in Seq(Buf) /\ IsInjective(s) /\ ToSet(s) = Buf
<1> DEFINE n == Cardinality(Buf)
<1>1. IsFiniteSet(Buf) /\ n \in Nat
  BY KindsAssumption, FS_CardinalityType
<1>2. /\ s \in [1 .. n -> Buf]
      /\ \A i, j \in 1 .. n : i # j => s[i] # s[j]
  BY DEF SetToSeqs
<1>3. Cardinality(1 .. n) = n
  <2>1. n >= 1 => n - 1 + 1 = n
    BY <1>1
  <2>2. 1 \in Int /\ n \in Int
    BY <1>1
  <2>3. Cardinality(1 .. n) = IF 1 > n THEN 0 ELSE n - 1 + 1
    BY <2>2, FS_Interval
  <2>4. 1 > n => n = 0
    BY <1>1
  <2>5. 1 > n \/ n >= 1
    BY <1>1
  <2> HIDE DEF n
  <2> QED BY <2>1, <2>3, <2>4, <2>5
<1> HIDE DEF n
<1>4. s \in Injection(1 .. n, Buf)
  BY <1>2 DEF Injection, IsInjective
<1>5. s \in Surjection(1 .. n, Buf)
  BY <1>1, <1>3, <1>4, FS_Injection DEF n
<1>6. s \in Seq(Buf) /\ DOMAIN s = 1 .. n
  BY <1>1, <1>2
<1>7. ToSet(s) = Buf
  BY <1>2, <1>5, <1>6 DEF ToSet, Surjection
<1> QED BY <1>2, <1>6, <1>7 DEF IsInjective

\* bufinit
LEMMA InitGood == Init => IInv
<1> SUFFICES ASSUME Init PROVE IInv
  OBVIOUS
<1>1. PICK v \in Value, s \in SetToSeqs(Buf) :
        /\ cache = [flags |-> [x \in Buf |-> {}],
                    hash  |-> [x \in Buf |-> NoBlock],
                    data  |-> [x \in Buf |-> v],
                    lru |-> <<>>, age |-> s, io |-> {},
                    needbuffer |-> FALSE, wait |-> [p \in Proc |-> NoWait]]
        /\ disk = [b \in Block |-> v]
        /\ written = disk
  BY DEF Init
<1>2. /\ pc = [p \in Proc |-> "user"] /\ call = [p \in Proc |-> NoCall]
      /\ bp = [p \in Proc |-> NoBuf] /\ cpu = NoProc /\ owed = [p \in Proc |-> {}]
  BY DEF Init
<1>3. s \in Seq(Buf) /\ IsInjective(s) /\ ToSet(s) = Buf
  BY SeqsOfBuf
<1>4. /\ cache \in Cache /\ cache.io = {} /\ cache.lru = <<>> /\ cache.age = s
      /\ \A y \in Buf : cache.flags[y] = {} /\ cache.hash[y] = NoBlock
      /\ \A p \in Proc : cache.wait[p] = NoWait
  BY <1>1, <1>3 DEF Cache
<1>5. GoodLists(cache, Free(cache))
  <2>1. Free(cache) = Buf
    BY <1>4 DEF Free
  <2>2. <<>> \in Seq(Buf) /\ IsInjective(<<>>) /\ ToSet(<<>>) = {}
    BY DEF IsInjective, ToSet
  <2> QED BY <1>3, <1>4, <2>1, <2>2 DEF GoodLists
<1>6. Held(cache, bp)
  <2>1. \A p \in Proc : bp[p] = NoBuf
    BY <1>2
  <2>2. \A y \in Buf : Mark(cache, y) /\ Place(cache, bp, y)
    BY <1>4, <2>1, NamesAssumption DEF Mark, Place
  <2>3. bp \in [Proc -> Buf \cup {NoBuf}]
    BY <1>2
  <2> QED BY <1>4, <1>5, <2>1, <2>2, <2>3 DEF Held, Common
<1>7. Types
  BY <1>1, <1>2 DEF Types, Places, Calls, NoCall
<1>8. ASSUME NEW q \in Proc PROVE Good(cache, q, pc[q], call[q], bp[q], cpu, owed[q])
  <2>1. pc[q] = "user" /\ call[q].use = "none" /\ bp[q] = NoBuf /\ owed[q] = {}
    BY <1>2 DEF NoCall
  <2>2. NoWait \notin Buf /\ NoWait # NeedBuffer /\ NoWait # NumOutput
    BY NamesAssumption
  <2> QED BY <1>4, <2>1, <2>2 DEF Good, Wait
<1> QED BY <1>6, <1>7, <1>8 DEF IInv, AllGood

\* Every step keeps the invariant.
LEMMA NextGood == IInv /\ [Next]_vars => IInv'
<1> SUFFICES ASSUME IInv, [Next]_vars PROVE IInv'
  OBVIOUS
<1>1. ASSUME NEW p \in Proc, NewCall(p) PROVE IInv'
  <2>1. ASSUME NEW b \in Block, NEW n \in Block \cup {NoBlock}, Bread(p, b, n)
        PROVE  IInv'
    BY <2>1, BreadGood
  <2>2. ASSUME NEW b \in Block, BeginWrite(p, b) PROVE IInv'
    BY <2>2, BreadGood
  <2>3. CASE Flush(p)
    BY <2>3, FlushGood
  <2> QED BY <1>1, <2>1, <2>2, <2>3 DEF NewCall
<1>2. ASSUME NEW p \in Proc, Run(p) PROVE IInv'
  BY <1>2, GetblkGood, GetnewbufGood, BreadnGood, BiowaitGood, FlushNextGood,
     FlushWaitGood DEF Run
<1>3. ASSUME NEW p \in Proc, Finish(p) PROVE IInv'
  BY <1>3, ReleaseGood, BdwriteGood, BawriteGood, BwriteGood DEF Finish
<1>4. ASSUME NEW x \in Buf, Biodone(x) PROVE IInv'
  BY <1>4, BiodoneGood
<1>5. CASE UNCHANGED vars
  BY <1>5 DEF vars, IInv, Types, Held, Common, Mark, Place, Free, GoodLists, AllGood, Good,
              Wait, Due, Dirty, Outputs, Has
<1> QED BY <1>1, <1>2, <1>3, <1>4, <1>5 DEF Next

--------------------------------------------------------------------------------
\* The invariant says what the properties of BufferCache say.
LEMMA Meaning == IInv => TypeOK /\ OnePlace /\ OneBuffer /\ NoMissedWakeup /\ FlushedAll
<1> SUFFICES ASSUME IInv
             PROVE  TypeOK /\ OnePlace /\ OneBuffer /\ NoMissedWakeup /\ FlushedAll
  OBVIOUS
<1>0. /\ Types /\ Common(cache, bp) /\ \A y \in Buf : Mark(cache, y) /\ Place(cache, bp, y)
      /\ cache \in Cache /\ bp \in [Proc -> Buf \cup {NoBuf}] /\ NoBuf \notin Buf
      /\ GoodLists(cache, Free(cache))
      /\ \A p \in Proc : Good(cache, p, pc[p], call[p], bp[p], cpu, owed[p])
  BY NamesAssumption DEF IInv, Held, Common, AllGood
<1>1. TypeOK
  BY <1>0 DEF TypeOK, Types, Places, Calls, Good
<1>2. OnePlace
  <2>1. FreeLists
    <3>1. Listed = Free(cache)
      BY DEF Listed, Free, Has
    <3> QED BY <1>0, <3>1 DEF GoodLists, FreeLists
  <2>2. Driven
    BY <1>0 DEF Driven, Mark, Valid, Has, Cache
  <2>3. Owned
    <3>1. \A x \in Buf : x \in Async <=> x \in cache.io /\ "ASYNC" \in cache.flags[x]
      BY DEF Async, Has
    <3>2. \A p \in Proc : bp[p] \notin Async
      BY <1>0 DEF Common, Async, Has
    <3>3. \A p, q \in Proc : bp[p] = bp[q] /\ p # q => bp[p] = NoBuf
      BY <1>0 DEF Common
    <3>4. \A x \in Buf : /\ Has(cache, x, "BUSY") <=> x \in Async \/ \E p \in Proc : bp[p] = x
                         /\ Has(cache, x, "VFLUSH") => x \in Async
      BY <1>0, <3>1 DEF Place, Has
    <3>5. \A p \in Proc : pc[p] = "hold" => bp[p] \notin cache.io
      BY <1>0 DEF Good
    <3> QED BY <3>2, <3>3, <3>4, <3>5 DEF Owned
  <2> QED BY <2>1, <2>2, <2>3 DEF OnePlace
<1>3. OneBuffer
  BY <1>0 DEF Common, OneBuffer
<1>4. NoMissedWakeup
  <2>1. FreeList(cache) = <<>> <=> Free(cache) = {}
    BY <1>0, NoneFree
  <2> QED BY <1>0, <2>1 DEF NoMissedWakeup, Good, Wait
<1>5. FlushedAll
  BY <1>0 DEF FlushedAll, Good
<1> QED BY <1>1, <1>2, <1>3, <1>4, <1>5

\* In every state of every run, with any number of processes, buffers and blocks,
\* each buffer is in its place and each process is where it should be.
THEOREM Invariance == Spec => []IInv
<1>1. Init => IInv
  BY InitGood
<1>2. IInv /\ [Next]_vars => IInv'
  BY NextGood
<1> QED BY <1>1, <1>2, PTL DEF Spec

\* The fields keep their types, and a process has a buffer and a call exactly at the
\* places where it should (TypeOK).
THEOREM TypeCorrect == Spec => []TypeOK
<1>1. IInv => TypeOK
  BY Meaning
<1> QED BY <1>1, Invariance, PTL

\* A buffer is free and on one list, or with one process, or with the driver, however
\* getblk, brelse, vflushbuf and biodone interleave (OnePlace).
THEOREM EveryBufferInOnePlace == Spec => []OnePlace
<1>1. IInv => OnePlace
  BY Meaning
<1> QED BY <1>1, Invariance, PTL

\* getblk never makes a second buffer for a block (OneBuffer): other processes may enter
\* the block into the cache only while it sleeps, and then it searches again.
THEOREM OneBufferPerBlock == Spec => []OneBuffer
<1>1. IInv => OneBuffer
  BY Meaning
<1> QED BY <1>1, Invariance, PTL

\* Nobody sleeps for a buffer, a transfer, a free buffer or the end of output that has
\* come already (NoMissedWakeup).
THEOREM WakeupsNotMissed == Spec => []NoMissedWakeup
<1>1. IInv => NoMissedWakeup
  BY Meaning
<1> QED BY <1>1, Invariance, PTL

\* When vflushbuf returns, all that had been written to the vnode before its call is on
\* the disk, or its transfer has failed (FlushedAll).
THEOREM FlushesAll == Spec => []FlushedAll
<1>1. IInv => FlushedAll
  BY Meaning
<1> QED BY <1>1, Invariance, PTL
================================================================================
