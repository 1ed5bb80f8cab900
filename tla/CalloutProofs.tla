----------------------------- MODULE CalloutProofs -----------------------------
(***************************************************************************)
(* The callout queue implements the promise of timeout.9, for all          *)
(* functions, all delays, every size of the table and any lateness of      *)
(* softclock.                                                              *)
(*                                                                         *)
(* The bag that Timeouts speaks of is made of the entries of the list.  So *)
(* the lemmas of the first part are about the bag of the elements of a     *)
(* list, those of the second about the differences in the list: what an    *)
(* insertion, a removal and a tick make of the sums of them.               *)
(***************************************************************************)
EXTENDS Callout, Recursion, FiniteSetTheorems, TLAPS

--------------------------------------------------------------------------------
\* Lists and bags

\* How many of the first n elements of s are e, and the bag of them
Copies(s, n, e) == Cardinality({i \in 1 .. n : s[i] = e})
BagOf(s, n) == [e \in {s[i] : i \in 1 .. n} |-> Copies(s, n, e)]

\* t is s, of n elements, with one more at p.
Inserted(s, n, t, p) ==
    /\ \A k \in 1 .. p-1 : t[k] = s[k]
    /\ \A k \in p .. n : t[k+1] = s[k]

\* An element is in the list if there is a copy of it.
LEMMA CopiesType ==
  ASSUME NEW s, NEW n \in Nat, NEW e
  PROVE  /\ Copies(s, n, e) \in Nat
         /\ Copies(s, n, e) > 0 <=> \E i \in 1 .. n : s[i] = e
<1> DEFINE A == {i \in 1 .. n : s[i] = e}
<1>1. IsFiniteSet(A)
  <2>1. IsFiniteSet(1 .. n)
    BY FS_Interval
  <2> QED BY <2>1, FS_Subset
<1>2. Cardinality(A) \in Nat /\ (Cardinality(A) = 0 <=> A = {})
  BY <1>1, FS_CardinalityType, FS_EmptySet
<1> QED BY <1>2 DEF Copies

\* An insertion adds one copy.
LEMMA CopiesInserted ==
  ASSUME NEW s, NEW n \in Nat, NEW t, NEW p \in 1 .. n+1, Inserted(s, n, t, p), NEW e
  PROVE  Copies(t, n+1, e) = Copies(s, n, e) + IF e = t[p] THEN 1 ELSE 0
<1> DEFINE A == {i \in 1 .. n : s[i] = e}
           B == {i \in 1 .. n+1 : t[i] = e}
           f == [i \in A |-> IF i < p THEN i ELSE i+1]
<1>1. f \in Bijection(A, B \ {p})
  <2>1. ASSUME NEW i \in A PROVE f[i] \in B \ {p}
    <3>1. CASE i < p
      <4>1. i \in 1 .. p-1 /\ i \in 1 .. n+1 /\ i # p
        BY <3>1
      <4> QED BY <3>1, <4>1 DEF Inserted
    <3>2. CASE ~(i < p)
      <4>1. i \in p .. n /\ i+1 \in 1 .. n+1 /\ i+1 # p
        BY <3>2
      <4> QED BY <3>2, <4>1 DEF Inserted
    <3> QED BY <3>1, <3>2
  <2>2. ASSUME NEW i \in A, NEW j \in A, f[i] = f[j] PROVE i = j
    BY <2>2
  <2>3. ASSUME NEW k \in B \ {p} PROVE \E i \in A : f[i] = k
    <3>1. CASE k < p
      <4>1. k \in 1 .. p-1 /\ k \in 1 .. n
        BY <3>1
      <4>2. k \in A
        BY <4>1 DEF Inserted
      <4> QED BY <3>1, <4>2
    <3>2. CASE k > p
      <4>1. k-1 \in p .. n /\ k-1 \in 1 .. n /\ ~(k-1 < p) /\ (k-1)+1 = k
        BY <3>2
      <4>2. k-1 \in A
        BY <4>1 DEF Inserted
      <4> QED BY <4>1, <4>2
    <3> QED BY <3>1, <3>2
  <2>4. f \in [A -> B \ {p}]
    BY <2>1
  <2> HIDE DEF f, A, B
  <2> QED BY <2>2, <2>3, <2>4 DEF Bijection, Injection, Surjection, IsInjective
<1>2. IsFiniteSet(A) /\ IsFiniteSet(B)
  <2>1. IsFiniteSet(1 .. n) /\ IsFiniteSet(1 .. n+1)
    BY FS_Interval
  <2> QED BY <2>1, FS_Subset
<1>3. Cardinality(A) = Cardinality(B \ {p})
  <2>1. ExistsBijection(A, B \ {p})
    BY <1>1 DEF ExistsBijection
  <2> HIDE DEF A, B
  <2> QED BY <1>2, <2>1, FS_Bijection
<1>4. Cardinality(B \ {p}) = IF p \in B THEN Cardinality(B) - 1 ELSE Cardinality(B)
  BY <1>2, FS_RemoveElement
<1>5. p \in B <=> e = t[p]
  OBVIOUS
<1>6. Cardinality(A) \in Nat /\ Cardinality(B) \in Nat
  BY <1>2, FS_CardinalityType
<1> HIDE DEF A, B
<1> QED BY <1>3, <1>4, <1>5, <1>6 DEF Copies, A, B

\* A bag with one more x, and with one less
Plus(B, x)  == Promise!(+)(B, Promise!SetToBag({x}))
Minus(B, x) == Promise!(-)(B, Promise!SetToBag({x}))

\* The bag of a longer list is that of the shorter one with the new element, and the other
\* way round.
LEMMA BagInserted ==
  ASSUME NEW s, NEW n \in Nat, NEW t, NEW p \in 1 .. n+1, Inserted(s, n, t, p)
  PROVE  /\ BagOf(t, n+1) = Plus(BagOf(s, n), t[p])
         /\ BagOf(s, n) = Minus(BagOf(t, n+1), t[p])
<1> DEFINE S == {s[i] : i \in 1 .. n}
           T == {t[i] : i \in 1 .. n+1}
           x == t[p]
           cs(e) == Copies(s, n, e)
           ct(e) == Copies(t, n+1, e)
<1>1. \A e : /\ cs(e) \in Nat /\ (cs(e) > 0 <=> e \in S)
             /\ ct(e) \in Nat /\ (ct(e) > 0 <=> e \in T)
             /\ ct(e) = cs(e) + IF e = x THEN 1 ELSE 0
  BY CopiesType, CopiesInserted
<1>2. BagOf(s, n) = [e \in S |-> cs(e)] /\ BagOf(t, n+1) = [e \in T |-> ct(e)]
  BY DEF BagOf
<1> HIDE DEF S, T, x, cs, ct
<1>3. x \in T /\ T = S \cup {x}
  BY <1>1
<1>4. [e \in T |-> ct(e)] = Promise!(+)([e \in S |-> cs(e)], Promise!SetToBag({x}))
  BY <1>1, <1>3 DEF Promise!(+), Promise!SetToBag
<1>5. [e \in S |-> cs(e)] = Promise!(-)([e \in T |-> ct(e)], Promise!SetToBag({x}))
  <2> DEFINE B == [e \in T |-> IF e \in {x} THEN ct(e) - 1 ELSE ct(e)]
  <2>1. Promise!(-)([e \in T |-> ct(e)], Promise!SetToBag({x})) =
          [e \in {d \in DOMAIN B : B[d] > 0} |-> B[e]]
    BY DEF Promise!(-), Promise!SetToBag
  <2>2. \A e \in T : B[e] = cs(e)
    BY <1>1
  <2>3. DOMAIN B = T
    OBVIOUS
  <2> HIDE DEF B
  <2>4. {d \in DOMAIN B : B[d] > 0} = S
    BY <1>1, <1>3, <2>2, <2>3
  <2> QED BY <1>3, <2>1, <2>2, <2>4
<1> QED BY <1>2, <1>4, <1>5 DEF x, Plus, Minus

--------------------------------------------------------------------------------
\* Lists of differences.  t has the times of n callouts, and a the sums of them.

\* What a callout with the time x adds to the ticks of those behind it
D(x) == IF x > 0 THEN x ELSE 0

Sums(a, t, n) ==
    /\ a \in [0 .. n -> Nat] /\ t \in [1 .. n -> Int]
    /\ a[0] = 0 /\ \A k \in 1 .. n : a[k] = a[k-1] + D(t[k])

\* What TypeOK says of the order of the times
Formed(t, n) ==
    \A i, j \in 1 .. n : i < j => (t[i] > 0 => t[j] >= 0) /\ (t[j] < 0 => t[i] <= t[j])

\* The ticks that callout i has left
Remains(a, t, i) == IF a[i] > 0 THEN a[i] ELSE t[i]

\* The sums do not decrease, and a callout has no time of its own while they are 0.
LEMMA SumsGrow ==
  ASSUME NEW n \in Nat, NEW a, NEW t, Sums(a, t, n), NEW i \in 0 .. n, NEW j \in i .. n
  PROVE  a[i] <= a[j] /\ (j > i => t[j] <= a[j])
<1> DEFINE T == {k \in 0 .. n : k >= i => a[i] <= a[k]}
<1>1. 0 \in T
  BY DEF Sums
<1>2. ASSUME NEW k \in 1 .. n, k-1 \in T PROVE k \in T
  <2>1. /\ a[k] = a[k-1] + D(t[k]) /\ a[k] \in Nat /\ a[k-1] \in Nat /\ D(t[k]) \in Nat
        /\ a[i] \in Nat
    BY DEF Sums, D
  <2>2. CASE k-1 >= i
    BY <1>2, <2>1, <2>2
  <2>3. CASE k = i
    BY <2>1, <2>3
  <2>4. CASE k < i
    BY <2>4
  <2> QED BY <2>2, <2>3, <2>4
<1>3. j \in T
  <2> HIDE DEF T
  <2>1. 0 .. n \subseteq T
    BY <1>1, <1>2, UpTo
  <2> QED BY <2>1
<1>4. j > i => t[j] <= a[j]
  <2> SUFFICES ASSUME j > i PROVE t[j] <= a[j]
    OBVIOUS
  <2>1. j \in 1 .. n /\ j-1 \in 0 .. n
    OBVIOUS
  <2>2. a[j] = a[j-1] + D(t[j]) /\ a[j-1] \in Nat /\ t[j] \in Int
    BY <2>1 DEF Sums
  <2> QED BY <2>2 DEF D
<1> QED BY <1>3, <1>4

\* The list is in the order of the deadlines.
LEMMA InOrder ==
  ASSUME NEW n \in Nat, NEW a, NEW t, Sums(a, t, n), Formed(t, n),
         NEW i \in 1 .. n, NEW j \in i .. n
  PROVE  Remains(a, t, i) <= Remains(a, t, j)
<1>1. a[i] \in Nat /\ a[j] \in Nat /\ t[i] \in Int /\ t[j] \in Int
  BY DEF Sums
<1>2. a[i] <= a[j] /\ t[i] <= a[i] /\ t[j] <= a[j]
  <2>1. 0 \in 0 .. n /\ i \in 0 .. n /\ i \in 0 .. n /\ j \in 0 .. n /\ i > 0 /\ j > 0
    OBVIOUS
  <2> QED BY <2>1, SumsGrow
<1>3. i < j => (t[j] < 0 => t[i] <= t[j])
  BY DEF Formed
<1> QED BY <1>1, <1>2, <1>3 DEF Remains

\* timeout: a new callout at p, whose time is taken off that of the next
LEMMA InsertTimes ==
  ASSUME NEW n \in Nat, NEW a, NEW t, Sums(a, t, n), Formed(t, n),
         NEW b, NEW u, Sums(b, u, n+1), NEW p \in 1 .. n+1, NEW r \in Int, r > 0,
         u[p] = r, p <= n => r <= t[p] /\ u[p+1] = t[p] - r,
         \A k \in 1 .. p-1 : u[k] = t[k], \A k \in p+1 .. n : u[k+1] = t[k]
  PROVE  /\ Formed(u, n+1)
         /\ \A k \in 1 .. p-1 : Remains(b, u, k) = Remains(a, t, k)
         /\ Remains(b, u, p) = a[p-1] + r
         /\ \A k \in p .. n : Remains(b, u, k+1) = Remains(a, t, k)
<1> DEFINE Q == {k \in 0 .. p-1 : b[k] = a[k]}
<1>1. \A k \in 0 .. p-1 : b[k] = a[k]
  <2>1. 0 \in Q
    BY DEF Sums
  <2>2. ASSUME NEW k \in 1 .. p-1, k-1 \in Q PROVE k \in Q
    <3>1. k \in 1 .. n /\ k \in 1 .. n+1
      OBVIOUS
    <3> QED BY <2>2, <3>1 DEF Sums
  <2>3. p-1 \in Nat
    OBVIOUS
  <2> HIDE DEF Q
  <2>4. 0 .. p-1 \subseteq Q
    BY <2>1, <2>2, <2>3, UpTo
  <2> QED BY <2>4 DEF Q
<1>2. b[p] = a[p-1] + r /\ a[p-1] \in Nat
  <2>1. b[p] = b[p-1] + D(u[p]) /\ p-1 \in 0 .. p-1 /\ a[p-1] \in Nat
    BY DEF Sums
  <2> QED BY <1>1, <2>1 DEF D
<1> DEFINE R == {k \in 0 .. n : k >= p => b[k+1] = a[k]}
<1>3. \A k \in p .. n : b[k+1] = a[k]
  <2>1. 0 \in R
    OBVIOUS
  <2>2. ASSUME NEW k \in 1 .. n, k-1 \in R PROVE k \in R
    <3>1. a[k] = a[k-1] + D(t[k]) /\ k+1 \in 1 .. n+1 /\ a[k-1] \in Nat /\ t[k] \in Int
      <4>1. k-1 \in 0 .. n /\ k+1 \in 1 .. n+1
        OBVIOUS
      <4> QED BY <4>1 DEF Sums
    <3>2. b[k+1] = b[k] + D(u[k+1])
      <4>1. b[k+1] = b[(k+1)-1] + D(u[k+1])
        BY <3>1 DEF Sums
      <4>2. (k+1)-1 = k
        OBVIOUS
      <4> QED BY <4>1, <4>2
    <3>3. CASE k < p
      BY <3>3
    <3>4. CASE k = p
      <4>1. u[k+1] = t[k] - r /\ r <= t[k] /\ b[k] = a[k-1] + r
        BY <1>2, <3>4
      <4>2. b[k+1] = a[k]
        BY <3>1, <3>2, <4>1 DEF D
      <4> QED BY <4>2
    <3>5. CASE k > p
      <4>1. u[k+1] = t[k] /\ b[k] = a[k-1]
        <5>1. k \in p+1 .. n /\ k-1 >= p /\ (k-1)+1 = k
          BY <3>5
        <5> QED BY <2>2, <5>1
      <4> QED BY <3>1, <3>2, <4>1
    <3> QED BY <3>3, <3>4, <3>5
  <2> HIDE DEF R
  <2>3. 0 .. n \subseteq R
    BY <2>1, <2>2, UpTo
  <2> QED BY <2>3 DEF R
<1>4. \A k \in 1 .. p-1 : Remains(b, u, k) = Remains(a, t, k)
  BY <1>1 DEF Remains
<1>5. Remains(b, u, p) = a[p-1] + r
  BY <1>2 DEF Remains
<1>6. ASSUME NEW k \in p .. n PROVE Remains(b, u, k+1) = Remains(a, t, k) /\ u[k+1] >= 0
  <2>1. t[p] > 0 /\ p \in 1 .. n /\ t[k] \in Int /\ t[p] \in Int /\ a[k] \in Nat
        /\ k \in 1 .. n
    <3>1. p \in 1 .. n /\ k \in 1 .. n /\ k \in 0 .. n
      OBVIOUS
    <3>2. t[k] \in Int /\ t[p] \in Int /\ a[k] \in Nat
      BY <3>1 DEF Sums
    <3> QED BY <3>1, <3>2
  <2>2. a[k] > 0
    <3>1. 0 \in 0 .. n /\ p \in 0 .. n /\ k \in 0 .. n /\ p > 0
      BY <2>1
    <3>2. t[p] <= a[p] /\ a[p] <= a[k] /\ a[p] \in Nat
      BY <2>1, <3>1, SumsGrow DEF Sums
    <3> QED BY <2>1, <3>2
  <2>3. u[k+1] >= 0
    <3>1. CASE k = p
      BY <2>1, <3>1
    <3>2. CASE k > p
      <4>1. k \in p+1 .. n /\ t[k] >= 0
        BY <2>1, <3>2 DEF Formed
      <4> QED BY <4>1
    <3> QED BY <3>1, <3>2
  <2> QED BY <1>3, <2>2, <2>3 DEF Remains
<1>7. Formed(u, n+1)
  <2> SUFFICES ASSUME NEW i \in 1 .. n+1, NEW j \in 1 .. n+1, i < j
               PROVE  (u[i] > 0 => u[j] >= 0) /\ (u[j] < 0 => u[i] <= u[j])
    BY DEF Formed
  <2>1. CASE j < p
    <3>1. u[i] = t[i] /\ u[j] = t[j] /\ i \in 1 .. n /\ j \in 1 .. n
      BY <2>1
    <3> QED BY <3>1 DEF Formed
  <2>2. CASE j >= p
    <3>1. u[j] >= 0
      <4>1. CASE j = p
        BY <4>1
      <4>2. CASE j > p
        <5>1. j-1 \in p .. n /\ (j-1)+1 = j
          BY <4>2
        <5> QED BY <1>6, <5>1
      <4> QED BY <2>2, <4>1, <4>2
    <3>2. u[j] \in Int
      BY DEF Sums
    <3> QED BY <3>1, <3>2
  <2> QED BY <2>1, <2>2
<1> QED BY <1>4, <1>5, <1>6, <1>7

\* untimeout: the callout at p goes, and its time to the next one.
LEMMA DeleteTimes ==
  ASSUME NEW n \in Nat, NEW a, NEW t, Sums(a, t, n+1), Formed(t, n+1),
         NEW b, NEW u, Sums(b, u, n), NEW p \in 1 .. n+1,
         p <= n => u[p] = t[p+1] + D(t[p]),
         \A k \in 1 .. p-1 : u[k] = t[k], \A k \in p+1 .. n : u[k] = t[k+1]
  PROVE  /\ Formed(u, n)
         /\ \A k \in 1 .. p-1 : Remains(b, u, k) = Remains(a, t, k)
         /\ \A k \in p .. n : Remains(b, u, k) = Remains(a, t, k+1)
<1> DEFINE Q == {k \in 0 .. p-1 : b[k] = a[k]}
<1>1. \A k \in 0 .. p-1 : b[k] = a[k]
  <2>1. 0 \in Q
    BY DEF Sums
  <2>2. ASSUME NEW k \in 1 .. p-1, k-1 \in Q PROVE k \in Q
    <3>1. k \in 1 .. n /\ k \in 1 .. n+1
      OBVIOUS
    <3> QED BY <2>2, <3>1 DEF Sums
  <2>3. p-1 \in Nat
    OBVIOUS
  <2> HIDE DEF Q
  <2>4. 0 .. p-1 \subseteq Q
    BY <2>1, <2>2, <2>3, UpTo
  <2> QED BY <2>4 DEF Q
<1>2. \A k \in 1 .. n+1 : t[k] \in Int /\ a[k] \in Nat /\ a[k-1] \in Nat
      /\ a[k] = a[k-1] + D(t[k])
  <2> SUFFICES ASSUME NEW k \in 1 .. n+1
               PROVE  t[k] \in Int /\ a[k] \in Nat /\ a[k-1] \in Nat
                      /\ a[k] = a[k-1] + D(t[k])
    OBVIOUS
  <2>1. k \in 0 .. n+1 /\ k-1 \in 0 .. n+1
    OBVIOUS
  <2> QED BY <2>1 DEF Sums
<1>3. p <= n /\ t[p] > 0 => t[p+1] >= 0
  BY DEF Formed
<1> DEFINE R == {k \in 0 .. n : k >= p => b[k] = a[k+1]}
<1>4. \A k \in p .. n : b[k] = a[k+1]
  <2>1. 0 \in R
    OBVIOUS
  <2>2. ASSUME NEW k \in 1 .. n, k-1 \in R PROVE k \in R
    <3>1. b[k] = b[k-1] + D(u[k])
      BY DEF Sums
    <3>2. a[k+1] = a[k] + D(t[k+1]) /\ a[k] = a[k-1] + D(t[k]) /\ a[k-1] \in Nat
          /\ t[k+1] \in Int /\ t[k] \in Int
      <4>1. k+1 \in 1 .. n+1 /\ k \in 1 .. n+1 /\ (k+1)-1 = k
        OBVIOUS
      <4> QED BY <1>2, <4>1
    <3>3. CASE k < p
      BY <3>3
    <3>4. CASE k = p
      <4>1. u[k] = t[k+1] + D(t[k]) /\ b[k-1] = a[k-1] /\ (t[k] > 0 => t[k+1] >= 0)
        BY <1>1, <1>3, <3>4
      <4>2. b[k] = a[k+1]
        BY <3>1, <3>2, <4>1 DEF D
      <4> QED BY <4>2
    <3>5. CASE k > p
      <4>1. k \in p+1 .. n /\ k-1 >= p /\ (k-1)+1 = k
        BY <3>5
      <4>2. u[k] = t[k+1] /\ b[k-1] = a[k]
        BY <2>2, <4>1
      <4> QED BY <3>1, <3>2, <4>2
    <3> QED BY <3>3, <3>4, <3>5
  <2> HIDE DEF R
  <2>3. 0 .. n \subseteq R
    BY <2>1, <2>2, UpTo
  <2> QED BY <2>3 DEF R
<1>5. \A k \in 1 .. p-1 : Remains(b, u, k) = Remains(a, t, k)
  BY <1>1 DEF Remains
<1>6. ASSUME NEW k \in p .. n PROVE Remains(b, u, k) = Remains(a, t, k+1)
  <2>1. CASE k = p
    <3>1. /\ u[k] = t[k+1] + D(t[k]) /\ b[k] = a[k+1] /\ t[k] \in Int /\ t[k+1] \in Int
          /\ a[k+1] = a[k] + D(t[k+1]) /\ a[k] = a[k-1] + D(t[k]) /\ a[k-1] \in Nat
      <4>1. k+1 \in 1 .. n+1 /\ k \in 1 .. n+1 /\ (k+1)-1 = k
        OBVIOUS
      <4> QED BY <1>2, <1>4, <2>1, <4>1
    <3> QED BY <3>1 DEF Remains, D
  <2>2. CASE k > p
    <3>1. k \in p+1 .. n
      BY <2>2
    <3> QED BY <1>4, <3>1 DEF Remains
  <2> QED BY <2>1, <2>2
<1>7. Formed(u, n)
  <2> SUFFICES ASSUME NEW i \in 1 .. n, NEW j \in 1 .. n, i < j
               PROVE  (u[i] > 0 => u[j] >= 0) /\ (u[j] < 0 => u[i] <= u[j])
    BY DEF Formed
  <2>1. CASE j < p
    <3>1. u[i] = t[i] /\ u[j] = t[j] /\ i \in 1 .. n+1 /\ j \in 1 .. n+1
      BY <2>1
    <3> QED BY <3>1 DEF Formed
  <2>2. CASE j >= p
    <3>1. /\ j+1 \in 1 .. n+1 /\ i+1 \in 1 .. n+1 /\ i \in 1 .. n+1 /\ p \in 1 .. n+1
          /\ t[j+1] \in Int /\ t[i] \in Int /\ t[i+1] \in Int /\ t[p] \in Int
             /\ u[i] \in Int
          /\ u[j] \in Int
      <4>1. j+1 \in 1 .. n+1 /\ i+1 \in 1 .. n+1 /\ i \in 1 .. n+1
        OBVIOUS
      <4> QED BY <1>2, <4>1 DEF Sums
    <3>2. u[j] = IF j = p THEN t[j+1] + D(t[p]) ELSE t[j+1]
      <4>1. j # p => j \in p+1 .. n
        BY <2>2
      <4> QED BY <4>1
    <3>3. CASE i < p
      <4>1. u[i] = t[i]
        BY <3>3
      <4>2. (t[i] > 0 => t[j+1] >= 0) /\ (t[j+1] < 0 => t[i] <= t[j+1])
        BY <3>1 DEF Formed
      <4>3. t[p] > 0 => t[j+1] >= 0
        BY <2>2, <3>1 DEF Formed
      <4> QED BY <3>1, <3>2, <4>1, <4>2, <4>3 DEF D
    <3>4. CASE i = p
      <4>1. u[i] = t[i+1] + D(t[i]) /\ u[j] = t[j+1]
        BY <3>2, <3>4
      <4>2. /\ (t[i+1] > 0 => t[j+1] >= 0) /\ (t[j+1] < 0 => t[i+1] <= t[j+1])
            /\ (t[i] > 0 => t[j+1] >= 0)
        BY <3>1 DEF Formed
      <4> QED BY <3>1, <4>1, <4>2 DEF D
    <3>5. CASE i > p
      <4>1. u[i] = t[i+1] /\ u[j] = t[j+1]
        <5>1. i \in p+1 .. n
          BY <3>5
        <5> QED BY <3>2, <3>5, <5>1
      <4>2. (t[i+1] > 0 => t[j+1] >= 0) /\ (t[j+1] < 0 => t[i+1] <= t[j+1])
        BY <3>1 DEF Formed
      <4> QED BY <4>1, <4>2
    <3> QED BY <3>3, <3>4, <3>5
  <2> QED BY <2>1, <2>2
<1> QED BY <1>5, <1>6, <1>7

\* hardclock: one tick less for every callout, though it goes past those only that are due
LEMMA TickTimes ==
  ASSUME NEW n \in Nat, NEW a, NEW t, Sums(a, t, n), Formed(t, n),
         NEW b, NEW u, Sums(b, u, n),
         \A k \in 1 .. n : u[k] = IF \A j \in 1 .. k-1 : t[j] <= 0 THEN t[k] - 1 ELSE t[k]
  PROVE  /\ Formed(u, n)
         /\ \A k \in 1 .. n : Remains(b, u, k) = Remains(a, t, k) - 1
<1>1. \A k \in 1 .. n : /\ t[k] \in Int /\ a[k] \in Nat /\ a[k-1] \in Nat
                        /\ a[k] = a[k-1] + D(t[k])
                        /\ b[k] \in Nat /\ b[k] = b[k-1] + D(u[k]) /\ u[k] \in Int
  <2> SUFFICES ASSUME NEW k \in 1 .. n
               PROVE  /\ t[k] \in Int /\ a[k] \in Nat /\ a[k-1] \in Nat
                      /\ a[k] = a[k-1] + D(t[k])
                      /\ b[k] \in Nat /\ b[k] = b[k-1] + D(u[k]) /\ u[k] \in Int
    OBVIOUS
  <2>1. k \in 0 .. n /\ k-1 \in 0 .. n
    OBVIOUS
  <2> QED BY <2>1 DEF Sums
<1> DEFINE Past(k) == \A j \in 1 .. k : t[j] <= 0
           Q == {k \in 0 .. n : a[k] = 0 <=> Past(k)}
           R == {k \in 0 .. n : b[k] = IF a[k] = 0 THEN 0 ELSE a[k] - 1}
<1>2. \A k \in 0 .. n : a[k] = 0 <=> Past(k)
  <2>1. 0 \in Q
    BY DEF Sums
  <2>2. ASSUME NEW k \in 1 .. n, k-1 \in Q PROVE k \in Q
    <3>1. a[k-1] = 0 <=> Past(k-1)
      BY <2>2
    <3>2. Past(k) <=> Past(k-1) /\ t[k] <= 0
      OBVIOUS
    <3> HIDE DEF Past
    <3>3. a[k] = 0 <=> Past(k)
      BY <1>1, <3>1, <3>2 DEF D
    <3> QED BY <3>3
  <2> HIDE DEF Q
  <2>3. 0 .. n \subseteq Q
    BY <2>1, <2>2, UpTo
  <2> QED BY <2>3 DEF Q
<1>3. \A k \in 1 .. n : u[k] = IF a[k-1] = 0 THEN t[k] - 1 ELSE t[k]
  <2> SUFFICES ASSUME NEW k \in 1 .. n PROVE u[k] = IF a[k-1] = 0 THEN t[k] - 1 ELSE t[k]
    OBVIOUS
  <2>1. k-1 \in 0 .. n
    OBVIOUS
  <2> QED BY <1>2, <2>1
<1>4. \A k \in 0 .. n : b[k] = IF a[k] = 0 THEN 0 ELSE a[k] - 1
  <2>1. 0 \in R
    BY DEF Sums
  <2>2. ASSUME NEW k \in 1 .. n, k-1 \in R PROVE k \in R
    <3>1. b[k-1] = IF a[k-1] = 0 THEN 0 ELSE a[k-1] - 1
      BY <2>2
    <3>2. b[k] = IF a[k] = 0 THEN 0 ELSE a[k] - 1
      BY <1>1, <1>3, <3>1 DEF D
    <3> QED BY <3>2
  <2> HIDE DEF R
  <2>3. 0 .. n \subseteq R
    BY <2>1, <2>2, UpTo
  <2> QED BY <2>3 DEF R
<1> HIDE DEF Past
<1>5. ASSUME NEW k \in 1 .. n PROVE Remains(b, u, k) = Remains(a, t, k) - 1
  <2>1. CASE a[k-1] = 0
    BY <1>1, <1>3, <1>4, <2>1 DEF Remains, D
  <2>2. CASE a[k-1] # 0
    <3>1. k-1 \in 0 .. n /\ ~Past(k-1)
      BY <1>2, <2>2
    <3>2. t[k] >= 0
      <4>1. PICK j \in 1 .. k-1 : ~(t[j] <= 0)
        BY <3>1 DEF Past
      <4>2. j \in 1 .. n /\ j < k /\ t[j] > 0
        BY <1>1, <4>1
      <4> QED BY <4>2 DEF Formed
    <3> QED BY <1>1, <1>3, <1>4, <2>2, <3>2 DEF Remains, D
  <2> QED BY <2>1, <2>2
<1>6. Formed(u, n)
  <2> SUFFICES ASSUME NEW i \in 1 .. n, NEW j \in 1 .. n, i < j
               PROVE  (u[i] > 0 => u[j] >= 0) /\ (u[j] < 0 => u[i] <= u[j])
    BY DEF Formed
  <2>1. (t[i] > 0 => t[j] >= 0) /\ (t[j] < 0 => t[i] <= t[j])
    BY DEF Formed
  <2>2. /\ a[i-1] \in Nat /\ a[j-1] \in Nat /\ a[i] \in Nat /\ a[i-1] <= a[i]
           /\ a[i] <= a[j-1]
        /\ t[i] <= a[i]
    <3>1. i-1 \in 0 .. n /\ i \in i-1 .. n /\ i \in 0 .. n /\ j-1 \in i .. n /\ i > i-1
      OBVIOUS
    <3> QED BY <1>1, <3>1, SumsGrow
  <2>3. u[i] = (IF a[i-1] = 0 THEN t[i] - 1 ELSE t[i]) /\ t[i] \in Int
    BY <1>1, <1>3
  <2>4. u[j] = (IF a[j-1] = 0 THEN t[j] - 1 ELSE t[j]) /\ t[j] \in Int
    BY <1>1, <1>3
  <2>5. CASE a[j-1] = 0
    BY <2>1, <2>2, <2>3, <2>4, <2>5
  <2>6. CASE a[j-1] # 0
    <3>1. PICK m \in 1 .. j-1 : ~(t[m] <= 0)
      <4>1. j-1 \in 0 .. n
        OBVIOUS
      <4> QED BY <1>2, <2>6, <4>1 DEF Past
    <3>2. m \in 1 .. n /\ m < j /\ t[m] > 0
      BY <1>1, <3>1
    <3>3. t[j] >= 0
      BY <3>2 DEF Formed
    <3> QED BY <2>4, <2>6, <3>3
  <2> QED BY <2>5, <2>6
<1> QED BY <1>5, <1>6

--------------------------------------------------------------------------------
\* The callout queue as such lists

\* Its times, and its calls with the ticks each has left
Times == [i \in 1 .. Len(calltodo) |-> calltodo[i].time]
List  == [i \in 1 .. Len(calltodo) |-> Entry(i)]

\* The bag that Timeouts sees
Pending == [e \in Entries |-> Cardinality({i \in DOMAIN calltodo : Entry(i) = e})]

\* What follows from the type of the queue
Facts ==
    /\ Len(calltodo) \in Nat /\ DOMAIN calltodo = 1 .. Len(calltodo)
    /\ Sums(Passed, Times, Len(calltodo))
    /\ \A i \in 1 .. Len(calltodo) :
         /\ calltodo[i] \in Callout
         /\ Times[i] = calltodo[i].time
         /\ List[i] = [func |-> calltodo[i].func, left |-> Remains(Passed, Times, i)]
    /\ Pending = BagOf(List, Len(calltodo))
    /\ TypeOK <=> /\ Formed(Times, Len(calltodo)) /\ Len(calltodo) <= NCallout
                  /\ calling \in Func \cup {NoFunc} /\ panicked \in BOOLEAN

\* Passed is the list of the sums.
LEMMA PassedSums ==
  ASSUME calltodo \in Seq(Callout)
  PROVE  Sums(Passed, Times, Len(calltodo))
<1> DEFINE n == Len(calltodo)
           One(x, k) == x + Delta(calltodo[k])
           Rec(a) == a = [k \in 0 .. n |-> IF k = 0 THEN 0 ELSE One(a[k-1], k)]
           step == [x \in (1 .. n) \X Nat |-> One(x[2], x[1])]
           b == Passed
<1>1. n \in Nat /\ \A k \in 1 .. n : calltodo[k] \in Callout
  OBVIOUS
<1>2. \A k \in 1 .. n : Times[k] = calltodo[k].time /\ Times[k] \in Int
                        /\ Delta(calltodo[k]) = D(Times[k]) /\ D(Times[k]) \in Nat
  BY <1>1 DEF Times, Callout, Delta, D
<1>3. \A x \in Nat : \A k \in 1 .. n : One(x, k) \in Nat
  BY <1>2
<1>4. b = CHOOSE a : Rec(a)
  BY DEF Passed
<1>5. b \in [0 .. n -> Nat] /\ b[0] = 0 /\ \A k \in 1 .. n : b[k] = One(b[k-1], k)
  <2> HIDE DEF n, b, One
  <2>1. step \in [(1 .. n) \X Nat -> Nat]
    BY <1>3
  <2>2. \A k \in 1 .. n : \A x \in Nat : step[<<k, x>>] = One(x, k)
    OBVIOUS
  <2> HIDE DEF step
  <2>3. PICK a \in [0 .. n -> Nat] : a[0] = 0
        /\ \A k \in 1 .. n : a[k] = step[<<k, a[k-1]>>]
    <3>1. n \in Nat /\ 0 \in Nat
      BY <1>1
    <3>2. \E a : a \in [0 .. n -> Nat] /\ Iterates(a, n, 0, step)
      BY ONLY <3>1, <2>1, Iteration, Zenon
    <3> QED BY <3>2 DEF Iterates
  <2>4. \A k \in 0 .. n : a[k] = IF k = 0 THEN 0 ELSE One(a[k-1], k)
    <3> SUFFICES ASSUME NEW k \in 0 .. n PROVE a[k] = IF k = 0 THEN 0 ELSE One(a[k-1], k)
      OBVIOUS
    <3>1. CASE k = 0
      BY <2>3, <3>1
    <3>2. CASE k # 0
      <4>1. k \in 1 .. n /\ k-1 \in 0 .. n
        BY <3>2, <1>1
      <4> QED BY <2>2, <2>3, <4>1, <3>2
    <3> QED BY <3>1, <3>2
  <2>5. Rec(b)
    <3>1. Rec(a)
      BY <2>4
    <3> HIDE DEF Rec
    <3> QED BY <1>4, <3>1
  <2>6. b[0] = 0 /\ \A k \in 1 .. n : b[k] = One(b[k-1], k)
    BY <2>5, <1>1
  <2> DEFINE T == {k \in 0 .. n : b[k] \in Nat}
  <2>7. 0 .. n \subseteq T
    <3>1. 0 \in T
      BY <1>1, <2>6
    <3>2. ASSUME NEW k \in 1 .. n, k-1 \in T PROVE k \in T
      <4>1. b[k-1] \in Nat /\ k \in 0 .. n /\ b[k] = One(b[k-1], k)
        BY <2>6, <3>2
      <4> QED BY <1>3, <4>1
    <3> HIDE DEF T
    <3> QED BY <1>1, <3>1, <3>2, UpTo
  <2>8. b = [k \in 0 .. n |-> b[k]]
    <3> DEFINE R == [k \in 0 .. n |-> IF k = 0 THEN 0 ELSE One(b[k-1], k)]
    <3>1. b = R
      BY <2>5
    <3>2. R = [k \in 0 .. n |-> R[k]]
      OBVIOUS
    <3> HIDE DEF R
    <3> QED BY <3>1, <3>2
  <2> QED BY <2>6, <2>7, <2>8
<1>6. Times \in [1 .. n -> Int]
  BY <1>2 DEF Times
<1> QED BY <1>2, <1>5, <1>6 DEF Sums

\* The type of the queue gives all of this.
LEMMA QueueFacts == calltodo \in Seq(Callout) => Facts
<1> SUFFICES ASSUME calltodo \in Seq(Callout) PROVE Facts
  OBVIOUS
<1> DEFINE n == Len(calltodo)
<1>1. n \in Nat /\ DOMAIN calltodo = 1 .. n /\ \A i \in 1 .. n : calltodo[i] \in Callout
  OBVIOUS
<1>2. Sums(Passed, Times, n)
  BY PassedSums
<1>3. \A i \in 1 .. n : Times[i] = calltodo[i].time
  BY DEF Times
<1>4. \A i \in 1 .. n :
         List[i] = [func |-> calltodo[i].func, left |-> Remains(Passed, Times, i)]
  BY <1>3 DEF List, Entry, Left, Remains
<1>5. Pending = BagOf(List, n)
  <2>1. \A i \in 1 .. n : List[i] = Entry(i)
    BY DEF List
  <2>2. Entries = {List[i] : i \in 1 .. n}
    BY <1>1, <2>1 DEF Entries
  <2>3. \A e : {i \in DOMAIN calltodo : Entry(i) = e} = {i \in 1 .. n : List[i] = e}
    BY <1>1, <2>1
  <2> QED BY <2>2, <2>3 DEF Pending, BagOf, Copies
<1>6. TypeOK <=> /\ Formed(Times, n) /\ n <= NCallout
                 /\ calling \in Func \cup {NoFunc} /\ panicked \in BOOLEAN
  BY <1>1, <1>3 DEF TypeOK, Formed
<1> QED BY <1>1, <1>2, <1>3, <1>4, <1>5, <1>6 DEF Facts

\* A queue in the next state of which the elements are known
LEMMA NextFacts ==
  ASSUME NEW n \in Nat, NEW g \in [1 .. n -> Callout], calltodo' = g
  PROVE  Facts' /\ Len(calltodo') = n /\ \A k \in 1 .. n : Times'[k] = g[k].time
<1>1. g \in Seq(Callout) /\ Len(g) = n
  OBVIOUS
<1>2. (calltodo \in Seq(Callout) => Facts)'
  BY QueueFacts, PTL
<1>3. Facts'
  BY <1>1, <1>2
<1> QED BY <1>1, <1>3 DEF Facts

\* The queue does not change.
LEMMA SameQueue ==
  ASSUME TypeOK, calltodo' = calltodo, calling' \in Func \cup {NoFunc},
         panicked' \in BOOLEAN
  PROVE  TypeOK' /\ Pending' = Pending
BY DEF TypeOK, Pending, Entries, Entry, Left, Passed, Delta

\* The walk of timeout ends, at a place where something is left of the ticks.
LEMMA PlaceFacts ==
  ASSUME TypeOK, NEW ticks \in Int, ticks > 0
  PROVE  LET n == Len(calltodo)
             p == Place(ticks)
             r == ticks - Passed[p-1]
         IN  /\ p \in 1 .. n+1 /\ r \in Int /\ r > 0 /\ Rest(ticks)[p] = r
             /\ p <= n => r <= Times[p]
<1> DEFINE n == Len(calltodo)
           rest(i) == ticks - Passed[i-1]
           Stop(i) == i = n+1 \/ rest(i) <= Times[i]
           W == {i \in 1 .. n+1 : Stop(i)}
           p == Place(ticks)
           Q == {j \in 0 .. p-1 : Passed[j] < ticks}
<1>1. /\ n \in Nat /\ \A k \in 1 .. n : Times[k] = calltodo[k].time /\ Times[k] \in Int
      /\ \A k \in 0 .. n : Passed[k] \in Nat
      /\ Passed[0] = 0 /\ \A k \in 1 .. n : Passed[k] = Passed[k-1] + D(Times[k])
  BY QueueFacts DEF TypeOK, Facts, Sums
<1>2. \A i \in 1 .. n+1 : Rest(ticks)[i] = rest(i) /\ rest(i) \in Int
  <2> SUFFICES ASSUME NEW i \in 1 .. n+1 PROVE Rest(ticks)[i] = rest(i) /\ rest(i) \in Int
    OBVIOUS
  <2>1. i-1 \in 0 .. n
    BY <1>1
  <2> QED BY <1>1, <2>1 DEF Rest
<1> HIDE DEF rest
<1>3. \E i \in 1 .. n+1 : /\ i = n+1 \/ Rest(ticks)[i] <= calltodo[i].time
                          /\ \A j \in 1 .. i-1 : Rest(ticks)[j] > calltodo[j].time
  <2>1. W \subseteq Nat /\ n+1 \in W
    BY <1>1
  <2>2. PICK i \in W : \A j \in W : i <= j
    <3> HIDE DEF W
    <3> QED BY <2>1, Least, Zenon
  <2>3. \A j \in 1 .. i-1 : j \in 1 .. n /\ j \notin W
    BY <1>1, <2>2
  <2>4. \A j \in 1 .. i-1 : Rest(ticks)[j] > calltodo[j].time
    <3> SUFFICES ASSUME NEW j \in 1 .. i-1 PROVE Rest(ticks)[j] > calltodo[j].time
      OBVIOUS
    <3>1. j \in 1 .. n /\ j \in 1 .. n+1 /\ j \notin W
      BY <1>1, <2>2, <2>3
    <3>2. ~(rest(j) <= Times[j])
      BY <3>1
    <3>3. /\ Rest(ticks)[j] = rest(j) /\ rest(j) \in Int
          /\ Times[j] = calltodo[j].time /\ Times[j] \in Int
      BY <1>1, <1>2, <3>1
    <3> QED BY <3>2, <3>3
  <2>5. i \in 1 .. n+1 /\ (i = n+1 \/ Rest(ticks)[i] <= calltodo[i].time)
    BY <1>1, <1>2, <2>2
  <2> QED BY <2>4, <2>5
<1>4. /\ p \in 1 .. n+1 /\ (p = n+1 \/ Rest(ticks)[p] <= calltodo[p].time)
      /\ \A j \in 1 .. p-1 : Rest(ticks)[j] > calltodo[j].time
  BY <1>3 DEF Place
<1> HIDE DEF p, n
<1>5. 0 .. p-1 \subseteq Q
  <2>1. 0 \in Q
    BY <1>1, <1>4
  <2>2. ASSUME NEW k \in 1 .. p-1, k-1 \in Q PROVE k \in Q
    <3>1. k \in 1 .. n /\ k \in 1 .. n+1 /\ k-1 \in 0 .. n /\ k \in 0 .. p-1
      BY <1>1, <1>4
    <3>2. ticks - Passed[k-1] > Times[k]
      BY <1>1, <1>2, <1>4, <3>1 DEF rest
    <3>3. /\ Passed[k] = Passed[k-1] + D(Times[k]) /\ Passed[k-1] \in Nat
             /\ Times[k] \in Int
          /\ Passed[k-1] < ticks
      BY <1>1, <2>2, <3>1
    <3>4. Passed[k] < ticks
      BY <3>2, <3>3 DEF D
    <3> QED BY <3>1, <3>4
  <2>3. p-1 \in Nat
    BY <1>1, <1>4
  <2> HIDE DEF Q
  <2> QED BY <2>1, <2>2, <2>3, UpTo
<1>6. p-1 \in 0 .. n /\ Passed[p-1] \in Nat /\ Passed[p-1] < ticks
  <2>1. p-1 \in 0 .. p-1 /\ p-1 \in 0 .. n
    BY <1>1, <1>4
  <2> QED BY <1>1, <1>5, <2>1
<1>7. p <= n => ticks - Passed[p-1] <= Times[p]
  <2> SUFFICES ASSUME p <= n PROVE ticks - Passed[p-1] <= Times[p]
    OBVIOUS
  <2>1. p \in 1 .. n /\ p # n+1
    BY <1>1, <1>4
  <2> QED BY <1>1, <1>2, <1>4, <2>1 DEF rest
<1>8. Rest(ticks)[p] = ticks - Passed[p-1]
  BY <1>2, <1>4 DEF rest
<1> QED BY <1>4, <1>6, <1>7, <1>8 DEF p, n

--------------------------------------------------------------------------------
\* The steps

\* timeout puts one call more into the bag, with all of its ticks.
LEMMA TimeoutStep ==
  ASSUME TypeOK, NEW f \in Func, NEW t \in Ticks, Timeout(f, t)
  PROVE  /\ TypeOK'
         /\ Pending' = Plus(Pending, Promise!Call(f, IF t <= 0 THEN 1 ELSE t))
         /\ UNCHANGED calling
<1> DEFINE n == Len(calltodo)
           ticks == IF t <= 0 THEN 1 ELSE t
           p == Place(ticks)
           r == ticks - Passed[p-1]
           c == [func |-> f, time |-> Rest(ticks)[p]]
           g == Insert(p, c)
<1>1. ticks \in Int /\ ticks > 0
  BY TicksAssumption
<1>2. calltodo' = g /\ n < NCallout /\ UNCHANGED <<calling, panicked>>
  BY DEF Timeout
<1> HIDE DEF ticks
<1>3. /\ p \in 1 .. n+1 /\ r \in Int /\ r > 0 /\ Rest(ticks)[p] = r
      /\ p <= n => r <= Times[p]
  BY <1>1, PlaceFacts
<1> HIDE DEF p
<1>4. Facts /\ n \in Nat
  BY QueueFacts DEF TypeOK, Facts
<1>5. /\ \A k \in 1 .. n : calltodo[k] \in Callout /\ Times[k] = calltodo[k].time
                           /\ Times[k] \in Int
      /\ Sums(Passed, Times, n) /\ Formed(Times, n)
  BY <1>4 DEF Facts, Callout
<1>6. /\ c \in Callout /\ c.time = r /\ c.func = f
  BY <1>3 DEF Callout
<1> HIDE DEF c
<1>7. /\ g \in [1 .. n+1 -> Callout]
      /\ \A k \in 1 .. p-1 : g[k] = calltodo[k]
      /\ g[p] = c
      /\ p <= n => g[p+1].time = Times[p] - r /\ g[p+1].func = calltodo[p].func
      /\ \A k \in p+1 .. n : g[k+1] = calltodo[k]
  <2> DEFINE h == [k \in 1 .. n+1 |-> IF k < p THEN calltodo[k]
                     ELSE IF k = p THEN c
                     ELSE IF k = p + 1 THEN [calltodo[p] EXCEPT !.time = @ - c.time]
                     ELSE calltodo[k-1]]
  <2>1. g = h
    BY DEF Insert
  <2>2. p <= n => /\ [calltodo[p] EXCEPT !.time = @ - c.time] \in Callout
                  /\ [calltodo[p] EXCEPT !.time = @ - c.time].time = Times[p] - r
                  /\ [calltodo[p] EXCEPT !.time = @ - c.time].func = calltodo[p].func
    <3> SUFFICES ASSUME p <= n
                 PROVE  /\ [calltodo[p] EXCEPT !.time = @ - c.time] \in Callout
                        /\ [calltodo[p] EXCEPT !.time = @ - c.time].time = Times[p] - r
                        /\ [calltodo[p] EXCEPT !.time = @ - c.time].func = calltodo[p].func
      OBVIOUS
    <3>1. p \in 1 .. n
      BY <1>3, <1>4
    <3> QED BY <1>3, <1>5, <1>6, <3>1 DEF Callout
  <2> HIDE DEF g
  <2>3. ASSUME NEW k \in 1 .. n+1 PROVE h[k] \in Callout
    <3>1. CASE k < p
      <4>1. k \in 1 .. n
        BY <1>3, <1>4, <3>1
      <4> QED BY <1>5, <3>1, <4>1
    <3>2. CASE k = p
      BY <1>6, <3>2
    <3>3. CASE k = p+1
      <4>1. p <= n
        BY <1>3, <1>4, <3>3
      <4> QED BY <1>3, <2>2, <3>3, <4>1
    <3>4. CASE k > p+1
      <4>1. k-1 \in 1 .. n /\ ~(k < p) /\ k # p /\ k # p+1
        BY <1>3, <1>4, <3>4
      <4> QED BY <1>5, <4>1
    <3> QED BY <1>3, <1>4, <3>1, <3>2, <3>3, <3>4
  <2>4. h \in [1 .. n+1 -> Callout]
    BY <2>3
  <2>5. \A k \in 1 .. p-1 : h[k] = calltodo[k]
    BY <1>3, <1>4
  <2>6. h[p] = c
    BY <1>3, <1>4
  <2>7. p <= n => h[p+1].time = Times[p] - r /\ h[p+1].func = calltodo[p].func
    <3> SUFFICES ASSUME p <= n
                 PROVE  h[p+1].time = Times[p] - r /\ h[p+1].func = calltodo[p].func
      OBVIOUS
    <3>1. p+1 \in 1 .. n+1 /\ ~(p+1 < p) /\ p+1 # p
      BY <1>3, <1>4
    <3>2. h[p+1] = [calltodo[p] EXCEPT !.time = @ - c.time]
      BY <3>1
    <3> QED BY <2>2, <3>2
  <2>8. \A k \in p+1 .. n : h[k+1] = calltodo[k]
    BY <1>3, <1>4
  <2> HIDE DEF h
  <2> QED BY <2>1, <2>4, <2>5, <2>6, <2>7, <2>8
<1> HIDE DEF g
<1>8. Facts' /\ Len(calltodo') = n+1 /\ \A k \in 1 .. n+1 : Times'[k] = g[k].time
  <2>1. n+1 \in Nat
    BY <1>4
  <2> QED BY <1>2, <1>7, <2>1, NextFacts
<1>9. /\ \A k \in 1 .. p-1 : Times'[k] = Times[k]
      /\ Times'[p] = r
      /\ p <= n => Times'[p+1] = Times[p] - r
      /\ \A k \in p+1 .. n : Times'[k+1] = Times[k]
  <2>1. ASSUME NEW k \in 1 .. p-1 PROVE Times'[k] = Times[k]
    <3>1. k \in 1 .. n /\ k \in 1 .. n+1
      BY <1>3, <1>4
    <3> QED BY <1>5, <1>7, <1>8, <3>1
  <2>2. Times'[p] = r
    BY <1>3, <1>6, <1>7, <1>8
  <2>3. p <= n => Times'[p+1] = Times[p] - r
    <3> SUFFICES ASSUME p <= n PROVE Times'[p+1] = Times[p] - r
      OBVIOUS
    <3>1. p+1 \in 1 .. n+1
      BY <1>3, <1>4
    <3> QED BY <1>7, <1>8, <3>1
  <2>4. ASSUME NEW k \in p+1 .. n PROVE Times'[k+1] = Times[k]
    <3>1. k \in 1 .. n /\ k+1 \in 1 .. n+1
      BY <1>3, <1>4
    <3> QED BY <1>5, <1>7, <1>8, <3>1
  <2> QED BY <2>1, <2>2, <2>3, <2>4
<1>10. Sums(Passed', Times', n+1)
  BY <1>8 DEF Facts
<1>11. /\ Formed(Times', n+1)
       /\ \A k \in 1 .. p-1 : Remains(Passed', Times', k) = Remains(Passed, Times, k)
       /\ Remains(Passed', Times', p) = Passed[p-1] + r
       /\ \A k \in p .. n : Remains(Passed', Times', k+1) = Remains(Passed, Times, k)
  <2>1. /\ n \in Nat /\ Sums(Passed, Times, n) /\ Formed(Times, n)
        /\ Sums(Passed', Times', n+1) /\ p \in 1 .. n+1 /\ r \in Int /\ r > 0
        /\ Times'[p] = r /\ (p <= n => r <= Times[p] /\ Times'[p+1] = Times[p] - r)
        /\ \A k \in 1 .. p-1 : Times'[k] = Times[k]
        /\ \A k \in p+1 .. n : Times'[k+1] = Times[k]
    BY <1>3, <1>4, <1>5, <1>9, <1>10
  <2> HIDE DEF n, r
  <2> QED BY ONLY <2>1, InsertTimes
<1>12. TypeOK'
  <2>1. n+1 <= NCallout
    BY <1>2, <1>4, NCalloutAssumption
  <2>2. calling \in Func \cup {NoFunc} /\ panicked \in BOOLEAN
    BY DEF TypeOK
  <2> QED BY <1>2, <1>8, <1>11, <2>1, <2>2 DEF Facts
<1>13. List'[p] = [func |-> f, left |-> ticks]
  <2>1. Passed[p-1] \in Nat
    <3>1. p-1 \in 0 .. n
      BY <1>3, <1>4
    <3> QED BY <1>5, <3>1 DEF Sums
  <2>2. Passed[p-1] + r = ticks
    BY <1>1, <2>1
  <2>3. List'[p] = [func |-> calltodo'[p].func, left |-> Remains(Passed', Times', p)]
    BY <1>3, <1>8 DEF Facts
  <2> QED BY <1>2, <1>6, <1>7, <1>11, <2>2, <2>3
<1>14. Inserted(List, n, List', p)
  <2>1. \A k \in 1 .. n+1 : List'[k] = [func |-> g[k].func,
                                        left |-> Remains(Passed', Times', k)]
    BY <1>2, <1>8 DEF Facts
  <2>2. \A k \in 1 .. n : List[k] = [func |-> calltodo[k].func,
                                     left |-> Remains(Passed, Times, k)]
    BY <1>4 DEF Facts
  <2>3. ASSUME NEW k \in 1 .. p-1 PROVE List'[k] = List[k]
    <3>1. k \in 1 .. n /\ k \in 1 .. n+1
      BY <1>3, <1>4
    <3> QED BY <1>7, <1>11, <2>1, <2>2, <3>1
  <2>4. ASSUME NEW k \in p .. n PROVE List'[k+1] = List[k]
    <3>1. k \in 1 .. n /\ k+1 \in 1 .. n+1
      BY <1>3, <1>4
    <3>2. g[k+1].func = calltodo[k].func
      <4>1. CASE k = p
        BY <1>3, <1>4, <1>7, <3>1, <4>1
      <4>2. CASE k # p
        <5>1. k \in p+1 .. n
          BY <1>3, <1>4, <4>2
        <5> QED BY <1>7, <5>1
      <4> QED BY <4>1, <4>2
    <3> QED BY <1>11, <2>1, <2>2, <3>1, <3>2
  <2> QED BY <2>3, <2>4 DEF Inserted
<1>15. Pending' = Plus(Pending, List'[p])
  <2>1. Pending = BagOf(List, n) /\ Pending' = BagOf(List', n+1)
    BY <1>4, <1>8 DEF Facts
  <2> HIDE DEF n
  <2>2. BagOf(List', n+1) = Plus(BagOf(List, n), List'[p])
    BY ONLY <1>3, <1>4, <1>14, BagInserted
  <2> QED BY <2>1, <2>2
<1> QED BY <1>2, <1>12, <1>13, <1>15 DEF Promise!Call, ticks

\* Without callout p, which untimeout and softclock take out, the bag has one such call less.
LEMMA RemoveStep ==
  ASSUME TypeOK, NEW p \in 1 .. Len(calltodo), calltodo' = Delete(p),
         calling' \in Func \cup {NoFunc}, UNCHANGED panicked
  PROVE  TypeOK' /\ Pending' = Minus(Pending, List[p])
<1> DEFINE n == Len(calltodo) - 1
           g == Delete(p)
<1>1. Facts /\ n \in Nat /\ n + 1 = Len(calltodo)
  BY QueueFacts DEF TypeOK, Facts
<1>2. /\ \A k \in 1 .. n+1 : calltodo[k] \in Callout /\ Times[k] = calltodo[k].time
                             /\ Times[k] \in Int /\ Delta(calltodo[k]) = D(Times[k])
                             /\ D(Times[k]) \in Int
      /\ Sums(Passed, Times, n+1) /\ Formed(Times, n+1)
  <2>1. /\ \A k \in 1 .. n+1 : calltodo[k] \in Callout /\ Times[k] = calltodo[k].time
        /\ Sums(Passed, Times, n+1) /\ Formed(Times, n+1)
    BY <1>1 DEF Facts
  <2> HIDE DEF n
  <2>2. ASSUME NEW k \in 1 .. n+1
        PROVE  /\ Times[k] \in Int /\ Delta(calltodo[k]) = D(Times[k])
               /\ D(Times[k]) \in Int
    <3>1. Times[k] = calltodo[k].time /\ calltodo[k].time \in Int
      BY <2>1 DEF Callout
    <3> QED BY <3>1 DEF Delta, D
  <2> QED BY <2>1, <2>2
<1>3. /\ g \in [1 .. n -> Callout]
      /\ \A k \in 1 .. p-1 : g[k] = calltodo[k]
      /\ p <= n => g[p].time = Times[p+1] + D(Times[p]) /\ g[p].func = calltodo[p+1].func
      /\ \A k \in p+1 .. n : g[k] = calltodo[k+1]
  <2> DEFINE x == [calltodo[p+1] EXCEPT !.time = @ + Delta(calltodo[p])]
             h == [k \in 1 .. n |-> IF k < p THEN calltodo[k]
                     ELSE IF k = p THEN x ELSE calltodo[k+1]]
  <2>1. g = h
    BY DEF Delete
  <2>2. p <= n => /\ x \in Callout /\ x.time = Times[p+1] + D(Times[p])
                  /\ x.func = calltodo[p+1].func
    <3> SUFFICES ASSUME p <= n
                 PROVE  /\ x \in Callout /\ x.time = Times[p+1] + D(Times[p])
                        /\ x.func = calltodo[p+1].func
      OBVIOUS
    <3>1. p \in 1 .. n+1 /\ p+1 \in 1 .. n+1
      BY <1>1
    <3>2. /\ calltodo[p+1] \in Callout /\ Times[p+1] = calltodo[p+1].time
          /\ Times[p+1] \in Int /\ Delta(calltodo[p]) = D(Times[p]) /\ D(Times[p]) \in Int
      BY <1>2, <3>1
    <3> HIDE DEF n, g
    <3> QED BY <3>2 DEF Callout
  <2> HIDE DEF g, x
  <2>3. ASSUME NEW k \in 1 .. n PROVE h[k] \in Callout
    <3>1. k \in 1 .. n+1 /\ k+1 \in 1 .. n+1 /\ (k = p => p <= n)
      BY <1>1
    <3> QED BY <1>2, <2>2, <3>1
  <2>4. h \in [1 .. n -> Callout]
    BY <2>3
  <2>5. \A k \in 1 .. p-1 : h[k] = calltodo[k]
    BY <1>1
  <2>6. p <= n => h[p] = x
    BY <1>1
  <2>7. \A k \in p+1 .. n : h[k] = calltodo[k+1]
    BY <1>1
  <2> HIDE DEF h
  <2> QED BY <2>1, <2>2, <2>4, <2>5, <2>6, <2>7
<1> HIDE DEF g
<1>4. Facts' /\ Len(calltodo') = n /\ \A k \in 1 .. n : Times'[k] = g[k].time
  BY <1>1, <1>3, NextFacts DEF g
<1>5. /\ \A k \in 1 .. p-1 : Times'[k] = Times[k]
      /\ p <= n => Times'[p] = Times[p+1] + D(Times[p])
      /\ \A k \in p+1 .. n : Times'[k] = Times[k+1]
  <2>1. ASSUME NEW k \in 1 .. p-1 PROVE Times'[k] = Times[k]
    <3>1. k \in 1 .. n /\ k \in 1 .. n+1
      BY <1>1
    <3> QED BY <1>2, <1>3, <1>4, <3>1
  <2>2. p <= n => Times'[p] = Times[p+1] + D(Times[p])
    <3> SUFFICES ASSUME p <= n PROVE Times'[p] = Times[p+1] + D(Times[p])
      OBVIOUS
    <3>1. p \in 1 .. n
      BY <1>1
    <3> QED BY <1>3, <1>4, <3>1
  <2>3. ASSUME NEW k \in p+1 .. n PROVE Times'[k] = Times[k+1]
    <3>1. k \in 1 .. n /\ k+1 \in 1 .. n+1
      BY <1>1
    <3> QED BY <1>2, <1>3, <1>4, <3>1
  <2> QED BY <2>1, <2>2, <2>3
<1>6. /\ Formed(Times', n)
      /\ \A k \in 1 .. p-1 : Remains(Passed', Times', k) = Remains(Passed, Times, k)
      /\ \A k \in p .. n : Remains(Passed', Times', k) = Remains(Passed, Times, k+1)
  <2>1. /\ n \in Nat /\ Sums(Passed, Times, n+1) /\ Formed(Times, n+1)
        /\ Sums(Passed', Times', n) /\ p \in 1 .. n+1
        /\ p <= n => Times'[p] = Times[p+1] + D(Times[p])
        /\ \A k \in 1 .. p-1 : Times'[k] = Times[k]
        /\ \A k \in p+1 .. n : Times'[k] = Times[k+1]
    BY <1>1, <1>2, <1>4, <1>5 DEF Facts
  <2> HIDE DEF n
  <2> QED BY ONLY <2>1, DeleteTimes
<1>7. TypeOK'
  <2>1. n <= NCallout
    BY <1>1, NCalloutAssumption DEF TypeOK
  <2>2. panicked' \in BOOLEAN
    BY DEF TypeOK
  <2> QED BY <1>4, <1>6, <2>1, <2>2 DEF Facts
<1>8. Inserted(List', n, List, p)
  <2>1. \A k \in 1 .. n : List'[k] = [func |-> g[k].func,
                                      left |-> Remains(Passed', Times', k)]
    BY <1>4 DEF Facts, g
  <2>2. \A k \in 1 .. n+1 : List[k] = [func |-> calltodo[k].func,
                                       left |-> Remains(Passed, Times, k)]
    BY <1>1 DEF Facts
  <2>3. ASSUME NEW k \in 1 .. p-1 PROVE List[k] = List'[k]
    <3>1. k \in 1 .. n /\ k \in 1 .. n+1
      BY <1>1
    <3> QED BY <1>3, <1>6, <2>1, <2>2, <3>1
  <2>4. ASSUME NEW k \in p .. n PROVE List[k+1] = List'[k]
    <3>1. k \in 1 .. n /\ k+1 \in 1 .. n+1
      BY <1>1
    <3>2. g[k].func = calltodo[k+1].func
      <4>1. CASE k = p
        BY <1>1, <1>3, <3>1, <4>1
      <4>2. CASE k # p
        <5>1. k \in p+1 .. n
          BY <1>1, <4>2
        <5> QED BY <1>3, <5>1
      <4> QED BY <4>1, <4>2
    <3> QED BY <1>6, <2>1, <2>2, <3>1, <3>2
  <2> QED BY <2>3, <2>4 DEF Inserted
<1>9. Pending' = Minus(Pending, List[p])
  <2>1. Pending = BagOf(List, n+1) /\ Pending' = BagOf(List', n) /\ p \in 1 .. n+1
    BY <1>1, <1>4 DEF Facts
  <2> HIDE DEF n
  <2>2. BagOf(List', n) = Minus(BagOf(List, n+1), List[p])
    BY ONLY <1>1, <1>8, <2>1, BagInserted
  <2> QED BY <2>1, <2>2
<1> QED BY <1>7, <1>9

\* The calls that the bag holds are the entries of the list.
LEMMA PendingCalls ==
  ASSUME TypeOK
  PROVE  /\ Promise!BagToSet(Pending) = {List[i] : i \in 1 .. Len(calltodo)}
         /\ DOMAIN Pending = {List[i] : i \in 1 .. Len(calltodo)}
         /\ \A i \in 1 .. Len(calltodo) :
              List[i] = [func |-> calltodo[i].func, left |-> List[i].left]
         /\ \A i, j \in 1 .. Len(calltodo) : i <= j => List[i].left <= List[j].left
         /\ \A i \in 1 .. Len(calltodo) : List[i].left \in Int
<1> DEFINE n == Len(calltodo)
<1>1. /\ n \in Nat /\ Sums(Passed, Times, n) /\ Formed(Times, n)
      /\ \A i \in 1 .. n : List[i] = [func |-> calltodo[i].func,
                                      left |-> Remains(Passed, Times, i)]
      /\ Pending = BagOf(List, n)
  BY QueueFacts DEF TypeOK, Facts
<1> HIDE DEF n
<1>5. ASSUME NEW i \in 1 .. n
      PROVE  List[i].func = calltodo[i].func /\ List[i].left = Remains(Passed, Times, i)
  <2> DEFINE e == [func |-> calltodo[i].func, left |-> Remains(Passed, Times, i)]
  <2>1. e.func = calltodo[i].func /\ e.left = Remains(Passed, Times, i)
    OBVIOUS
  <2>2. List[i] = e
    BY <1>1
  <2> HIDE DEF e
  <2> QED BY <2>1, <2>2
<1>2. DOMAIN Pending = {List[i] : i \in 1 .. n}
  BY <1>1 DEF BagOf
<1>3. ASSUME NEW i \in 1 .. n, NEW j \in 1 .. n, i <= j PROVE List[i].left <= List[j].left
  <2>1. j \in i .. n
    BY <1>3
  <2>2. Remains(Passed, Times, i) <= Remains(Passed, Times, j)
    BY ONLY <1>1, <2>1, InOrder
  <2> QED BY <1>5, <2>2
<1>4. ASSUME NEW i \in 1 .. n PROVE List[i].left \in Int
  <2>1. Passed[i] \in Nat /\ Times[i] \in Int
    <3>1. i \in 0 .. n
      BY <1>1
    <3> QED BY <1>1, <3>1 DEF Sums
  <2> QED BY <1>5, <2>1 DEF Remains
<1>6. \A i \in 1 .. n : List[i] = [func |-> calltodo[i].func, left |-> List[i].left]
  BY <1>1, <1>5
<1> QED BY <1>2, <1>3, <1>4, <1>6 DEF n, Promise!BagToSet

\* untimeout cancels the call of f that has the least of its ticks left.
LEMMA UntimeoutStep ==
  ASSUME TypeOK, NEW f \in Func, Untimeout(f)
  PROVE  /\ TypeOK' /\ UNCHANGED calling
         /\ \E c \in {e \in Promise!BagToSet(Pending) : e.func = f} :
              /\ \A d \in {e \in Promise!BagToSet(Pending) : e.func = f} : c.left <= d.left
              /\ Pending' = Minus(Pending, c)
<1> DEFINE n == Len(calltodo)
           C == {e \in Promise!BagToSet(Pending) : e.func = f}
<1>1. n \in Nat /\ DOMAIN calltodo = 1 .. n
  BY QueueFacts DEF TypeOK, Facts
<1>2. UNCHANGED <<calling, panicked>> /\ calling \in Func \cup {NoFunc}
  BY DEF Untimeout, TypeOK
<1>3. PICK i \in DOMAIN calltodo : /\ calltodo[i].func = f
                                   /\ \A j \in 1 .. i-1 : calltodo[j].func # f
                                   /\ calltodo' = Delete(i)
  BY DEF Untimeout
<1>4. i \in 1 .. n
  BY <1>1, <1>3
<1>5. TypeOK' /\ Pending' = Minus(Pending, List[i])
  <2>1. calling' \in Func \cup {NoFunc}
    BY <1>2
  <2> QED BY <1>2, <1>3, <1>4, <2>1, RemoveStep
<1>6. /\ Promise!BagToSet(Pending) = {List[k] : k \in 1 .. n}
      /\ \A k \in 1 .. n : List[k] = [func |-> calltodo[k].func, left |-> List[k].left]
      /\ \A k, j \in 1 .. n : k <= j => List[k].left <= List[j].left
  BY PendingCalls
<1>7. \A k \in 1 .. n : List[k].func = calltodo[k].func
  <2> SUFFICES ASSUME NEW k \in 1 .. n PROVE List[k].func = calltodo[k].func
    OBVIOUS
  <2> DEFINE e == [func |-> calltodo[k].func, left |-> List[k].left]
  <2>1. e.func = calltodo[k].func
    OBVIOUS
  <2>2. List[k] = e
    BY <1>6
  <2> HIDE DEF e
  <2> QED BY <2>1, <2>2
<1> HIDE DEF n
<1>8. List[i] \in C
  BY <1>3, <1>4, <1>6, <1>7
<1>9. ASSUME NEW d \in C PROVE List[i].left <= d.left
  <2>1. PICK k \in 1 .. n : d = List[k]
    BY <1>6
  <2>2. calltodo[k].func = f
    BY <1>7, <2>1
  <2>3. k \notin 1 .. i-1
    BY <1>3, <2>2
  <2>4. i <= k
    BY <1>1, <1>4, <2>3 DEF n
  <2> QED BY <1>4, <1>6, <2>1, <2>4
<1> QED BY <1>2, <1>5, <1>8, <1>9

\* softclock makes the call that has the least of its ticks left, when it is due.
LEMMA SoftclockStep ==
  ASSUME TypeOK, Softclock
  PROVE  /\ TypeOK' /\ calling = NoFunc
         /\ \E c \in Promise!BagToSet(Pending) :
              /\ c.left <= 0
              /\ \A d \in Promise!BagToSet(Pending) : c.left <= d.left
              /\ Pending' = Minus(Pending, c)
              /\ calling' = c.func
<1> DEFINE n == Len(calltodo)
<1>1. Facts /\ calltodo \in Seq(Callout)
  BY QueueFacts DEF TypeOK
<1>2. /\ UNCHANGED panicked /\ calling = NoFunc /\ calltodo # <<>>
      /\ Head(calltodo).time <= 0 /\ calling' = Head(calltodo).func
      /\ calltodo' = Tail(calltodo)
  BY DEF Softclock
<1>3. n \in Nat /\ 1 \in 1 .. n /\ Head(calltodo) = calltodo[1]
  BY <1>1, <1>2
<1>4. calltodo[1] \in Callout /\ calltodo[1].time <= 0 /\ Delta(calltodo[1]) = 0
  <2>1. calltodo[1] \in Callout
    BY <1>1, <1>3 DEF Facts
  <2>2. calltodo[1].time \in Int /\ calltodo[1].time <= 0
    BY <1>2, <1>3, <2>1 DEF Callout
  <2> QED BY <2>1, <2>2 DEF Delta
<1>5. calltodo' = Delete(1)
  <2>1. Tail(calltodo) = [k \in 1 .. n-1 |-> calltodo[k+1]]
    <3> DEFINE t == Tail(calltodo)
    <3>1. t \in Seq(Callout) /\ Len(t) = n-1 /\ n-1 \in Nat
      BY <1>1, <1>2, <1>3
    <3>2. t = [k \in 1 .. n-1 |-> t[k]]
      <4> HIDE DEF t, n
      <4>1. t \in [1 .. n-1 -> Callout]
        BY <3>1
      <4> QED BY <4>1
    <3>3. \A k \in 1 .. n-1 : t[k] = calltodo[k+1]
      BY <1>1, <1>2, <1>3
    <3> HIDE DEF t
    <3>4. [k \in 1 .. n-1 |-> t[k]] = [k \in 1 .. n-1 |-> calltodo[k+1]]
      BY <3>3
    <3> QED BY <3>2, <3>4 DEF t
  <2>2. ASSUME NEW k \in 1 .. n-1
        PROVE  calltodo[k+1] = IF k < 1 THEN calltodo[k]
                 ELSE IF k = 1 THEN [calltodo[1+1] EXCEPT !.time = @ + Delta(calltodo[1])]
                 ELSE calltodo[k+1]
    <3>1. CASE k = 1
      <4>1. 1+1 \in 1 .. n
        BY <1>3, <3>1
      <4>2. calltodo[1+1] \in Callout
        BY <1>1, <4>1 DEF Facts
      <4>3. [calltodo[1+1] EXCEPT !.time = @ + Delta(calltodo[1])] = calltodo[1+1]
        BY <1>4, <4>2 DEF Callout
      <4> QED BY <3>1, <4>3
    <3>2. CASE k # 1
      BY <1>3, <3>2
    <3> QED BY <3>1, <3>2
  <2> DEFINE h == [k \in 1 .. n-1 |-> IF k < 1 THEN calltodo[k]
                 ELSE IF k = 1 THEN [calltodo[1+1] EXCEPT !.time = @ + Delta(calltodo[1])]
                 ELSE calltodo[k+1]]
  <2>3. Delete(1) = h
    BY DEF Delete
  <2>4. [k \in 1 .. n-1 |-> calltodo[k+1]] = h
    BY <2>2
  <2> HIDE DEF h
  <2> QED BY <1>2, <2>1, <2>3, <2>4
<1>6. TypeOK' /\ Pending' = Minus(Pending, List[1])
  <2>1. calling' \in Func \cup {NoFunc}
    BY <1>2, <1>3, <1>4 DEF Callout
  <2> QED BY <1>2, <1>3, <1>5, <2>1, RemoveStep
<1>7. /\ Promise!BagToSet(Pending) = {List[k] : k \in 1 .. n}
      /\ \A k, j \in 1 .. n : k <= j => List[k].left <= List[j].left
  BY PendingCalls
<1>8. List[1].func = calltodo[1].func /\ List[1].left <= 0
  <2>1. List[1] = [func |-> calltodo[1].func, left |-> Remains(Passed, Times, 1)]
    BY <1>1, <1>3 DEF Facts
  <2>2. Times[1] = calltodo[1].time /\ Times[1] \in Int
    BY <1>1, <1>3, <1>4 DEF Facts, Callout
  <2>3. Passed[1] = Passed[1-1] + D(Times[1]) /\ Passed[0] = 0 /\ 1-1 = 0
    BY <1>1, <1>3 DEF Facts, Sums
  <2>4. Remains(Passed, Times, 1) <= 0
    BY <1>4, <2>2, <2>3 DEF Remains, D
  <2> DEFINE x == Remains(Passed, Times, 1)
  <2> HIDE DEF x
  <2>5. List[1] = [func |-> calltodo[1].func, left |-> x] /\ x <= 0
    BY <2>1, <2>4 DEF x
  <2> QED BY <2>5
<1>9. List[1] \in Promise!BagToSet(Pending)
  BY <1>3, <1>7
<1>10. ASSUME NEW d \in Promise!BagToSet(Pending) PROVE List[1].left <= d.left
  <2>1. PICK k \in 1 .. n : d = List[k]
    BY <1>7
  <2> QED BY <1>3, <1>7, <2>1
<1> QED BY <1>2, <1>3, <1>6, <1>8, <1>9, <1>10

\* hardclock takes a tick off what each of the calls has left.
LEMMA HardclockStep ==
  ASSUME TypeOK, Hardclock
  PROVE  /\ TypeOK' /\ UNCHANGED calling
         /\ Pending' = [d \in {Promise!Call(c.func, c.left - 1) : c \in DOMAIN Pending}
                          |-> Pending[Promise!Call(d.func, d.left + 1)]]
<1> DEFINE n == Len(calltodo)
           g == CountDown
<1>1. Facts /\ n \in Nat
  BY QueueFacts DEF TypeOK, Facts
<1>2. calltodo' = g /\ UNCHANGED <<calling, panicked>>
  BY DEF Hardclock
<1>3. /\ \A k \in 1 .. n : calltodo[k] \in Callout /\ Times[k] = calltodo[k].time
                           /\ Times[k] \in Int
      /\ Sums(Passed, Times, n) /\ Formed(Times, n)
  BY <1>1 DEF Facts, Callout, TypeOK
<1> DEFINE early(k) == \A j \in 1 .. k-1 : Times[j] <= 0
<1>4. /\ g \in [1 .. n -> Callout]
      /\ \A k \in 1 .. n : /\ g[k].func = calltodo[k].func
                           /\ g[k].time = IF early(k) THEN Times[k] - 1 ELSE Times[k]
  <2> DEFINE x(k) == IF Reached(k) THEN [calltodo[k] EXCEPT !.time = @ - 1] ELSE calltodo[k]
             h == [k \in 1 .. n |-> x(k)]
  <2>1. g = h
    BY DEF CountDown
  <2>2. ASSUME NEW k \in 1 .. n
        PROVE  /\ x(k) \in Callout /\ x(k).func = calltodo[k].func
               /\ x(k).time = IF early(k) THEN Times[k] - 1 ELSE Times[k]
    <3>1. Reached(k) <=> early(k)
      <4>1. \A j \in 1 .. k-1 : Times[j] = calltodo[j].time
        BY <1>1, <1>3
      <4> QED BY <4>1 DEF Reached
    <3>2. calltodo[k] \in Callout /\ Times[k] = calltodo[k].time /\ Times[k] \in Int
      BY <1>3
    <3> HIDE DEF early, n, g
    <3> QED BY <3>1, <3>2 DEF Callout
  <2> HIDE DEF g, x, n, early
  <2>3. h \in [1 .. n -> Callout] /\ \A k \in 1 .. n : h[k] = x(k)
    BY <2>2
  <2> HIDE DEF h
  <2> QED BY <2>1, <2>2, <2>3
<1> HIDE DEF g
<1>5. Facts' /\ Len(calltodo') = n /\ \A k \in 1 .. n : Times'[k] = g[k].time
  BY <1>1, <1>2, <1>4, NextFacts
<1>6. /\ Formed(Times', n)
      /\ \A k \in 1 .. n : Remains(Passed', Times', k) = Remains(Passed, Times, k) - 1
  <2>1. /\ n \in Nat /\ Sums(Passed, Times, n) /\ Formed(Times, n)
           /\ Sums(Passed', Times', n)
        /\ \A k \in 1 .. n : Times'[k] =
             IF \A j \in 1 .. k-1 : Times[j] <= 0 THEN Times[k] - 1 ELSE Times[k]
    BY <1>1, <1>3, <1>4, <1>5 DEF Facts
  <2> HIDE DEF n
  <2> QED BY ONLY <2>1, TickTimes
<1>7. TypeOK'
  BY <1>2, <1>5, <1>6 DEF Facts, TypeOK
<1> HIDE DEF n, early
<1> DEFINE call(c, x) == Promise!Call(c.func, c.left + x)
<1>8. \A k \in 1 .. n : /\ List[k].left \in Int /\ List'[k].left = List[k].left - 1
                        /\ List[k] = [func |-> List[k].func, left |-> List[k].left]
                        /\ List'[k] = [func |-> List[k].func, left |-> List[k].left - 1]
  <2> SUFFICES ASSUME NEW k \in 1 .. n
               PROVE  /\ List[k].left \in Int /\ List'[k].left = List[k].left - 1
                      /\ List[k] = [func |-> List[k].func, left |-> List[k].left]
                      /\ List'[k] = [func |-> List[k].func, left |-> List[k].left - 1]
    OBVIOUS
  <2> DEFINE x == Remains(Passed, Times, k)
             y == Remains(Passed', Times', k)
             f == calltodo[k].func
  <2>1. List[k] = [func |-> f, left |-> x] /\ List[k].left \in Int
    BY <1>1, PendingCalls DEF Facts, n
  <2>2. List'[k] = [func |-> f, left |-> y] /\ y = x - 1
    BY <1>2, <1>4, <1>5, <1>6 DEF Facts
  <2> HIDE DEF x, y, f
  <2> QED BY <2>1, <2>2
<1>9. DOMAIN Pending = {List[k] : k \in 1 .. n} /\ Pending = BagOf(List, n)
      /\ Pending' = BagOf(List', n)
  BY <1>1, <1>5, PendingCalls DEF Facts, n
<1> DEFINE T == {List'[k] : k \in 1 .. n}
           U == {Promise!Call(c.func, c.left - 1) : c \in DOMAIN Pending}
           back(d) == Promise!Call(d.func, d.left + 1)
<1>10. \A k \in 1 .. n : /\ List'[k] = Promise!Call(List[k].func, List[k].left - 1)
                         /\ back(List'[k]) = List[k]
  <2> SUFFICES ASSUME NEW k \in 1 .. n
               PROVE  /\ List'[k] = Promise!Call(List[k].func, List[k].left - 1)
                      /\ back(List'[k]) = List[k]
    OBVIOUS
  <2> DEFINE f == List[k].func
             x == List[k].left
  <2>1. /\ x \in Int /\ List[k] = [func |-> f, left |-> x]
        /\ List'[k] = [func |-> f, left |-> x-1]
    BY <1>8
  <2> HIDE DEF f, x
  <2>2. x - 1 + 1 = x /\ List'[k].func = f /\ List'[k].left = x - 1
    BY <2>1
  <2> QED BY <2>1, <2>2 DEF Promise!Call, f, x
<1>11. U = T
  BY <1>9, <1>10
<1>12. ASSUME NEW d \in T PROVE Copies(List', n, d) = Pending[back(d)]
  <2>1. PICK k \in 1 .. n : d = List'[k]
    OBVIOUS
  <2>2. back(d) = List[k] /\ List[k] \in {List[j] : j \in 1 .. n}
    BY <1>10, <2>1
  <2>3. Pending[List[k]] = Copies(List, n, List[k])
    BY <1>9, <2>2 DEF BagOf
  <2>4. \A j \in 1 .. n : List'[j] = List'[k] <=> List[j] = List[k]
    BY <1>10
  <2>5. {j \in 1 .. n : List'[j] = d} = {j \in 1 .. n : List[j] = List[k]}
    BY <2>1, <2>4
  <2> QED BY <2>2, <2>3, <2>5 DEF Copies
<1>13. Pending' = [d \in T |-> Copies(List', n, d)]
  BY <1>9 DEF BagOf
<1>14. [d \in T |-> Copies(List', n, d)] = [d \in T |-> Pending[back(d)]]
  BY <1>12
<1>15. Pending' = [d \in U |-> Pending[back(d)]]
  BY <1>11, <1>13, <1>14
<1> QED BY <1>2, <1>7, <1>15

\* At first nothing is scheduled, on either side.
LEMMA InitQueue == Init => TypeOK /\ Pending = Promise!EmptyBag
<1> SUFFICES ASSUME Init PROVE TypeOK /\ Pending = Promise!EmptyBag
  OBVIOUS
<1>1. /\ calltodo = <<>> /\ calltodo \in Seq(Callout) /\ Len(calltodo) = 0
      /\ DOMAIN calltodo = {}
  BY DEF Init
<1>2. TypeOK
  <2>1. 0 <= NCallout
    BY NCalloutAssumption
  <2>2. calling \in Func \cup {NoFunc} /\ panicked \in BOOLEAN
    BY DEF Init
  <2>3. \A i, j \in DOMAIN calltodo : FALSE
    BY <1>1
  <2> QED BY <1>1, <2>1, <2>2, <2>3 DEF TypeOK
<1>3. Pending = Promise!EmptyBag
  <2>1. Entries = {}
    BY <1>1 DEF Entries
  <2> QED BY <2>1 DEF Pending, Promise!EmptyBag, Promise!SetToBag
<1> QED BY <1>2, <1>3

--------------------------------------------------------------------------------
\* The theorems

\* A step keeps the form of the queue, and is a step of the promise or leaves what the
\* promise speaks of as it is.
LEMMA NextQueue ==
  TypeOK /\ [Next]_vars =>
    TypeOK' /\ [Promise!Next]_<<[e \in Entries |->
                                   Cardinality({i \in DOMAIN calltodo : Entry(i) = e})],
                                calling>>
<1> USE DEF Promise!Next
<1> SUFFICES ASSUME TypeOK, [Next]_vars
             PROVE  TypeOK' /\ (Promise!Next \/ UNCHANGED <<Pending, calling>>)
  BY DEF Pending
<1>1. ASSUME NEW f \in Func, Untimeout(f) PROVE TypeOK' /\ Promise!Cancel(f)
  BY <1>1, UntimeoutStep DEF Promise!Cancel, Promise!Calls, Minus, Pending
<1>2. ASSUME NEW f \in Func, NEW t \in Ticks, Timeout(f, t)
      PROVE  TypeOK' /\ Promise!Schedule(f, t)
  BY <1>2, TimeoutStep DEF Promise!Schedule, Plus, Pending
<1>3. CASE TimeoutPanics
  <2>1. /\ UNCHANGED <<calltodo, calling>> /\ panicked' \in BOOLEAN
        /\ calling' \in Func \cup {NoFunc}
    BY <1>3 DEF TimeoutPanics, TypeOK
  <2> QED BY <2>1, SameQueue
<1>4. CASE Hardclock
  <2>1. TypeOK' /\ Promise!Tick
    BY <1>4, HardclockStep DEF Promise!Tick, Pending
  <2> QED BY <2>1
<1>5. CASE Softclock
  <2>1. TypeOK' /\ Promise!Make
    BY <1>5, SoftclockStep DEF Promise!Make, Minus, Pending
  <2> QED BY <2>1
<1>6. CASE Return
  <2>1. /\ UNCHANGED <<calltodo, panicked>> /\ calling # NoFunc /\ calling' = NoFunc
        /\ panicked' \in BOOLEAN
    BY <1>6 DEF Return, TypeOK
  <2>2. TypeOK' /\ Pending' = Pending
    BY <2>1, SameQueue
  <2>3. Promise!Return
    BY <2>1, <2>2 DEF Promise!Return, Pending
  <2> QED BY <2>2, <2>3
<1>7. CASE UNCHANGED vars
  <2>1. /\ UNCHANGED <<calltodo, calling, panicked>> /\ panicked' \in BOOLEAN
        /\ calling' \in Func \cup {NoFunc}
    BY <1>7 DEF vars, TypeOK
  <2> QED BY <2>1, SameQueue
<1> QED BY <1>1, <1>2, <1>3, <1>4, <1>5, <1>6, <1>7 DEF Next

\* The queue of callouts keeps its type, its bound and the order of its times: what is due
\* stands in front, the longest due first, and no time after one in the future is negative.
\* timeout, untimeout, hardclock and softclock each rely on it and keep it.
THEOREM TypeCorrect == Spec => []TypeOK
<1>1. Init => TypeOK
  BY InitQueue
<1>2. TypeOK /\ [Next]_vars => TypeOK'
  BY NextQueue
<1> QED BY <1>1, <1>2, PTL DEF Spec

\* The list of differences implements the bag of calls of timeout.9: what is inserted,
\* cancelled and counted down is what was asked for, and the calls are made in the order of
\* their deadlines, however late softclock is.
THEOREM QueueImplements == Spec => KeepsPromise
<1>1. Init => TypeOK /\ Promise!Init
  BY InitQueue DEF Init, Promise!Init, Pending
<1>2. TypeOK /\ [Next]_vars =>
        TypeOK' /\ [Promise!Next]_<<[e \in Entries |->
                                       Cardinality({i \in DOMAIN calltodo : Entry(i) = e})],
                                    calling>>
  BY NextQueue
<1> QED BY <1>1, <1>2, PTL DEF Spec, KeepsPromise, Promise!Spec

================================================================================
