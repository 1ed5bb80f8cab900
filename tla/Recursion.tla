------------------------------- MODULE Recursion -------------------------------
(***************************************************************************)
(* Induction and definition by recursion, up to a natural number, stated   *)
(* with sets and functions where the library has operators as parameters.  *)
(***************************************************************************)
EXTENDS Integers, WellFoundedInduction, TLAPS

\* A set of natural numbers that is not empty has a least element.
LEMMA Least ==
  ASSUME NEW T, T \subseteq Nat, T # {}
  PROVE  \E x \in T : \A y \in T : x <= y
<1>1. PICK x \in T : \A y \in T : ~(<<y, x>> \in OpToRel(<, Nat))
  BY NatLessThanWellFounded, WFMin, Zenon
<1>2. \A y \in T : ~(y < x)
  BY <1>1 DEF OpToRel
<1> QED BY <1>2

\* Induction up to n
LEMMA UpTo ==
  ASSUME NEW n \in Nat, NEW T, 0 \in T,
         \A k \in 1 .. n : k-1 \in T => k \in T
  PROVE  0 .. n \subseteq T
<1> SUFFICES ASSUME NEW m \in (0 .. n) \ T PROVE FALSE
  OBVIOUS
<1> DEFINE Rest == (0 .. n) \ T
<1>1. Rest \subseteq Nat /\ Rest # {}
  OBVIOUS
<1> HIDE DEF Rest
<1>2. PICK x \in Rest : \A y \in Rest : x <= y
  BY <1>1, Least, Zenon
<1>3. x \in 1 .. n /\ x-1 \in T
  BY <1>2 DEF Rest
<1> QED BY <1>3 DEF Rest

\* The function a starts with first and goes on with step up to n.
Iterates(a, n, first, step) ==
    a[0] = first /\ \A k \in 1 .. n : a[k] = step[<<k, a[k-1]>>]

\* There is such a function.
LEMMA Iteration ==
  ASSUME NEW n, n \in Nat, NEW S, NEW first, first \in S,
         NEW step, step \in [(1 .. n) \X S -> S]
  PROVE  \E a : a \in [0 .. n -> S] /\ Iterates(a, n, first, step)
<1> DEFINE Good(m, a) == a[0] = first /\ \A k \in 1 .. m : a[k] = step[<<k, a[k-1]>>]
           T == {m \in 0 .. n : \E a \in [0 .. m -> S] : Good(m, a)}
<1>1. 0 \in T
  <2> DEFINE a == [m \in 0 .. 0 |-> first]
  <2>1. a \in [0 .. 0 -> S]
    OBVIOUS
  <2>2. Good(0, a)
    OBVIOUS
  <2> HIDE DEF a, Good
  <2> QED BY <2>1, <2>2
<1>2. ASSUME NEW k \in 1 .. n, k-1 \in T PROVE k \in T
  <2>1. PICK a \in [0 .. k-1 -> S] : Good(k-1, a)
    BY <1>2
  <2> DEFINE last == step[<<k, a[k-1]>>]
             b == [m \in 0 .. k |-> IF m = k THEN last ELSE a[m]]
  <2>2. last \in S
    OBVIOUS
  <2>3. b \in [0 .. k -> S]
    <3> HIDE DEF last
    <3> QED BY <2>2
  <2>4. ASSUME NEW m \in 1 .. k PROVE b[m] = step[<<m, b[m-1]>>]
    <3> m-1 \in 0 .. k /\ m-1 # k /\ m \in 0 .. k
      OBVIOUS
    <3>1. CASE m = k
      BY <3>1
    <3>2. CASE m # k
      <4>1. m \in 1 .. k-1
        BY <3>2
      <4> QED BY <2>1, <4>1
    <3> QED BY <3>1, <3>2
  <2>5. Good(k, b)
    <3>1. b[0] = first
      BY <2>1
    <3> HIDE DEF b
    <3> QED BY <2>4, <3>1
  <2> HIDE DEF b, Good
  <2>6. k \in 0 .. n
    OBVIOUS
  <2> QED BY <2>3, <2>5, <2>6
<1> HIDE DEF T
<1>3. 0 .. n \subseteq T
  BY <1>1, <1>2, UpTo
<1>4. n \in T
  BY <1>3
<1> QED BY <1>4 DEF T, Iterates

================================================================================
