-------------------------------- MODULE Numbers -------------------------------
(***************************************************************************)
(* The least and the greatest of a set of numbers.                         *)
(***************************************************************************)
EXTENDS Integers, FiniteSetsExt, WellFoundedInduction, TLAPS

LEMMA LessIsWellFounded == IsWellFoundedOn({ss \in Nat \X Nat : ss[1] < ss[2]}, Nat)
BY NatLessThanWellFounded DEF OpToRel

\* A bounded set of numbers has a greatest.
LEMMA GreatestExists ==
    ASSUME NEW n \in Nat, NEW B, B \subseteq 0..n, B # {}
    PROVE  Max(B) \in B /\ \A j \in B : j <= Max(B)
<1> DEFINE Less == {ss \in Nat \X Nat : ss[1] < ss[2]}
           T == {n - i : i \in B}
<1>1. IsWellFoundedOn(Less, Nat)
  BY LessIsWellFounded
<1>2. T \subseteq Nat /\ T # {}
  <2>1. \A i \in B : n - i \in Nat
    OBVIOUS
  <2>2. PICK i \in B : TRUE
    OBVIOUS
  <2>3. n - i \in T
    OBVIOUS
  <2> QED
    BY <2>1, <2>3
<1>3. \E x \in T : \A y \in T : ~(<<y, x>> \in Less)
  <2> HIDE DEF T, Less
  <2> QED
    BY <1>1, <1>2, WFMin
<1>4. PICK i \in B : \A j \in B : ~(<<n - j, n - i>> \in Less)
  BY <1>3
<1>5. \A j \in B : j \in Nat /\ n - j \in Nat
  OBVIOUS
<1>6. \A j \in B : ~(n - j < n - i)
  BY <1>4, <1>5
<1>7. \E x \in B : \A y \in B : x >= y
  BY <1>5, <1>6
<1> QED
  BY <1>5, <1>7 DEF Max

LEMMA TheGreatest ==
    ASSUME NEW n \in Nat, NEW B, B \subseteq 0..n, B # {}
    PROVE  Max(B) \in Nat /\ \A x \in B : (\A y \in B : y <= x) => Max(B) = x
<1>1. PICK m \in B : m = Max(B) /\ \A y \in B : y <= m
  BY GreatestExists
<1>2. \A y \in B : y \in Nat
  OBVIOUS
<1>3. \A x \in B : (\A y \in B : y <= x) => m = x
  BY <1>1, <1>2
<1> QED
  BY <1>1, <1>2, <1>3

\* A set of numbers has a least.
LEMMA LeastExists ==
    ASSUME NEW B, B \subseteq Nat, B # {}
    PROVE  \E x \in B : \A y \in B : x <= y
<1> DEFINE Less == {ss \in Nat \X Nat : ss[1] < ss[2]}
<1>1. \E x \in B : \A y \in B : ~(<<y, x>> \in Less)
  <2>1. IsWellFoundedOn(Less, Nat)
    BY LessIsWellFounded
  <2> HIDE DEF Less
  <2> QED
    BY <2>1, WFMin
<1>2. PICK x \in B : \A y \in B : ~(<<y, x>> \in Less)
  BY <1>1
<1>3. \A y \in B : y \in Nat /\ x \in Nat
  OBVIOUS
<1>4. \A y \in B : ~(y < x)
  BY <1>2, <1>3
<1> QED
  BY <1>3, <1>4

\* Induction, for a set.
LEMMA NaturalsByInduction ==
    ASSUME NEW P, 0 \in P, \A n \in Nat : n \in P => n + 1 \in P
    PROVE  \A n \in Nat : n \in P
<1> DEFINE B == {n \in Nat : n \notin P}
<1>1. SUFFICES ASSUME B # {} PROVE FALSE
  OBVIOUS
<1>2. PICK n \in B : \A k \in B : n <= k
  <2>1. B \subseteq Nat
    OBVIOUS
  <2> HIDE DEF B
  <2> QED
    BY <1>1, <2>1, LeastExists
<1>3. PICK k \in Nat : n = k + 1
  <2>1. n \in Nat /\ n # 0
    OBVIOUS
  <2>2. n - 1 \in Nat /\ n = (n - 1) + 1
    BY <2>1
  <2> QED
    BY <2>2
<1>4. k \notin B
  BY <1>2, <1>3
<1> QED
  BY <1>3, <1>4

\* The same up to a bound.
LEMMA SegmentByInduction ==
    ASSUME NEW N \in Nat, NEW P, 0 \in P,
           \A n \in Nat : n < N /\ n \in P => n + 1 \in P
    PROVE  \A n \in 0..N : n \in P
<1> DEFINE Q == {n \in Nat : n <= N => n \in P}
<1>1. 0 \in Q
  OBVIOUS
<1>2. \A n \in Nat : n \in Q => n + 1 \in Q
  OBVIOUS
<1>3. \A n \in Nat : n \in Q
  <2> HIDE DEF Q
  <2> QED
    BY <1>1, <1>2, NaturalsByInduction
<1> QED
  BY <1>3

\* A function that takes each value from the one before it exists, on a segment
\* of the naturals or on all of them.
Unfolds(I, a, S, f) == \A n \in I : f[n] = IF n = 0 THEN a ELSE S[<<n, f[n - 1]>>]
LEMMA RecursionWorks ==
    ASSUME NEW I, I = Nat \/ \E N \in Nat : I = 0..N,
           NEW D, NEW a \in D, NEW S \in [Nat \X D -> D]
    PROVE  \E f \in [I -> D] : Unfolds(I, a, S, f)
<1> DEFINE Good(f, k) == f[0] = a /\ \A n \in Nat, l \in Nat : l < k /\ n = l + 1 => f[n] = S[<<n, f[l]>>]
           P == {k \in Nat : \E f \in [Nat -> D] : Good(f, k)}
<1>1. 0 \in P
  <2>1. [n \in Nat |-> a] \in [Nat -> D] /\ Good([n \in Nat |-> a], 0)
    OBVIOUS
  <2> QED
    BY <2>1
<1>2. ASSUME NEW k \in Nat, k \in P PROVE k + 1 \in P
  <2>1. PICK f \in [Nat -> D] : Good(f, k)
    BY <1>2
  <2>2. PICK e \in Nat : e = k + 1
    OBVIOUS
  <2>3. PICK g : g = [n \in Nat |-> IF n = e THEN S[<<e, f[k]>>] ELSE f[n]]
    OBVIOUS
  <2>4. g \in [Nat -> D]
    BY <2>1, <2>3
  <2>5. g[0] = a
    BY <2>1, <2>2, <2>3
  <2>6. ASSUME NEW n \in Nat, NEW l \in Nat, l < e, n = l + 1 PROVE g[n] = S[<<n, g[l]>>]
    <3>1. g[l] = f[l]
      BY <2>3, <2>6
    <3>2. CASE l = k
      <4>1. n = e
        BY <2>2, <2>6, <3>2
      <4> QED
        BY <2>3, <3>1, <3>2, <4>1
    <3>3. CASE l # k
      <4>1. l < k /\ n # e
        BY <2>2, <2>6, <3>3
      <4>2. g[n] = f[n]
        BY <2>3, <4>1
      <4>3. f[n] = S[<<n, f[l]>>]
        BY <2>1, <2>6, <4>1
      <4> QED
        BY <3>1, <4>2, <4>3
    <3> QED
      BY <3>2, <3>3
  <2>7. Good(g, e)
    BY <2>5, <2>6
  <2> QED
    BY <2>2, <2>4, <2>7
<1>3. \A k \in Nat : \E f \in [Nat -> D] : Good(f, k)
  <2>1. \A k \in Nat : k \in P
    <3> HIDE DEF P
    <3> QED
      BY <1>1, <1>2, NaturalsByInduction
  <2> QED
    BY <2>1
<1>4. ASSUME NEW k \in Nat, NEW l \in Nat, NEW f \in [Nat -> D], NEW g \in [Nat -> D],
             Good(f, k), Good(g, l)
      PROVE  \A n \in Nat : n <= k /\ n <= l => f[n] = g[n]
  <2> DEFINE Q == {n \in Nat : n <= k /\ n <= l => f[n] = g[n]}
  <2>1. 0 \in Q
    BY <1>4
  <2>2. ASSUME NEW n \in Nat, n \in Q PROVE n + 1 \in Q
    <3>1. PICK e \in Nat : e = n + 1
      OBVIOUS
    <3>2. ASSUME e <= k, e <= l PROVE f[e] = g[e]
      <4>1. n < k /\ n < l /\ f[n] = g[n]
        BY <2>2, <3>1, <3>2
      <4>2. f[e] = S[<<e, f[n]>>] /\ g[e] = S[<<e, g[n]>>]
        BY <1>4, <3>1, <4>1
      <4> QED
        BY <4>1, <4>2
    <3> QED
      BY <3>1, <3>2
  <2>3. \A n \in Nat : n \in Q
    <3> HIDE DEF Q
    <3> QED
      BY <2>1, <2>2, NaturalsByInduction
  <2> QED
    BY <2>3
<1>5. PICK Upto : \A k \in Nat : Upto[k] \in [Nat -> D] /\ Good(Upto[k], k)
  <2> DEFINE U == [k \in Nat |-> CHOOSE f \in [Nat -> D] : Good(f, k)]
  <2>1. \A k \in Nat : U[k] \in [Nat -> D] /\ Good(U[k], k)
    BY <1>3
  <2> HIDE DEF U, Good
  <2> QED
    BY <2>1
<1>6. PICK F : F = [n \in Nat |-> Upto[n][n]]
  OBVIOUS
<1>7. F \in [Nat -> D]
  BY <1>5, <1>6
<1>8. F[0] = a
  BY <1>5, <1>6
<1>9. ASSUME NEW n \in Nat, NEW l \in Nat, n = l + 1 PROVE F[n] = S[<<n, F[l]>>]
  <2>1. PICK f \in [Nat -> D] : f = Upto[n] /\ Good(f, n)
    BY <1>5
  <2>2. PICK g \in [Nat -> D] : g = Upto[l] /\ Good(g, l)
    BY <1>5
  <2>3. f[l] = g[l]
    <3>1. l <= n /\ l <= l
      BY <1>9
    <3> HIDE DEF Good
    <3> QED
      BY <1>4, <2>1, <2>2, <3>1
  <2>4. f[n] = S[<<n, f[l]>>]
    BY <1>9, <2>1
  <2> QED
    BY <1>6, <2>1, <2>2, <2>3, <2>4
<1>10. I \subseteq Nat
  OBVIOUS
<1>11. ASSUME NEW n \in I, n # 0 PROVE n - 1 \in I /\ n - 1 \in Nat /\ n = (n - 1) + 1
  BY <1>11
<1>12. PICK f : f = [n \in I |-> F[n]]
  OBVIOUS
<1>13. f \in [I -> D]
  BY <1>7, <1>10, <1>12
<1>14. ASSUME NEW n \in I PROVE f[n] = IF n = 0 THEN a ELSE S[<<n, f[n - 1]>>]
  <2>1. CASE n = 0
    BY <1>8, <1>12, <2>1
  <2>2. CASE n # 0
    <3>1. PICK l \in Nat : l = n - 1 /\ n = l + 1 /\ l \in I
      BY <1>11, <2>2
    <3>2. F[n] = S[<<n, F[l]>>]
      BY <1>9, <1>10, <3>1
    <3> QED
      BY <1>12, <2>2, <3>1, <3>2
  <2> QED
    BY <2>1, <2>2
<1>15. Unfolds(I, a, S, f)
  BY <1>14 DEF Unfolds
<1> QED
  BY <1>13, <1>15

===============================================================================
