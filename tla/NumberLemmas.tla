---------------------------- MODULE NumberLemmas ----------------------------
(***************************************************************************)
(* Facts about numbers that several proofs need: what Min and Max of       *)
(* FiniteSetsExt return (they pick the next boundary, alias, lock, subject *)
(* and wake-up), induction, definition by recursion, and ascending order.  *)
(***************************************************************************)
EXTENDS Integers, FiniteSetsExt, FiniteSetTheorems, TLAPS, WellFoundedInduction

(* Min is the least element of a nonempty set of naturals. *)
LEMMA MinIsLeast ==
    ASSUME NEW S \in SUBSET Nat, S # {}
    PROVE  Min(S) \in S /\ \A x \in S : Min(S) <= x
<1>1. PICK m \in S : \A y \in S : ~(<<y, m>> \in OpToRel(<, Nat))
    BY NatLessThanWellFounded, WFMin
<1>2. \A y \in S : ~(y < m)
    BY <1>1, Zenon DEF OpToRel
<1>3. \A y \in S : m <= y
    BY <1>2
<1> QED
    BY <1>3 DEF Min

(* A nonempty set of naturals with a bound has a greatest element. *)
LEMMA BoundedHasGreatest ==
    ASSUME NEW S \in SUBSET Nat, S # {}, NEW n \in Nat, \A x \in S : x <= n
    PROVE  \E m \in S : \A x \in S : x <= m
<1> DEFINE D == { n - x : x \in S }
<1>1. D \in SUBSET Nat /\ D # {}
    <2>1. ASSUME NEW x \in S
          PROVE  n - x \in Nat
        <3>1. x \in Nat /\ x <= n
            OBVIOUS
        <3> QED
            BY <3>1
    <2> QED
        BY <2>1
<1>2. PICK d \in D : \A e \in D : d <= e
    BY <1>1, MinIsLeast
<1>3. PICK m \in S : d = n - m
    BY <1>2
<1>4. ASSUME NEW x \in S
      PROVE  x <= m
    <2>1. n - m <= n - x
        BY <1>2, <1>3
    <2>2. x \in Nat /\ m \in Nat
        BY <1>3
    <2> QED
        BY <2>1, <2>2
<1> QED
    BY <1>3, <1>4

(* Max is the greatest element, where there is one. *)
LEMMA MaxIsGreatest ==
    ASSUME NEW S \in SUBSET Int, NEW m \in S, \A x \in S : x <= m
    PROVE  Max(S) = m
<1>1. \A y \in S : m >= y
    OBVIOUS
<1>2. ASSUME NEW x \in S, \A y \in S : x >= y
      PROVE  x = m
    BY <1>1, <1>2
<1> QED
    BY <1>1, <1>2 DEF Max

(* Of two numbers. *)
LEMMA MaxOfTwo ==
    ASSUME NEW a \in Int, NEW b \in Int
    PROVE  Max({a, b}) = IF a <= b THEN b ELSE a
BY MaxIsGreatest

(* Of two naturals. *)
LEMMA MinOfTwo ==
    ASSUME NEW a \in Nat, NEW b \in Nat
    PROVE  Min({a, b}) = IF a <= b THEN a ELSE b
BY MinIsLeast

-----------------------------------------------------------------------------
(* Induction and recursion *)

(* A set that holds 0 and with every number the next one holds every number. *)
LEMMA Induction ==
    ASSUME NEW S, 0 \in S, \A n \in Nat : n \in S => n + 1 \in S
    PROVE  Nat \subseteq S
<1> SUFFICES ASSUME Nat \ S # {} PROVE FALSE
    OBVIOUS
<1> DEFINE m == Min(Nat \ S)
<1>1. m \in Nat \ S /\ \A x \in Nat \ S : m <= x
    BY MinIsLeast
<1> HIDE DEF m
<1>2. m # 0 /\ m - 1 \in Nat
    BY <1>1
<1>3. m - 1 \in S
    BY <1>1, <1>2
<1>4. (m - 1) + 1 \in S
    BY <1>2, <1>3
<1> QED
    BY <1>1, <1>2, <1>4

(* f follows the rule h from a up to n. *)
Follows(f, S, a, h, n) ==
    /\ f \in [0..n -> S] /\ f[0] = a
    /\ \A i \in 0..n : i < n => f[i + 1] = h[i][f[i]]

LEMMA FollowsUnique ==
    ASSUME NEW S, NEW a \in S, NEW h \in [Nat -> [S -> S]], NEW n \in Nat, NEW m \in Nat,
           NEW f, NEW g, Follows(f, S, a, h, n), Follows(g, S, a, h, m)
    PROVE  \A i \in Nat : i <= n /\ i <= m => f[i] = g[i]
<1> DEFINE T == { i \in Nat : i <= n /\ i <= m => f[i] = g[i] }
<1>1. 0 \in T
    BY DEF Follows
<1>2. ASSUME NEW i \in Nat, i \in T
      PROVE  i + 1 \in T
    <2> SUFFICES ASSUME i + 1 <= n, i + 1 <= m PROVE f[i + 1] = g[i + 1]
        BY <1>2
    <2>1. f[i] = g[i] /\ i \in 0..n /\ i \in 0..m /\ i < n /\ i < m
        BY <1>2
    <2>2. f[i + 1] = h[i][f[i]] /\ g[i + 1] = h[i][g[i]]
        BY <2>1 DEF Follows
    <2> QED
        BY <2>1, <2>2
<1> HIDE DEF T
<1>3. Nat \subseteq T
    BY <1>1, <1>2, Induction
<1> QED
    BY <1>3 DEF T

LEMMA FollowsExists ==
    ASSUME NEW S, NEW a \in S, NEW h \in [Nat -> [S -> S]], NEW n \in Nat
    PROVE  \E f : Follows(f, S, a, h, n)
<1> DEFINE T == { k \in Nat : \E f : Follows(f, S, a, h, k) }
<1>1. 0 \in T
    <2> DEFINE f == [i \in 0..0 |-> a]
    <2>1. f \in [0..0 -> S] /\ f[0] = a /\ \A i \in 0..0 : ~(i < 0)
        OBVIOUS
    <2> HIDE DEF f
    <2>2. Follows(f, S, a, h, 0)
        BY <2>1 DEF Follows
    <2> QED
        BY <2>2
<1>2. ASSUME NEW k \in Nat, k \in T
      PROVE  k + 1 \in T
    <2>1. PICK f : Follows(f, S, a, h, k)
        BY <1>2
    <2> DEFINE g == [i \in 0..(k + 1) |-> IF i <= k THEN f[i] ELSE h[k][f[k]]]
    <2>2. f \in [0..k -> S] /\ f[0] = a
        BY <2>1 DEF Follows
    <2>3. f[k] \in S /\ h[k][f[k]] \in S
        BY <2>2
    <2>4. g \in [0..(k + 1) -> S] /\ g[0] = a
        BY <2>2, <2>3
    <2>5. ASSUME NEW i \in 0..(k + 1), i < k + 1
          PROVE  g[i + 1] = h[i][g[i]]
        <3>1. i \in 0..k /\ g[i] = f[i]
            BY <2>5
        <3>2. CASE i < k
            <4>1. f[i + 1] = h[i][f[i]]
                BY <2>1, <3>1, <3>2 DEF Follows
            <4>2. g[i + 1] = f[i + 1]
                BY <3>1, <3>2
            <4> QED
                BY <3>1, <4>1, <4>2
        <3>3. CASE i = k
            <4>1. g[k + 1] = h[k][f[k]]
                OBVIOUS
            <4> QED
                BY <3>1, <3>3, <4>1
        <3> QED
            BY <3>1, <3>2, <3>3
    <2> HIDE DEF g
    <2>6. Follows(g, S, a, h, k + 1)
        BY <2>4, <2>5 DEF Follows
    <2> QED
        BY <2>6
<1> HIDE DEF T
<1>3. Nat \subseteq T
    BY <1>1, <1>2, Induction
<1> QED
    BY <1>3 DEF T

(* The functions that follow the rule up to one number and the next agree. *)
LEMMA FollowsAgree ==
    ASSUME NEW S, NEW a \in S, NEW h \in [Nat -> [S -> S]],
           NEW part, \A n \in Nat : Follows(part[n], S, a, h, n), NEW n \in Nat
    PROVE  part[n + 1][n] = part[n][n]
<1> DEFINE m == n + 1
           p == part[n]
           q == part[m]
<1>1. m \in Nat /\ n <= n /\ n <= m
    OBVIOUS
<1>2. Follows(p, S, a, h, n) /\ Follows(q, S, a, h, m)
    BY <1>1
<1> HIDE DEF m, p, q
<1>3. p[n] = q[n]
    BY <1>1, <1>2, FollowsUnique
<1> QED
    BY <1>3 DEF m, p, q

(* f follows the rule h from a for ever. *)
Recurs(f, S, a, h) ==
    f \in [Nat -> S] /\ f[0] = a /\ \A n \in Nat : f[n + 1] = h[n][f[n]]

(* A first value and a rule for the next one define a function on Nat. *)
LEMMA Recursion ==
    ASSUME NEW S, NEW a \in S, NEW h \in [Nat -> [S -> S]]
    PROVE  \E f : Recurs(f, S, a, h)
<1> DEFINE part == [n \in Nat |-> CHOOSE f : Follows(f, S, a, h, n)]
           whole == [n \in Nat |-> part[n][n]]
<1>1. \A n \in Nat : Follows(part[n], S, a, h, n)
    BY FollowsExists
<1> HIDE DEF part
<1>2. whole \in [Nat -> S]
    <2>1. ASSUME NEW n \in Nat PROVE part[n][n] \in S
        <3>1. n \in 0..n /\ part[n] \in [0..n -> S]
            BY <1>1 DEF Follows
        <3> QED
            BY <3>1
    <2> QED
        BY <2>1
<1>3. whole[0] = a
    <2>1. whole[0] = part[0][0]
        OBVIOUS
    <2> QED
        BY <1>1, <2>1 DEF Follows
<1>4. ASSUME NEW n \in Nat
      PROVE  whole[n + 1] = h[n][whole[n]]
    <2>1. part[n + 1][n] = part[n][n]
        BY <1>1, FollowsAgree
    <2>2. part[n + 1][n + 1] = h[n][part[n + 1][n]]
        <3>1. Follows(part[n + 1], S, a, h, n + 1) /\ n \in 0..(n + 1) /\ n < n + 1
            BY <1>1
        <3> QED
            BY <3>1 DEF Follows
    <2>3. whole[n] = part[n][n] /\ whole[n + 1] = part[n + 1][n + 1]
        OBVIOUS
    <2> QED
        BY <2>1, <2>2, <2>3
<1> HIDE DEF whole
<1>5. Recurs(whole, S, a, h)
    BY <1>2, <1>3, <1>4 DEF Recurs
<1> QED
    BY <1>5

(* f sums up the first elements of v, one after the other. *)
Sums(f, v, n) ==
    f \in [0..n -> Nat] /\ f[0] = 0 /\ \A i \in 1..n : i - 1 \in 0..n /\ f[i] = f[i - 1] + v[i]

(* Every sequence of numbers has its sums. *)
LEMMA PartialSums ==
    ASSUME NEW n \in Nat, NEW v \in [1..n -> Nat]
    PROVE  \E f : Sums(f, v, n)
<1> DEFINE Step(i, x) == IF i < n THEN x + v[i + 1] ELSE x
           h == [i \in Nat |-> [x \in Nat |-> Step(i, x)]]
<1>1. h \in [Nat -> [Nat -> Nat]]
    <2>1. ASSUME NEW i \in Nat, NEW x \in Nat
          PROVE  Step(i, x) \in Nat
        <3>1. CASE i < n
            <4>1. i + 1 \in 1..n
                BY <3>1
            <4> QED
                BY <3>1, <4>1
        <3> QED
            BY <3>1
    <2> HIDE DEF Step
    <2> QED
        BY <2>1
<1>2. PICK d : Recurs(d, Nat, 0, h)
    <2> HIDE DEF h
    <2>1. 0 \in Nat
        OBVIOUS
    <2> QED
        BY <1>1, <2>1, Recursion
<1>3. d \in [Nat -> Nat] /\ d[0] = 0 /\ \A i \in Nat : d[i + 1] = Step(i, d[i])
    BY <1>2 DEF Recurs
<1> HIDE DEF h
<1> DEFINE f == [i \in 0..n |-> d[i]]
<1>4. ASSUME NEW i \in 1..n
      PROVE  i - 1 \in 0..n /\ d[i] = d[i - 1] + v[i]
    <2>1. i - 1 \in Nat /\ i - 1 < n /\ (i - 1) + 1 = i
        BY <1>4
    <2> QED
        BY <1>3, <2>1
<1>5. 0 \in 0..n /\ \A i \in 1..n : i \in 0..n
    OBVIOUS
<1>6. f \in [0..n -> Nat] /\ f[0] = 0
    <2>1. d \in [Nat -> Nat] /\ d[0] = 0
        BY <1>3
    <2>2. \A i \in 0..n : d[i] \in Nat
        BY <2>1
    <2> QED
        BY <1>5, <2>1, <2>2
<1>7. \A i \in 1..n : f[i] = f[i - 1] + v[i]
    BY <1>4, <1>5
<1> HIDE DEF f
<1>8. Sums(f, v, n)
    BY <1>4, <1>6, <1>7, Zenon DEF Sums
<1> QED
    BY <1>8
-----------------------------------------------------------------------------
(* Ascending sequences *)

Ascends(s, S, n) == s \in [1..n -> S] /\ \A i, j \in 1..n : i < j => s[i] < s[j]

(* A finite set of numbers can be put in order. *)
LEMMA AscendingExists ==
    ASSUME NEW S \in SUBSET Nat, IsFiniteSet(S)
    PROVE  \E s : Ascends(s, S, Cardinality(S))
<1> DEFINE T == { n \in Nat : \A U \in SUBSET Nat :
                     IsFiniteSet(U) /\ Cardinality(U) = n => \E s : Ascends(s, U, n) }
<1>1. 0 \in T
    <2>1. ASSUME NEW U \in SUBSET Nat
          PROVE  Ascends([i \in 1..0 |-> 0], U, 0)
        BY DEF Ascends
    <2> QED
        BY <2>1
<1>2. ASSUME NEW n \in Nat, n \in T
      PROVE  n + 1 \in T
    <2> SUFFICES ASSUME NEW U \in SUBSET Nat, IsFiniteSet(U), Cardinality(U) = n + 1
                 PROVE  \E s : Ascends(s, U, n + 1)
        OBVIOUS
    <2> DEFINE m == Min(U)
               V == U \ {m}
    <2>1. m \in U /\ \A x \in U : m <= x
        <3>1. U # {}
            BY FS_EmptySet
        <3> QED
            BY <3>1, MinIsLeast
    <2>2. IsFiniteSet(V) /\ Cardinality(V) = n /\ V \in SUBSET Nat
        <3> HIDE DEF m
        <3> QED
            BY <2>1, FS_RemoveElement
    <2>3. PICK s : Ascends(s, V, n)
        <3> HIDE DEF V
        <3> QED
            BY <1>2, <2>2
    <2> HIDE DEF m
    <2> DEFINE t == [i \in 1..(n + 1) |-> IF i = 1 THEN m ELSE s[i - 1]]
    <2>4. ASSUME NEW i \in 1..(n + 1), i # 1
          PROVE  i - 1 \in 1..n /\ s[i - 1] \in U /\ m < s[i - 1]
        <3>1. i - 1 \in 1..n
            BY <2>4
        <3>2. s[i - 1] \in V
            BY <2>3, <3>1 DEF Ascends
        <3> DEFINE x == s[i - 1]
        <3>3. x \in U /\ x # m
            BY <3>2
        <3> HIDE DEF x
        <3>4. x \in Nat /\ m \in Nat /\ m <= x
            BY <2>1, <3>3
        <3>5. m < x
            BY <3>3, <3>4
        <3> QED
            BY <3>1, <3>3, <3>5 DEF x
    <2>5. t \in [1..(n + 1) -> U]
        BY <2>1, <2>4
    <2>6. ASSUME NEW i \in 1..(n + 1), NEW j \in 1..(n + 1), i < j
          PROVE  t[i] < t[j]
        <3>1. j # 1 /\ t[j] = s[j - 1]
            BY <2>6
        <3>2. CASE i = 1
            BY <2>4, <3>1, <3>2
        <3>3. CASE i # 1
            <4>1. i - 1 \in 1..n /\ j - 1 \in 1..n /\ i - 1 < j - 1
                BY <2>6, <3>3
            <4> QED
                BY <2>3, <3>1, <3>3, <4>1 DEF Ascends
        <3> QED
            BY <3>2, <3>3
    <2> HIDE DEF t
    <2>7. Ascends(t, U, n + 1)
        BY <2>5, <2>6 DEF Ascends
    <2> QED
        BY <2>7
<1>3. Cardinality(S) \in T
    <2> HIDE DEF T
    <2> QED
        BY <1>1, <1>2, FS_CardinalityType, Induction
<1> QED
    BY <1>3

(* An ascending sequence as long as the set names each of its elements once. *)
LEMMA AscendingIsOnto ==
    ASSUME NEW S \in SUBSET Nat, IsFiniteSet(S), NEW s, Ascends(s, S, Cardinality(S))
    PROVE  /\ \A i, j \in 1..Cardinality(S) : s[i] = s[j] => i = j
           /\ \A x \in S : \E i \in 1..Cardinality(S) : s[i] = x
<1> DEFINE n == Cardinality(S)
<1>1. n \in Nat
    BY FS_CardinalityType
<1>2. IsFiniteSet(1..n) /\ Cardinality(1..n) = n
    BY <1>1, FS_Interval
<1>3. ASSUME NEW i \in 1..n, NEW j \in 1..n, s[i] = s[j]
      PROVE  i = j
    <2>1. s[i] \in Nat /\ s[j] \in Nat
        BY DEF Ascends
    <2>2. ~(i < j) /\ ~(j < i)
        BY <1>3, <2>1 DEF Ascends
    <2> QED
        BY <1>1, <2>2
<1>4. s \in Injection(1..n, S)
    BY <1>3 DEF Ascends, Injection, IsInjective
<1>5. s \in Surjection(1..n, S)
    BY <1>2, <1>4, FS_Injection
<1> QED
    BY <1>3, <1>5 DEF Surjection
=============================================================================
