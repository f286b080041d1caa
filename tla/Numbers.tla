------------------------------- MODULE Numbers -------------------------------
(***************************************************************************)
(* Lemmas about quotients and remainders, for the proofs about rings,      *)
(* pages of lists and rows of bytes; and induction over the numbers, for   *)
(* the loops of the code that are recursive functions here.  A theorem on  *)
(* induction that takes an operator cannot be used, but one about sets     *)
(* can: a set with 0 and the successors of its members is all of Nat.      *)
(***************************************************************************)
EXTENDS Integers, FiniteSetsExt, FiniteSetTheorems, TLAPS

(* A number is its quotient and its remainder.                             *)
LEMMA DivMod ==
  ASSUME NEW a \in Int, NEW s \in Nat \ {0}
  PROVE  a = s * (a \div s) + (a % s) /\ a % s \in 0 .. s - 1 /\ a \div s \in Int
OBVIOUS

(* There is only one such quotient and remainder.                          *)
LEMMA DivModUnique ==
  ASSUME NEW s \in Nat \ {0}, NEW q \in Int, NEW r \in 0 .. s - 1, NEW p \in Int, NEW t \in 0 .. s - 1,
         s * q + r = s * p + t
  PROVE  q = p /\ r = t
<1>1. s * (q - p) = t - r
  OBVIOUS
<1>2. CASE q - p >= 1
  <2>1. s * (q - p) >= s
    BY <1>2
  <2>. QED
    BY <1>1, <2>1
<1>3. CASE q - p <= -1
  <2>1. s * (p - q) >= s
    BY <1>3
  <2>2. s * (p - q) = - (s * (q - p))
    OBVIOUS
  <2>. QED
    BY <1>1, <2>1, <2>2
<1>. QED
  BY <1>2, <1>3

(* So they can be read off a number that is written that way.              *)
LEMMA DivModOf ==
  ASSUME NEW s \in Nat \ {0}, NEW q \in Int, NEW r \in 0 .. s - 1
  PROVE  (s * q + r) % s = r /\ (s * q + r) \div s = q
<1> DEFINE a == s * q + r
<1>1. a \in Int
  OBVIOUS
<1>2. a = s * (a \div s) + (a % s) /\ a % s \in 0 .. s - 1 /\ a \div s \in Int
  BY <1>1, DivMod
<1>. QED
  BY <1>2, DivModUnique

-----------------------------------------------------------------------------
(* A set of numbers that is not empty has a least one.                     *)
LEMMA LeastOf ==
  ASSUME NEW S \in SUBSET Nat, S # {}
  PROVE  \E n \in S : \A m \in S : n <= m
<1>1. PICK n \in S : \A m \in S : ~ (<<m, n>> \in OpToRel(<, Nat))
  BY NatLessThanWellFounded, WFMin, Zenon
<1>2. ASSUME NEW m \in S PROVE n <= m
  <2>1. ~ (m < n)
    BY <1>1 DEF OpToRel
  <2>. QED
    BY <2>1
<1>. QED
  BY <1>2

(* The greatest and the least of finitely many numbers.                    *)
LEMMA GreatestOf ==
  ASSUME NEW S, NEW n \in Nat, S \subseteq 0 .. n, S # {}
  PROVE  Max(S) \in S /\ \A m \in S : m <= Max(S)
<1> DEFINE T == {n - m : m \in S}
<1>0. \A m \in S : n - m \in Nat
  BY SMT
<1>1. T \in SUBSET Nat /\ T # {}
  BY <1>0, Zenon
<1>2. PICK k \in T : \A j \in T : k <= j
  BY <1>1, LeastOf
<1>3. PICK m0 \in S : k = n - m0
  BY <1>2
<1>4. \A m \in S : m0 >= m
  BY <1>2, <1>3
<1>5. \E x \in S : \A y \in S : x >= y
  BY <1>4
<1> HIDE DEF T
<1>6. Max(S) \in S /\ \A y \in S : Max(S) >= y
  BY <1>5, Zenon DEF Max
<1>. QED
  BY <1>6

(* The least of some numbers.                                              *)
LEMMA SmallestOf ==
  ASSUME NEW S \in SUBSET Nat, S # {}
  PROVE  Min(S) \in S /\ \A m \in S : Min(S) <= m
<1>1. \E x \in S : \A y \in S : x =< y
  BY LeastOf
<1>. QED
  BY <1>1, Zenon DEF Min

(* Induction over the numbers.                                             *)
LEMMA Induction ==
  ASSUME NEW S \in SUBSET Nat, 0 \in S, \A n \in S : n + 1 \in S
  PROVE  S = Nat
<1> SUFFICES ASSUME Nat \ S # {} PROVE FALSE
  OBVIOUS
<1>1. PICK n \in Nat \ S : \A m \in Nat \ S : n <= m
  BY LeastOf
<1>2. n # 0 /\ n - 1 \in Nat /\ n - 1 + 1 = n
  OBVIOUS
<1>3. n - 1 \notin Nat \ S
  BY <1>1, <1>2
<1>. QED
  BY <1>2, <1>3

(* Induction up to a number.                                               *)
LEMMA InductionUpTo ==
  ASSUME NEW N \in Nat, NEW S, 0 \in S, \A n \in 1 .. N : n - 1 \in S => n \in S
  PROVE  0 .. N \subseteq S
<1> DEFINE T == {n \in Nat : n <= N => n \in S}
<1>1. 0 \in T
  BY SMT
<1>2. ASSUME NEW n \in T PROVE n + 1 \in T
  <2>1. PICK m : m = n + 1
    BY Zenon
  <2>2. m \in Nat /\ n \in Nat /\ m - 1 = n
    BY <2>1, SMT
  <2>3. ASSUME m <= N PROVE m \in S
    <3>1. n <= N /\ m \in 1 .. N
      BY <2>1, <2>2, <2>3, SMT
    <3>2. n \in S
      BY <3>1, Zenon
    <3>. QED
      BY <2>2, <3>1, <3>2, Zenon
  <2>. QED
    BY <2>1, <2>2, <2>3, Zenon
<1>3. T = Nat
  <2>1. T \in SUBSET Nat
    BY Zenon
  <2> HIDE DEF T
  <2>. QED
    BY <1>1, <1>2, <2>1, Induction, Zenon
<1>4. \A n \in 0 .. N : n \in Nat /\ n <= N
  BY SMT
<1>. QED
  BY <1>3, <1>4, Zenon

(* A function that starts with first and goes on as next says, up to n.     *)
IsUpTo(V, first, next, n, f) ==
  /\ f \in [0 .. n -> V]
  /\ f[0] = first
  /\ \A m \in 1 .. n : f[m] = next[m][f[m - 1]]

(* Two of them agree as far as both go.                                    *)
LEMMA UpToIsUnique ==
  ASSUME NEW V, NEW first, NEW next, NEW k \in Nat, NEW n \in Nat, NEW f, NEW g,
         IsUpTo(V, first, next, k, f), IsUpTo(V, first, next, n, g)
  PROVE  \A m \in 0 .. k : m <= n => f[m] = g[m]
<1> DEFINE S == {m \in Nat : m <= k /\ m <= n => f[m] = g[m]}
<1>1. 0 \in S
  BY DEF IsUpTo
<1>2. ASSUME NEW m \in S PROVE m + 1 \in S
  <2> SUFFICES ASSUME m + 1 <= k, m + 1 <= n PROVE f[m + 1] = g[m + 1]
    OBVIOUS
  <2>1. m + 1 \in 1 .. k /\ m + 1 \in 1 .. n /\ m + 1 - 1 = m
    OBVIOUS
  <2>2. f[m] = g[m]
    BY <2>1
  <2>3. f[m + 1] = next[m + 1][f[m]]
    BY <2>1 DEF IsUpTo
  <2>4. g[m + 1] = next[m + 1][g[m]]
    BY <2>1 DEF IsUpTo
  <2>. QED
    BY <2>2, <2>3, <2>4
<1>3. S = Nat
  <2>1. S \in SUBSET Nat
    OBVIOUS
  <2> HIDE DEF S
  <2>. QED
    BY <1>1, <1>2, <2>1, Induction
<1>. QED
  BY <1>3

(* There is one up to any number.                                          *)
LEMMA UpToExists ==
  ASSUME NEW V, NEW first \in V, NEW next, \A n \in Nat : \A v \in V : next[n][v] \in V
  PROVE  \A n \in Nat : \E f : IsUpTo(V, first, next, n, f)
<1> DEFINE S == {n \in Nat : \E f : IsUpTo(V, first, next, n, f)}
<1>1. 0 \in S
  <2>1. IsUpTo(V, first, next, 0, [m \in 0 .. 0 |-> first])
    BY DEF IsUpTo
  <2>. QED
    BY <2>1
<1>2. ASSUME NEW n \in S PROVE n + 1 \in S
  <2>1. PICK f : IsUpTo(V, first, next, n, f)
    OBVIOUS
  <2> DEFINE g == [m \in 0 .. n + 1 |-> IF m = n + 1 THEN next[n + 1][f[n]] ELSE f[m]]
  <2>2. f[n] \in V
    BY <2>1 DEF IsUpTo
  <2>3. g \in [0 .. n + 1 -> V]
    <3>1. \A m \in 0 .. n + 1 : m # n + 1 => m \in 0 .. n
      OBVIOUS
    <3>. QED
      BY <2>1, <2>2, <3>1 DEF IsUpTo
  <2>4. g[0] = first
    BY <2>1 DEF IsUpTo
  <2>5. ASSUME NEW m \in 1 .. n + 1 PROVE g[m] = next[m][g[m - 1]]
    <3>1. CASE m = n + 1
      <4>1. n \in 0 .. n + 1 /\ n # n + 1 /\ m - 1 = n /\ m \in 0 .. n + 1
        BY <3>1
      <4>2. g[m - 1] = f[n]
        BY <4>1
      <4>3. g[m] = next[n + 1][f[n]]
        BY <3>1, <4>1
      <4>. QED
        BY <3>1, <4>2, <4>3
    <3>2. CASE m # n + 1
      <4>1. m \in 1 .. n /\ m - 1 \in 0 .. n + 1 /\ m - 1 # n + 1 /\ m \in 0 .. n + 1
        BY <3>2
      <4>2. f[m] = next[m][f[m - 1]]
        BY <2>1, <4>1 DEF IsUpTo
      <4>. QED
        BY <3>2, <4>1, <4>2
    <3>. QED
      BY <3>1, <3>2
  <2> HIDE DEF g
  <2>6. IsUpTo(V, first, next, n + 1, g)
    BY <2>3, <2>4, <2>5 DEF IsUpTo
  <2>. QED
    BY <2>6
<1>3. S = Nat
  <2>1. S \in SUBSET Nat
    OBVIOUS
  <2> HIDE DEF S
  <2>. QED
    BY <1>1, <1>2, <2>1, Induction
<1>. QED
  BY <1>3

(* A function up to n is such if it goes on so from whatever is in V.      *)
LEMMA FunctionUpTo ==
  ASSUME NEW V, NEW first \in V, NEW next, NEW n \in Nat, NEW f,
         \A i \in 1 .. n : \A v \in V : next[i][v] \in V,
         f = [i \in 0 .. n |-> f[i]], f[0] = first,
         \A i \in 1 .. n : f[i - 1] \in V => f[i] = next[i][f[i - 1]]
  PROVE  IsUpTo(V, first, next, n, f)
<1> DEFINE S == {i \in 0 .. n : f[i] \in V}
<1>1. 0 \in S
  <2>1. 0 \in 0 .. n
    BY SMT
  <2>. QED
    BY <2>1, Zenon
<1>2. ASSUME NEW i \in 1 .. n, i - 1 \in S PROVE i \in S
  <2>1. i \in 0 .. n
    BY SMT
  <2>2. f[i - 1] \in V
    BY <1>2, Zenon
  <2>3. f[i] \in V
    BY <2>2, Zenon
  <2>. QED
    BY <2>1, <2>3, Zenon
<1>3. 0 .. n \subseteq S
  <2> HIDE DEF S
  <2>. QED
    BY <1>1, <1>2, InductionUpTo, Zenon
<1>4. \A i \in 0 .. n : f[i] \in V
  BY <1>3, Zenon
<1>5. \A i \in 1 .. n : i - 1 \in 0 .. n
  BY SMT
<1>6. f \in [0 .. n -> V]
  BY <1>4, Zenon
<1>. QED
  BY <1>4, <1>5, <1>6, Zenon DEF IsUpTo

(* So there is one over all numbers: recursion defines a function.         *)
IsRecursion(V, first, next, f) ==
  /\ f \in [Nat -> V]
  /\ f[0] = first
  /\ \A n \in Nat \ {0} : f[n] = next[n][f[n - 1]]

LEMMA Recursion ==
  ASSUME NEW V, NEW first \in V, NEW next, \A n \in Nat : \A v \in V : next[n][v] \in V
  PROVE  \E f : IsRecursion(V, first, next, f)
<1> DEFINE upTo(n) == CHOOSE f : IsUpTo(V, first, next, n, f)
           f == [n \in Nat |-> upTo(n)[n]]
<1>1. ASSUME NEW n \in Nat PROVE IsUpTo(V, first, next, n, upTo(n))
  BY UpToExists
<1> HIDE DEF upTo
<1>2. f \in [Nat -> V]
  BY <1>1 DEF IsUpTo
<1>3. f[0] = first
  BY <1>1 DEF IsUpTo
<1>4. ASSUME NEW n \in Nat, n # 0 PROVE f[n] = next[n][f[n - 1]]
  <2>1. n - 1 \in Nat /\ n \in 1 .. n /\ n - 1 \in 0 .. n - 1 /\ n - 1 <= n
    BY <1>4
  <2>2. upTo(n)[n] = next[n][upTo(n)[n - 1]]
    BY <1>1, <2>1 DEF IsUpTo
  <2>3. upTo(n - 1)[n - 1] = upTo(n)[n - 1]
    BY <1>1, <2>1, UpToIsUnique
  <2>. QED
    BY <2>1, <2>2, <2>3
<1>. QED
  BY <1>2, <1>3, <1>4 DEF IsRecursion

(* The first values of a function are as many as their arguments, if no    *)
(* two are the same.                                                       *)
Values(f, n) == {f[i] : i \in 0 .. n}

LEMMA CountOfValues ==
  ASSUME NEW n \in Nat, NEW f, \A i, k \in 0 .. n : f[i] = f[k] => i = k
  PROVE  IsFiniteSet(Values(f, n)) /\ Cardinality(Values(f, n)) = n + 1
<1> DEFINE T == Values(f, n)
           g == [i \in 0 .. n |-> f[i]]
<1>1. g \in [0 .. n -> T] /\ \A t \in T : \E i \in 0 .. n : g[i] = t
  BY DEF Values
<1>2. \A i, k \in 0 .. n : g[i] = g[k] => i = k
  OBVIOUS
<1> HIDE DEF g, T
<1>3. ExistsBijection(0 .. n, T)
  <2>1. g \in Bijection(0 .. n, T)
    BY <1>1, <1>2 DEF Bijection, Injection, Surjection, IsInjective
  <2>. QED
    BY <2>1 DEF ExistsBijection
<1>4. IsFiniteSet(0 .. n) /\ Cardinality(0 .. n) = n + 1
  <2>1. IsFiniteSet(0 .. n) /\ Cardinality(0 .. n) = IF 0 > n THEN 0 ELSE n - 0 + 1
    BY FS_Interval
  <2>. QED
    BY <2>1
<1>5. IsFiniteSet(T) /\ Cardinality(T) = Cardinality(0 .. n)
  BY <1>3, <1>4, FS_Bijection
<1>. QED
  BY <1>4, <1>5 DEF T
=============================================================================
