------------------------------- MODULE Basics -------------------------------
(***************************************************************************)
(* Facts about numbers, finite sets and sequences that the proofs share.   *)
(***************************************************************************)
EXTENDS Integers, Sequences, FiniteSets, Functions, WellFoundedInduction,
        FiniteSetTheorems, TLAPS

-----------------------------------------------------------------------------
(* Numbers.                                                                *)

\* A set of natural numbers has a least element.  The proofs by induction take the
\* least number for which their claim fails.
LEMMA LeastNat ==
    ASSUME NEW T, T \subseteq Nat, T # {}
    PROVE  \E n \in T : \A m \in T : n <= m
<1>1. \E x \in T : \A y \in T : ~(<<y, x>> \in OpToRel(<, Nat))
  BY WFMin, NatLessThanWellFounded, Zenon
<1>2. PICK x \in T : \A y \in T : ~(<<y, x>> \in OpToRel(<, Nat))
  BY <1>1
<1>3. \A y \in T : ~(y < x)
  BY <1>2 DEF OpToRel
<1> QED BY <1>3

\* The values that a step takes a base to, m times.
IsIterate(f, V, base, step, m) ==
    /\ f \in [0 .. m -> V]
    /\ f[0] = base
    /\ \A n \in 1 .. m : f[n] = step[f[n - 1]]

\* A step can be iterated: the recursive functions of the models are of this form.
LEMMA Iterates ==
    ASSUME NEW V, NEW base \in V, NEW step \in [V -> V], NEW m \in Nat
    PROVE  \E f : IsIterate(f, V, base, step, m)
<1> USE DEF IsIterate
<1> DEFINE Iterated(f, k) == f[0] = base /\ \A n \in 1 .. k : f[n] = step[f[n - 1]]
           Fails == {k \in Nat : ~ \E f \in [0 .. k -> V] : Iterated(f, k)}
<1> SUFFICES ASSUME Fails # {} PROVE FALSE
  OBVIOUS
<1>1. PICK k \in Fails : \A n \in Fails : k <= n
  BY LeastNat
<1>2. CASE k = 0
  <2>1. [n \in 0 .. 0 |-> base] \in [0 .. 0 -> V] /\ Iterated([n \in 0 .. 0 |-> base], 0)
    OBVIOUS
  <2> QED BY <1>1, <1>2, <2>1
<1>3. CASE k # 0
  <2>1. k - 1 \in Nat /\ k - 1 \notin Fails /\ k \in Nat
    BY <1>1, <1>3
  <2>2. PICK f \in [0 .. k - 1 -> V] : Iterated(f, k - 1)
    BY <2>1
  <2> DEFINE g == [n \in 0 .. k |-> IF n = k THEN step[f[k - 1]] ELSE f[n]]
  <2>3. g \in [0 .. k -> V]
    BY <2>1, <2>2
  <2>4. g[0] = base
    BY <2>1, <2>2, <1>3
  <2>5. ASSUME NEW n \in 1 .. k PROVE g[n] = step[g[n - 1]]
    <3>1. g[n - 1] = f[n - 1]
      BY <2>1
    <3>2. CASE n = k BY <3>1, <3>2, <2>1
    <3>3. CASE n # k
      <4>1. n \in 1 .. k - 1 /\ g[n] = f[n]
        BY <3>3, <2>1
      <4> QED BY <4>1, <3>1, <2>2
    <3> QED BY <3>2, <3>3
  <2> QED BY <2>3, <2>4, <2>5, <1>1
<1> QED BY <1>2, <1>3

\* A counter that leaves its range by less than the modulus wraps around once.
LEMMA ModWraps ==
    ASSUME NEW m \in Nat, NEW a \in Int, m > 0, -m <= a, a < 2 * m
    PROVE  a % m = IF a < 0 THEN a + m ELSE IF a < m THEN a ELSE a - m
<1>1. a % m \in 0 .. m - 1 /\ a = m * (a \div m) + (a % m) /\ a \div m \in Int
  OBVIOUS
<1> QED BY <1>1

\* A remainder is the only number in its range.
LEMMA ModUnique ==
    ASSUME NEW m \in Nat, m > 0, NEW r \in Int, 0 <= r, r < m, NEW k \in Int
    PROVE  (r + m * k) % m = r
<1>1. PICK q \in Int : q = (r + m * k) \div m
  OBVIOUS
<1>2. PICK s \in Int : s = (r + m * k) % m /\ 0 <= s /\ s < m /\ r + m * k = m * q + s
  BY <1>1
<1>3. m * (k - q) = s - r
  BY <1>2
<1>4. k - q < 1
  <2> SUFFICES ASSUME k - q >= 1 PROVE FALSE
   OBVIOUS
  <2>1. m * (k - q) >= m
    OBVIOUS
  <2> QED BY <2>1, <1>2, <1>3
<1>5. k - q > -1
  <2> SUFFICES ASSUME k - q <= -1 PROVE FALSE
   OBVIOUS
  <2>1. m * (k - q) <= -m
    OBVIOUS
  <2> QED BY <2>1, <1>2, <1>3
<1>6. k - q = 0
  BY <1>4, <1>5
<1> QED BY <1>2, <1>3, <1>6

\* Reducing a summand first makes no difference (size_t arithmetic).
LEMMA ModPlus ==
    ASSUME NEW m \in Nat, m > 0, NEW a \in Int, NEW b \in Int
    PROVE  (a + (b % m)) % m = (a + b) % m
<1>1. PICK q \in Int : q = b \div m
  OBVIOUS
<1>2. PICK s \in Int : s = b % m /\ b = m * q + s
  BY <1>1
<1>3. PICK p \in Int : p = (a + s) \div m
  BY <1>2
<1>4. PICK r \in Int : r = (a + s) % m /\ 0 <= r /\ r < m /\ a + s = m * p + r
  BY <1>2, <1>3
<1>5. a + b = r + m * (p + q)
  BY <1>2, <1>4
<1>6. (r + m * (p + q)) % m = r
  BY <1>4, ModUnique
<1> QED BY <1>2, <1>4, <1>5, <1>6

-----------------------------------------------------------------------------
(* Sequences without repetitions.                                          *)

\* A list without repetitions has as many elements as places, so that it is not longer
\* than the finite set its elements are from.
LEMMA InjectiveLen ==
    ASSUME NEW S, IsFiniteSet(S), NEW s \in Seq(S), IsInjective(s)
    PROVE  /\ Range(s) \subseteq S
           /\ IsFiniteSet(Range(s))
           /\ Cardinality(Range(s)) = Len(s)
           /\ Len(s) <= Cardinality(S)
<1>1. s \in [1 .. Len(s) -> Range(s)] /\ Len(s) \in Nat /\ DOMAIN s = 1 .. Len(s)
  BY DEF Range
<1>2. Range(s) \subseteq S
  BY DEF Range
<1>3. s \in Bijection(1 .. Len(s), Range(s))
  BY <1>1 DEF Bijection, Injection, Surjection, IsInjective, Range
<1>4. Cardinality(Range(s)) = Len(s)
  BY <1>1, <1>3, FS_CountingElements DEF ExistsBijection
<1> QED BY <1>2, <1>4, FS_Subset

\* The lengths of the lists that pushes, pops and collections make.
LEMMA LenFacts ==
    ASSUME NEW S, NEW s \in Seq(S)
    PROVE  /\ Len(s) \in Nat /\ Len(<<>>) = 0
           /\ s # <<>> => Len(Tail(s)) = Len(s) - 1
           /\ \A x \in S : Len(<<x>> \o s) = Len(s) + 1
           /\ s \o <<>> = s
OBVIOUS

\* The numbers below n that are in neither of two lists without repetitions.
LEMMA OffSize ==
    ASSUME NEW S, IsFiniteSet(S), NEW n \in Nat, NEW l \in Seq(S), NEW r \in Seq(S),
           IsInjective(l), IsInjective(r), Range(l) \cap Range(r) = {},
           Range(l) \cup Range(r) \subseteq 0 .. n - 1
    PROVE  /\ IsFiniteSet((0 .. n - 1) \ (Range(l) \cup Range(r)))
           /\ Cardinality((0 .. n - 1) \ (Range(l) \cup Range(r))) = n - Len(l) - Len(r)
<1>1. PICK N : N = 0 .. n - 1
  OBVIOUS
<1>2. IsFiniteSet(N) /\ Cardinality(N) = n
  BY <1>1, FS_Interval
<1>3. PICK A, B : A = Range(l) /\ B = Range(r)
  OBVIOUS
<1>4. /\ IsFiniteSet(A) /\ Cardinality(A) = Len(l) /\ IsFiniteSet(B) /\ Cardinality(B) = Len(r)
      /\ A \cap B = {} /\ Len(l) \in Nat /\ Len(r) \in Nat
  BY <1>3, InjectiveLen
<1>5. IsFiniteSet(A \cup B) /\ Cardinality(A \cup B) = Len(l) + Len(r)
  <2>1. /\ IsFiniteSet(A \cup B)
        /\ Cardinality(A \cup B) = Cardinality(A) + Cardinality(B) - Cardinality(A \cap B)
    BY <1>4, FS_Union, Zenon
  <2>2. Cardinality(A \cap B) = 0
    BY <1>4, FS_EmptySet
  <2> QED BY <1>4, <2>1, <2>2
<1>6. N \cap (A \cup B) = A \cup B
  BY <1>1, <1>3
<1>7. IsFiniteSet(N \ (A \cup B)) /\ Cardinality(N \ (A \cup B)) = n - (Len(l) + Len(r))
  <2>1. /\ IsFiniteSet(N \ (A \cup B))
        /\ Cardinality(N \ (A \cup B)) = Cardinality(N) - Cardinality(N \cap (A \cup B))
    BY <1>2, FS_Difference, Zenon
  <2> QED BY <1>2, <1>5, <1>6, <2>1
<1>8. n - (Len(l) + Len(r)) = n - Len(l) - Len(r)
  BY <1>4
<1> QED BY <1>1, <1>3, <1>7, <1>8

-----------------------------------------------------------------------------
(* Sums over finite sets.                                                  *)

\* The element of a set that a sum takes first.
Pick(s) == CHOOSE x \in s : TRUE

\* The recursion of a sum over the subsets of S.
IsSum(g, f, S) ==
    g = [s \in SUBSET S |-> IF s = {} THEN 0 ELSE f[Pick(s)] + g[s \ {Pick(s)}]]

\* It is an element.
LEMMA PickFacts == \A s : s # {} => Pick(s) \in s
BY DEF Pick

\* The library's definition of a sum, without its operators.
LEMMA SumIs ==
    ASSUME NEW f, NEW S
    PROVE  SumFunctionOnSet(f, S) = (CHOOSE g : IsSum(g, f, S))[S]
BY Zenon DEF SumFunctionOnSet, FoldFunctionOnSet, MapThenFoldSet, IsSum, Pick

\* The recursion has a solution.
LEMMA SumExists ==
    ASSUME NEW S, IsFiniteSet(S), NEW f, \A x \in S : f[x] \in Int
    PROVE  \E g \in [SUBSET S -> Int] : IsSum(g, f, S)
<1> DEFINE m == Cardinality(S) + 1
           V == [SUBSET S -> Int]
           base == [s \in SUBSET S |-> 0]
           More(g) == [s \in SUBSET S |-> IF s = {} THEN 0 ELSE f[Pick(s)] + g[s \ {Pick(s)}]]
           step == [g \in V |-> More(g)]
<1>1. m \in Nat /\ Cardinality(S) \in Nat
  BY FS_CardinalityType
<1>2. base \in V
  OBVIOUS
<1>3. ASSUME NEW g \in V PROVE More(g) \in V
  <2>1. ASSUME NEW s \in SUBSET S, s # {} PROVE f[Pick(s)] + g[s \ {Pick(s)}] \in Int
    <3>1. Pick(s) \in S /\ s \ {Pick(s)} \in SUBSET S
      BY <2>1, PickFacts
    <3>2. f[Pick(s)] \in Int /\ g[s \ {Pick(s)}] \in Int
      BY <3>1
    <3> QED BY <3>2
  <2> QED BY <2>1
<1>4. step \in [V -> V]
  <2> HIDE DEF V, More
  <2> QED BY <1>3
<1>5. PICK h : IsIterate(h, V, base, step, m)
  <2> HIDE DEF V, base, step, m
  <2> QED BY <1>1, <1>2, <1>4, Iterates
<1>6. h \in [0 .. m -> V] /\ h[0] = base /\ \A n \in 1 .. m : h[n] = step[h[n - 1]]
  BY <1>5, Zenon DEF IsIterate
<1>7. \A n \in 1 .. m : h[n] = More(h[n - 1])
  <2> TAKE n \in 1 .. m
  <2>1. n - 1 \in 0 .. m
    BY <1>1
  <2>2. h[n - 1] \in V
    BY <2>1, <1>6
  <2> HIDE DEF V, More
  <2> QED BY <2>2, <1>6
<1> DEFINE Stable(n) == \A s \in SUBSET S : Cardinality(s) <= n => h[n + 1][s] = h[n][s]
           Fails == {n \in Nat : n < m /\ ~Stable(n)}
<1>8. Fails = {}
  <2> SUFFICES ASSUME Fails # {} PROVE FALSE
    OBVIOUS
  <2>1. PICK n \in Fails : \A k \in Fails : n <= k
    <3> HIDE DEF Stable
    <3> QED BY LeastNat
  <2>2. n \in Nat /\ n < m
    OBVIOUS
  <2>3. PICK s \in SUBSET S : Cardinality(s) <= n /\ h[n + 1][s] # h[n][s]
    OBVIOUS
  <2>4. IsFiniteSet(s) /\ Cardinality(s) \in Nat
    BY FS_Subset, FS_CardinalityType
  <2>5. h[n + 1] = More(h[n])
    <3>1. n + 1 \in 1 .. m /\ (n + 1) - 1 = n
      BY <2>2, <1>1
    <3> HIDE DEF More
    <3> QED BY <3>1, <1>7
  <2>6. CASE s = {}
    <3>1. h[n + 1][s] = 0
      BY <2>5, <2>6
    <3>2. h[n][s] = 0
      <4>1. CASE n = 0 BY <4>1, <1>6
      <4>2. CASE n # 0
        <5>1. n \in 1 .. m
          BY <4>2, <2>2, <1>1
        <5>2. h[n] = More(h[n - 1])
          BY <5>1, <1>7
        <5> QED BY <5>2, <2>6
      <4> QED BY <4>1, <4>2
    <3> QED BY <3>1, <3>2, <2>3
  <2>7. CASE s # {}
    <3> DEFINE x == Pick(s)
               r == s \ {x}
    <3>1. x \in s /\ r \in SUBSET S /\ Cardinality(r) = Cardinality(s) - 1
      BY <2>4, <2>7, PickFacts, FS_RemoveElement
    <3>2. Cardinality(r) \in Nat
      BY <3>1, FS_Subset, FS_CardinalityType
    <3> HIDE DEF r
    <3>3. n # 0 /\ n - 1 \in Nat /\ n - 1 < m /\ n \in 1 .. m /\ Cardinality(r) <= n - 1
      BY <3>1, <3>2, <2>2, <2>3, <2>4, <1>1
    <3>4. Stable(n - 1)
      <4> HIDE DEF Stable
      <4>1. ~(n <= n - 1)
        BY <2>2
      <4> QED BY <4>1, <3>3, <2>1
    <3>5. h[n][r] = h[n - 1][r]
      <4>1. (n - 1) + 1 = n
        BY <2>2
      <4> QED BY <4>1, <3>1, <3>3, <3>4
    <3>6. h[n + 1][s] = f[x] + h[n][r]
      BY <2>5, <2>7 DEF r
    <3>7. h[n] = More(h[n - 1])
      BY <3>3, <1>7
    <3>8. h[n][s] = f[x] + h[n - 1][r]
      BY <3>7, <2>7 DEF r
    <3> QED BY <3>5, <3>6, <3>8, <2>3
  <2> QED BY <2>6, <2>7
<1> DEFINE g == h[Cardinality(S)]
<1>9. g \in V
  <2>1. Cardinality(S) \in 0 .. m
    BY <1>1
  <2> QED BY <2>1, <1>6
<1>10. h[m] = More(g)
  <2>1. m \in 1 .. m /\ m - 1 = Cardinality(S)
    BY <1>1
  <2> QED BY <2>1, <1>7
<1>11. ASSUME NEW s \in SUBSET S PROVE More(g)[s] = g[s]
  <2>1. Cardinality(s) <= Cardinality(S) /\ Cardinality(S) < m
    BY FS_Subset, <1>1
  <2>2. Stable(Cardinality(S))
    <3> HIDE DEF Stable
    <3> QED BY <1>1, <1>8, <2>1
  <2>3. h[m][s] = g[s]
    BY <2>1, <2>2
  <2> HIDE DEF g, m
  <2> QED BY <2>3, <1>10
<1>12. g = More(g)
  <2> HIDE DEF g
  <2> QED BY <1>9, <1>11
<1>13. IsSum(g, f, S)
  <2> HIDE DEF g
  <2> QED BY <1>12, Zenon DEF IsSum
<1> QED BY <1>9, <1>13

\* Two functions agree on a set.
Agree(f, f2, T) == \A x \in T : f[x] = f2[x]

\* The recursion has one solution, which depends only on the summands in the set.
LEMMA SumsAgree ==
    ASSUME NEW S, IsFiniteSet(S), NEW T \in SUBSET S, NEW f, NEW f2, Agree(f, f2, T),
           NEW g, IsSum(g, f, S), NEW g2, IsSum(g2, f2, T)
    PROVE  \A s \in SUBSET T : g[s] = g2[s]
<1> DEFINE Holds(n) == \A s \in SUBSET T : Cardinality(s) = n => g[s] = g2[s]
           Fails == {n \in Nat : ~Holds(n)}
<1>1. ASSUME NEW s \in SUBSET T
      PROVE  /\ IsFiniteSet(s) /\ Cardinality(s) \in Nat
             /\ g[s] = IF s = {} THEN 0 ELSE f[Pick(s)] + g[s \ {Pick(s)}]
             /\ g2[s] = IF s = {} THEN 0 ELSE f2[Pick(s)] + g2[s \ {Pick(s)}]
  <2>1. s \in SUBSET S
    OBVIOUS
  <2>2. IsFiniteSet(s) /\ Cardinality(s) \in Nat
    BY <2>1, FS_Subset, FS_CardinalityType
  <2>3. g[s] = IF s = {} THEN 0 ELSE f[Pick(s)] + g[s \ {Pick(s)}]
    BY <2>1 DEF IsSum
  <2>4. g2[s] = IF s = {} THEN 0 ELSE f2[Pick(s)] + g2[s \ {Pick(s)}]
    BY DEF IsSum
  <2> QED BY <2>2, <2>3, <2>4
<1>2. Fails = {}
  <2> SUFFICES ASSUME Fails # {} PROVE FALSE
    OBVIOUS
  <2>1. PICK n \in Fails : \A k \in Fails : n <= k
    <3> HIDE DEF Holds
    <3> QED BY LeastNat
  <2>2. PICK s \in SUBSET T : Cardinality(s) = n /\ g[s] # g2[s]
    OBVIOUS
  <2>3. s # {}
    BY <1>1, <2>2
  <2> DEFINE x == Pick(s)
             r == s \ {x}
  <2>4. x \in s /\ r \in SUBSET T /\ Cardinality(r) = Cardinality(s) - 1
    BY <1>1, <2>3, PickFacts, FS_RemoveElement
  <2>5. g[s] = f[x] + g[r] /\ g2[s] = f[x] + g2[r]
    BY <1>1, <2>3, <2>4 DEF Agree
  <2> HIDE DEF r, x
  <2>6. g[r] # g2[r]
    BY <2>2, <2>5
  <2>7. Cardinality(r) \in Nat /\ Cardinality(r) < n
    <3>1. Cardinality(r) \in Nat /\ Cardinality(s) \in Nat
      BY <1>1, <2>4
    <3> QED BY <3>1, <2>2, <2>4
  <2>8. Cardinality(r) \in Fails
    BY <2>4, <2>6, <2>7
  <2> HIDE DEF Fails
  <2>9. n <= Cardinality(r) /\ n \in Nat
    <3>1. n \in Nat
      BY DEF Fails
    <3> QED BY <2>1, <2>8, <3>1
  <2> QED BY <2>7, <2>9
<1> QED
  <2> TAKE s \in SUBSET T
  <2>1. Cardinality(s) \in Nat
    BY <1>1
  <2>2. Holds(Cardinality(s))
    <3> HIDE DEF Holds
    <3> QED BY <2>1, <1>2
  <2> QED BY <2>2

\* A sum is computed by the recursion over any finite set that includes its own.
LEMMA SumIn ==
    ASSUME NEW S, IsFiniteSet(S), NEW f, \A x \in S : f[x] \in Int,
           NEW g, IsSum(g, f, S), NEW T \in SUBSET S,
           NEW f2, \A x \in T : f[x] = f2[x]
    PROVE  SumFunctionOnSet(f2, T) = g[T]
<1>1. IsFiniteSet(T) /\ \A x \in T : f2[x] \in Int
  BY FS_Subset
<1>2. \E g2 : IsSum(g2, f2, T)
  BY <1>1, SumExists
<1> DEFINE g3 == CHOOSE g2 : IsSum(g2, f2, T)
<1>3. IsSum(g3, f2, T)
  BY <1>2, Zenon
<1>4. SumFunctionOnSet(f2, T) = g3[T]
  BY SumIs, Zenon
<1> HIDE DEF g3
<1>5. g[T] = g3[T]
  <2>1. Agree(f, f2, T)
    BY DEF Agree
  <2>2. T \in SUBSET T
    OBVIOUS
  <2> QED BY <1>3, <2>1, <2>2, SumsAgree
<1> QED BY <1>4, <1>5

\* A sum of integers is an integer, an empty sum is zero, and functions that
\* agree on a set have the same sum over it.
LEMMA SumFacts ==
    ASSUME NEW S, IsFiniteSet(S), NEW f, \A x \in S : f[x] \in Int
    PROVE  /\ SumFunctionOnSet(f, S) \in Int
           /\ S = {} => SumFunctionOnSet(f, S) = 0
           /\ \A f2 : (\A x \in S : f[x] = f2[x]) =>
                         SumFunctionOnSet(f2, S) = SumFunctionOnSet(f, S)
<1>1. PICK g \in [SUBSET S -> Int] : IsSum(g, f, S)
  BY SumExists
<1>2. ASSUME NEW f2, \A x \in S : f[x] = f2[x] PROVE SumFunctionOnSet(f2, S) = g[S]
  BY <1>1, <1>2, SumIn
<1>3. SumFunctionOnSet(f, S) = g[S]
  BY <1>2
<1>4. S = {} => g[S] = 0
  BY <1>1 DEF IsSum
<1> QED BY <1>1, <1>2, <1>3, <1>4

\* The summands of a sum may be taken in any order.
LEMMA SumRemove ==
    ASSUME NEW S, IsFiniteSet(S), NEW f, \A x \in S : f[x] \in Int, NEW x \in S
    PROVE  SumFunctionOnSet(f, S) = f[x] + SumFunctionOnSet(f, S \ {x})
<1>1. PICK g \in [SUBSET S -> Int] : IsSum(g, f, S)
  BY SumExists
<1>2. \A T \in SUBSET S : SumFunctionOnSet(f, T) = g[T]
  BY <1>1, SumIn
<1>3. ASSUME NEW s \in SUBSET S, s # {}
      PROVE  g[s] = f[Pick(s)] + g[s \ {Pick(s)}]
  BY <1>1, <1>3 DEF IsSum
<1> DEFINE Holds(n) == \A s \in SUBSET S :
                          Cardinality(s) = n => \A y \in s : g[s] = f[y] + g[s \ {y}]
           Fails == {n \in Nat : ~Holds(n)}
<1>4. ASSUME NEW s \in SUBSET S PROVE IsFiniteSet(s) /\ Cardinality(s) \in Nat
  BY FS_Subset, FS_CardinalityType
<1>5. Fails = {}
  <2> SUFFICES ASSUME Fails # {} PROVE FALSE
    OBVIOUS
  <2>1. PICK n \in Fails : \A k \in Fails : n <= k
    <3> HIDE DEF Holds
    <3> QED BY LeastNat
  <2>2. PICK s \in SUBSET S : Cardinality(s) = n /\ \E y \in s : g[s] # f[y] + g[s \ {y}]
    OBVIOUS
  <2>3. PICK y \in s : g[s] # f[y] + g[s \ {y}]
    BY <2>2
  <2>4. PICK p : p = Pick(s)
    OBVIOUS
  <2>5. p \in s /\ g[s] = f[p] + g[s \ {p}]
    BY <2>3, <2>4, <1>3, PickFacts
  <2>6. p # y
    BY <2>3, <2>5
  <2>7. n \in Nat
    OBVIOUS
  <2>8. ASSUME NEW a \in s, NEW b \in s, a # b
        PROVE  g[s \ {a}] = f[b] + g[s \ {a, b}]
    <3>1. PICK r : r = s \ {a}
      OBVIOUS
    <3>2. r \in SUBSET S /\ b \in r /\ r \ {b} = s \ {a, b}
      BY <3>1, <2>8
    <3>3. Cardinality(r) = n - 1 /\ Cardinality(r) \in Nat
      BY <3>1, <3>2, <1>4, <2>2, FS_RemoveElement
    <3>4. ~(n <= Cardinality(r))
      BY <3>3, <2>7
    <3>5. Holds(Cardinality(r))
      <4> HIDE DEF Holds
      <4> QED BY <3>3, <3>4, <2>1
    <3>6. g[r] = f[b] + g[r \ {b}]
      BY <3>2, <3>5
    <3> QED BY <3>1, <3>2, <3>6
  <2>9. g[s \ {p}] = f[y] + g[s \ {y, p}] /\ g[s \ {y}] = f[p] + g[s \ {y, p}]
    <3>1. {p, y} = {y, p}
      OBVIOUS
    <3> QED BY <3>1, <2>5, <2>6, <2>8
  <2>10. f[p] \in Int /\ f[y] \in Int /\ g[s \ {y, p}] \in Int
    BY <1>1, <2>5
  <2> QED BY <2>3, <2>5, <2>9, <2>10
<1>6. Cardinality(S) \in Nat /\ Holds(Cardinality(S))
  <2>1. Cardinality(S) \in Nat
    BY FS_CardinalityType
  <2> HIDE DEF Holds
  <2> QED BY <2>1, <1>5
<1>7. g[S] = f[x] + g[S \ {x}]
  BY <1>6
<1>8. S \in SUBSET S /\ S \ {x} \in SUBSET S
  OBVIOUS
<1> QED BY <1>2, <1>7, <1>8

\* A sum is one summand, if it is there, and the sum of the others.
LEMMA SumSplit ==
    ASSUME NEW C, IsFiniteSet(C), NEW f, \A x \in C : f[x] \in Int, NEW t
    PROVE  /\ SumFunctionOnSet(f, C \ {t}) \in Int
           /\ SumFunctionOnSet(f, C) = SumFunctionOnSet(f, C \ {t}) + IF t \in C THEN f[t] ELSE 0
<1>1. IsFiniteSet(C \ {t}) /\ \A x \in C \ {t} : f[x] \in Int
  BY FS_Subset
<1>2. SumFunctionOnSet(f, C \ {t}) \in Int
  BY <1>1, SumFacts
<1>3. CASE t \in C
  <2>1. SumFunctionOnSet(f, C) = f[t] + SumFunctionOnSet(f, C \ {t}) /\ f[t] \in Int
    BY <1>3, SumRemove
  <2> QED BY <1>2, <1>3, <2>1
<1>4. CASE t \notin C
  <2>1. C \ {t} = C
    BY <1>4
  <2>2. PICK n \in Int : n = SumFunctionOnSet(f, C \ {t})
    BY <1>2
  <2>3. n = n + IF t \in C THEN f[t] ELSE 0
    BY <1>4
  <2>4. SumFunctionOnSet(f, C) = n
    BY <2>1, <2>2, Zenon
  <2> QED BY <2>2, <2>3, <2>4, Zenon
<1> QED BY <1>3, <1>4

\* A sum changes with the one summand that is added, removed or replaced.
LEMMA SumMoves ==
    ASSUME NEW C, IsFiniteSet(C), NEW f, \A x \in C : f[x] \in Int,
           NEW D, IsFiniteSet(D), NEW g, \A x \in D : g[x] \in Int,
           NEW t, C \ {t} = D \ {t}, \A x \in C \ {t} : f[x] = g[x]
    PROVE  /\ SumFunctionOnSet(f, C) \in Int
           /\ SumFunctionOnSet(g, D) = SumFunctionOnSet(f, C) + (IF t \in D THEN g[t] ELSE 0)
                                                              - (IF t \in C THEN f[t] ELSE 0)
<1>1. PICK R : R = C \ {t} /\ R = D \ {t}
  OBVIOUS
<1>2. IsFiniteSet(R) /\ \A x \in R : f[x] \in Int /\ f[x] = g[x]
  BY <1>1, FS_Subset
<1>3. SumFunctionOnSet(g, R) = SumFunctionOnSet(f, R)
  BY <1>2, SumFacts
<1>4. PICK n \in Int : /\ n = SumFunctionOnSet(f, R)
                       /\ SumFunctionOnSet(f, C) = n + IF t \in C THEN f[t] ELSE 0
  BY <1>1, SumSplit
<1>5. SumFunctionOnSet(g, D) = n + IF t \in D THEN g[t] ELSE 0
  BY <1>1, <1>3, <1>4, SumSplit
<1>6. PICK x \in Int, y \in Int : /\ x = IF t \in C THEN f[t] ELSE 0
                                  /\ y = IF t \in D THEN g[t] ELSE 0
  OBVIOUS
<1> QED BY <1>4, <1>5, <1>6

\* So does the size of a set.
LEMMA CardMoves ==
    ASSUME NEW C, IsFiniteSet(C), NEW D, IsFiniteSet(D), NEW t, C \ {t} = D \ {t}
    PROVE  /\ Cardinality(C) \in Nat
           /\ Cardinality(D) = Cardinality(C) + (IF t \in D THEN 1 ELSE 0)
                                              - (IF t \in C THEN 1 ELSE 0)
<1>1. Cardinality(C) \in Nat /\ Cardinality(D) \in Nat
  BY FS_CardinalityType
<1>2. Cardinality(C \ {t}) = IF t \in C THEN Cardinality(C) - 1 ELSE Cardinality(C)
  BY FS_RemoveElement
<1>3. Cardinality(D \ {t}) = IF t \in D THEN Cardinality(D) - 1 ELSE Cardinality(D)
  BY FS_RemoveElement
<1> QED BY <1>1, <1>2, <1>3
=============================================================================
