-------------------------- MODULE FreeListsProofs ---------------------------
(***************************************************************************)
(* Proofs about FreeLists, for any number of slots, threads and tags.      *)
(***************************************************************************)
EXTENDS FreeLists, Basics

-----------------------------------------------------------------------------
(* Lists.                                                                  *)

\* The constants of a page are numbers.
LEMMA SlotFacts ==
    /\ Cardinality(Slots) \in Nat
    /\ Cardinality(Remotes) \in Nat
    /\ CountMod \in Nat
    /\ Slots \subseteq Pointer
    /\ NULL \in Pointer /\ NULL \notin Slots
BY ListsAssumption, FS_CardinalityType DEF Pointer

\* Taking the head off a list without repetitions (the pop of local_free).
LEMMA PopFacts ==
    ASSUME NEW S, NEW s \in Seq(S), s # <<>>, IsInjective(s)
    PROVE  /\ Head(s) \in Range(s)
           /\ Head(s) \in S
           /\ Tail(s) \in Seq(S)
           /\ IsInjective(Tail(s))
           /\ Range(Tail(s)) = Range(s) \ {Head(s)}
<1>1. Head(s) \in Range(s) /\ Head(s) \in S /\ Tail(s) \in Seq(S)
  BY DEF Range
<1>2. IsInjective(Tail(s))
  BY DEF IsInjective
<1>3. Range(Tail(s)) \subseteq Range(s) \ {Head(s)}
  BY DEF Range, IsInjective
<1>4. Range(s) \subseteq Range(Tail(s)) \cup {Head(s)}
  <2> SUFFICES ASSUME NEW i \in 2 .. Len(s) PROVE s[i] \in Range(Tail(s))
    BY DEF Range
  <2> QED BY i - 1 \in DOMAIN Tail(s), Tail(s)[i - 1] = s[i] DEF Range
<1> QED BY <1>1, <1>2, <1>3, <1>4

\* Putting a new element in front (a local free, a remote push).
LEMMA PushFacts ==
    ASSUME NEW S, NEW s \in Seq(S), NEW x \in S
    PROVE  /\ <<x>> \o s \in Seq(S)
           /\ Range(<<x>> \o s) = Range(s) \cup {x}
           /\ IsInjective(s) /\ x \notin Range(s) => IsInjective(<<x>> \o s)
<1>1. <<x>> \o s \in Seq(S)
  OBVIOUS
<1>2. Range(<<x>> \o s) \subseteq Range(s) \cup {x}
  BY DEF Range
<1>3. Range(s) \subseteq Range(<<x>> \o s)
  <2> SUFFICES ASSUME NEW i \in 1 .. Len(s) PROVE s[i] \in Range(<<x>> \o s)
    BY DEF Range
  <2> QED BY i + 1 \in DOMAIN (<<x>> \o s), (<<x>> \o s)[i + 1] = s[i] DEF Range
<1>4. x \in Range(<<x>> \o s)
  BY 1 \in DOMAIN (<<x>> \o s), (<<x>> \o s)[1] = x DEF Range
<1>5. ASSUME IsInjective(s), x \notin Range(s) PROVE IsInjective(<<x>> \o s)
  BY <1>5 DEF Range, IsInjective
<1> QED BY <1>1, <1>2, <1>3, <1>4, <1>5

\* The empty list.
LEMMA EmptyFacts ==
    /\ Range(<<>>) = {}
    /\ IsInjective(<<>>)
    /\ \A S : <<>> \in Seq(S)
BY DEF Range, IsInjective

\* Only the empty list has no elements.
LEMMA EmptyLen ==
    ASSUME NEW S, NEW s \in Seq(S)
    PROVE  Len(s) \in Nat /\ (s = <<>> <=> Len(s) = 0)
OBVIOUS

\* What is left of a list after its first slot is the list from the next one.
LEMMA TailIsList ==
    ASSUME NEW links, NEW p, NEW s, IsList(links, p, s), p # NULL
    PROVE  /\ s # <<>> /\ p = Head(s) /\ p \in Slots
           /\ IsList(links, links[p], Tail(s))
           /\ Range(Tail(s)) = Range(s) \ {p}
           /\ Len(Tail(s)) = Len(s) - 1
           /\ p \in Range(s)
<1>1. s \in Seq(Slots) /\ IsInjective(s) /\ s # <<>> /\ p = Head(s)
  BY DEF IsList
<1>2. Tail(s) \in Seq(Slots) /\ IsInjective(Tail(s)) /\ Range(Tail(s)) = Range(s) \ {p} /\ p \in Range(s)
      /\ p \in Slots
  BY <1>1, PopFacts
<1>3. Len(s) \in Nat /\ Len(s) >= 1 /\ Len(Tail(s)) = Len(s) - 1
      /\ \A i \in 1 .. Len(s) - 1 : Tail(s)[i] = s[i + 1]
  BY <1>1
<1>4. links[p] = IF Tail(s) = <<>> THEN NULL ELSE Tail(s)[1]
  <2>1. links[s[1]] = IF 1 = Len(s) THEN NULL ELSE s[1 + 1]
    <3>1. 1 \in 1 .. Len(s)
      BY <1>3
    <3> QED BY <3>1 DEF IsList
  <2>2. Tail(s) = <<>> <=> Len(Tail(s)) = 0
    BY <1>2, EmptyLen
  <2> QED BY <2>1, <2>2, <1>1, <1>3
<1>5. ASSUME NEW i \in 1 .. Len(s) - 1
      PROVE  links[Tail(s)[i]] = IF i = Len(s) - 1 THEN NULL ELSE Tail(s)[i + 1]
  <2>1. links[s[i + 1]] = IF i + 1 = Len(s) THEN NULL ELSE s[i + 2]
    BY <1>3 DEF IsList
  <2> QED BY <2>1, <1>3
<1> QED BY <1>1, <1>2, <1>3, <1>4, <1>5 DEF IsList

\* A slot that is linked to a list makes a longer one.
LEMMA ConsIsList ==
    ASSUME NEW links, NEW p, NEW s, IsList(links, p, s),
           NEW x \in Slots, x \notin Range(s), links[x] = p
    PROVE  /\ IsList(links, x, <<x>> \o s)
           /\ Range(<<x>> \o s) = Range(s) \cup {x}
           /\ Len(<<x>> \o s) = Len(s) + 1
<1> DEFINE r == <<x>> \o s
<1>1. s \in Seq(Slots) /\ IsInjective(s)
  BY DEF IsList
<1>2. r \in Seq(Slots) /\ IsInjective(r) /\ Range(r) = Range(s) \cup {x}
  BY <1>1, PushFacts
<1>3. Len(s) \in Nat /\ Len(r) = Len(s) + 1 /\ r[1] = x /\ r # <<>>
      /\ \A i \in 2 .. Len(s) + 1 : r[i] = s[i - 1]
  BY <1>1
<1> HIDE DEF r
<1>4. ASSUME NEW i \in 1 .. Len(r)
      PROVE  links[r[i]] = IF i = Len(r) THEN NULL ELSE r[i + 1]
  <2>1. CASE i = 1
    <3>1. p = IF s = <<>> THEN NULL ELSE s[1]
      BY DEF IsList
    <3>2. s = <<>> <=> Len(s) = 0
      BY <1>1
    <3>3. Len(s) # 0 => r[2] = s[1]
      BY <1>3
    <3> QED BY <2>1, <3>1, <3>2, <3>3, <1>3
  <2>2. CASE i # 1
    <3>1. i - 1 \in 1 .. Len(s) /\ r[i] = s[i - 1] /\ (i # Len(r) => r[i + 1] = s[i])
      BY <2>2, <1>3
    <3>2. links[s[i - 1]] = IF i - 1 = Len(s) THEN NULL ELSE s[(i - 1) + 1]
      BY <3>1 DEF IsList
    <3> QED BY <3>1, <3>2, <1>3
  <2> QED BY <2>1, <2>2
<1> QED BY <1>2, <1>3, <1>4 DEF IsList, r

\* No links are needed for the empty list.
LEMMA EmptyIsList == \A links : IsList(links, NULL, <<>>)
BY EmptyFacts DEF IsList

\* Only NULL is the head of the empty list.
LEMMA NullIsList ==
    ASSUME NEW links, NEW p, NEW s, IsList(links, p, s)
    PROVE  p = NULL <=> s = <<>>
<1>1. s # <<>> => s[1] \in Slots
  BY DEF IsList
<1> QED BY <1>1, SlotFacts DEF IsList

\* A list does not change with the links of other slots.
LEMMA SameIsList ==
    ASSUME NEW links, NEW p, NEW s, IsList(links, p, s),
           NEW other, \A x \in Range(s) : other[x] = links[x]
    PROVE  IsList(other, p, s)
<1>1. \A i \in 1 .. Len(s) : s[i] \in Range(s)
  BY DEF IsList, Range
<1> QED BY <1>1 DEF IsList

\* One link is written, of a slot that is not on the list.
LEMMA WriteIsList ==
    ASSUME NEW links, NEW p, NEW s, IsList(links, p, s),
           NEW x, x \notin Range(s), NEW w
    PROVE  IsList([links EXCEPT ![x] = w], p, s)
<1>1. \A y \in Range(s) : [links EXCEPT ![x] = w][y] = links[y]
  OBVIOUS
<1> QED BY <1>1, SameIsList

\* The recursive function of Chain exists, and its value is what its definition says.
LEMMA ChainFacts ==
    ASSUME NEW links \in [Slots -> Pointer]
    PROVE  \E from :
             /\ \A q \in Pointer : from[0][q] = <<>>
             /\ \A n \in 1 .. Cardinality(Slots) + 1, q \in Pointer :
                  from[n][q] = IF q = NULL THEN <<>> ELSE <<q>> \o from[n - 1][links[q]]
             /\ \A p : Chain(links, p) = from[Cardinality(Slots) + 1][p]
<1> DEFINE m == Cardinality(Slots) + 1
           V == [Pointer -> Seq(Slots)]
           base == [q \in Pointer |-> <<>>]
           Longer(g) == [q \in Pointer |-> IF q = NULL THEN <<>> ELSE <<q>> \o g[links[q]]]
           step == [g \in V |-> Longer(g)]
           Eqn(f) == f = [n \in 0 .. m |->
                            [q \in Pointer |-> IF n = 0 \/ q = NULL THEN <<>>
                                               ELSE <<q>> \o f[n - 1][links[q]]]]
<1>1. m \in Nat
  BY SlotFacts
<1>2. base \in V
  OBVIOUS
<1>3. step \in [V -> V]
  <2>1. ASSUME NEW g \in V PROVE Longer(g) \in V
    <3>1. ASSUME NEW q \in Pointer, q # NULL PROVE <<q>> \o g[links[q]] \in Seq(Slots)
      <4>1. q \in Slots /\ links[q] \in Pointer
        BY <3>1 DEF Pointer
      <4>2. g[links[q]] \in Seq(Slots)
        BY <4>1
      <4> QED BY <4>1, <4>2, PushFacts
    <3> QED BY <3>1
  <2> HIDE DEF V, Longer
  <2> QED BY <2>1
<1>4. PICK f : IsIterate(f, V, base, step, m)
  <2> HIDE DEF V, base, step, m
  <2> QED BY <1>1, <1>2, <1>3, Iterates
<1>5. f \in [0 .. m -> V] /\ f[0] = base /\ \A n \in 1 .. m : f[n] = step[f[n - 1]]
  BY <1>4, Zenon DEF IsIterate
<1>6. Eqn(f)
  <2>1. ASSUME NEW n \in 0 .. m
        PROVE  f[n] = [q \in Pointer |-> IF n = 0 \/ q = NULL THEN <<>>
                                         ELSE <<q>> \o f[n - 1][links[q]]]
    <3>1. CASE n = 0 BY <3>1, <1>5
    <3>2. CASE n # 0
      <4>1. n \in 1 .. m /\ n - 1 \in 0 .. m
        BY <3>2, <1>1
      <4>2. f[n - 1] \in V
        BY <4>1, <1>5
      <4>3. f[n] = Longer(f[n - 1])
        <5> HIDE DEF V, Longer
        <5> QED BY <4>1, <4>2, <1>5
      <4> QED BY <4>3, <3>2
    <3> QED BY <3>1, <3>2
  <2> QED BY <2>1, <1>5
<1> DEFINE from == CHOOSE g : Eqn(g)
<1>7. Eqn(from)
  <2> HIDE DEF Eqn
  <2> QED BY <1>6
<1>8. \A p : Chain(links, p) = from[m][p]
  BY Zenon DEF Chain
<1> HIDE DEF from
<1>9. ASSUME NEW q \in Pointer PROVE from[0][q] = <<>>
  BY <1>7, <1>1
<1>10. ASSUME NEW n \in 1 .. m, NEW q \in Pointer
       PROVE  from[n][q] = IF q = NULL THEN <<>> ELSE <<q>> \o from[n - 1][links[q]]
  <2>1. n # 0 /\ n \in 0 .. m
    BY <1>1
  <2>2. from[n] = [x \in Pointer |-> IF n = 0 \/ x = NULL THEN <<>>
                                     ELSE <<x>> \o from[n - 1][links[x]]]
    BY <1>7, <2>1, Zenon
  <2> QED BY <2>1, <2>2
<1> QED BY <1>8, <1>9, <1>10

\* The chain of a list is the list.
LEMMA ChainIs ==
    ASSUME NEW links \in [Slots -> Pointer], NEW p, NEW s, IsList(links, p, s)
    PROVE  Chain(links, p) = s
<1> DEFINE m == Cardinality(Slots) + 1
<1>1. PICK from :
        /\ \A q \in Pointer : from[0][q] = <<>>
        /\ \A n \in 1 .. m, q \in Pointer :
             from[n][q] = IF q = NULL THEN <<>> ELSE <<q>> \o from[n - 1][links[q]]
        /\ \A q : Chain(links, q) = from[m][q]
  BY ChainFacts
<1>2. m \in Nat
  BY SlotFacts
<1> HIDE DEF m
<1> DEFINE Holds(k) == \A q, l : \A n \in 0 .. m :
                          IsList(links, q, l) /\ Len(l) = k /\ k <= n => from[n][q] = l
           Fails == {k \in Nat : ~Holds(k)}
<1>3. Fails = {}
  <2> SUFFICES ASSUME Fails # {} PROVE FALSE
    OBVIOUS
  <2>1. PICK k \in Fails : \A i \in Fails : k <= i
    BY LeastNat
  <2>2. PICK q, l : \E n \in 0 .. m :
          IsList(links, q, l) /\ Len(l) = k /\ k <= n /\ from[n][q] # l
    BY <2>1
  <2>3. PICK n \in 0 .. m : IsList(links, q, l) /\ Len(l) = k /\ k <= n /\ from[n][q] # l
    BY <2>2
  <2>4. l \in Seq(Slots) /\ (l = <<>> <=> q = NULL)
    <3>1. l \in Seq(Slots)
      BY <2>3 DEF IsList
    <3> QED BY <2>3, <3>1, NullIsList
  <2>5. CASE q = NULL
    <3>1. n = 0 \/ n \in 1 .. m
      BY <1>2
    <3>2. from[n][q] = <<>>
      BY <2>5, <3>1, <1>1, SlotFacts
    <3> QED BY <3>2, <2>3, <2>4, <2>5
  <2>6. CASE q # NULL
    <3>1. /\ q = Head(l) /\ q \in Slots /\ l # <<>>
          /\ IsList(links, links[q], Tail(l))
          /\ Len(Tail(l)) = Len(l) - 1
      BY <2>3, <2>6, TailIsList
    <3>2. k - 1 \in Nat /\ n - 1 \in 0 .. m /\ n \in 1 .. m /\ k - 1 <= n - 1
      BY <2>1, <2>3, <2>4, <3>1, <1>2
    <3>3. Holds(k - 1)
      <4> HIDE DEF Holds
      <4>1. k \in Nat /\ ~(k <= k - 1)
        BY <2>1
      <4> QED BY <4>1, <3>2, <2>1
    <3>4. from[n - 1][links[q]] = Tail(l)
      BY <3>1, <3>2, <3>3, <2>3
    <3>5. from[n][q] = <<q>> \o Tail(l)
      BY <3>4, <3>2, <3>1, <2>6, <1>1, SlotFacts
    <3>6. <<Head(l)>> \o Tail(l) = l
      BY <2>4, <3>1
    <3> QED BY <3>5, <3>6, <3>1, <2>3
  <2> QED BY <2>5, <2>6
<1>4. Len(s) \in Nat /\ Len(s) <= m
  <2>1. Len(s) <= Cardinality(Slots) /\ Len(s) \in Nat
    BY InjectiveLen, ListsAssumption DEF IsList
  <2> QED BY <2>1, SlotFacts DEF m
<1>5. Holds(Len(s))
  <2> HIDE DEF Holds
  <2> QED BY <1>3, <1>4
<1>6. from[m][p] = s
  <2>1. m \in 0 .. m
    BY <1>2
  <2> QED BY <2>1, <1>4, <1>5
<1> QED BY <1>6, <1>1

\* Two lists without a common slot fit in the page.
LEMMA ListsFit ==
    ASSUME NEW s, NEW t, NEW links, NEW p, NEW q,
           IsList(links, p, s), IsList(links, q, t), Range(s) \cap Range(t) = {}
    PROVE  /\ Len(s) \in Nat /\ Len(t) \in Nat
           /\ Len(s) + Len(t) <= Cardinality(Slots)
<1>1. /\ Range(s) \subseteq Slots /\ IsFiniteSet(Range(s))
      /\ Cardinality(Range(s)) = Len(s) /\ Len(s) \in Nat
  BY InjectiveLen, EmptyLen, ListsAssumption DEF IsList
<1>2. /\ Range(t) \subseteq Slots /\ IsFiniteSet(Range(t))
      /\ Cardinality(Range(t)) = Len(t) /\ Len(t) \in Nat
  BY InjectiveLen, EmptyLen, ListsAssumption DEF IsList
<1>3. Cardinality(Range(s) \cup Range(t)) = Len(s) + Len(t)
  <2>1. Cardinality(Range(s) \cap Range(t)) = 0
    BY FS_EmptySet
  <2>2. Cardinality(Range(s) \cup Range(t)) =
          Cardinality(Range(s)) + Cardinality(Range(t)) - Cardinality(Range(s) \cap Range(t))
    BY <1>1, <1>2, FS_Union, Zenon
  <2> QED BY <1>1, <1>2, <2>1, <2>2
<1>4. Cardinality(Range(s) \cup Range(t)) <= Cardinality(Slots)
  BY <1>1, <1>2, FS_Subset, ListsAssumption
<1> QED BY <1>1, <1>2, <1>3, <1>4

\* A list fits in the page.
LEMMA ListFits ==
    ASSUME NEW links, NEW p, NEW s, IsList(links, p, s)
    PROVE  Len(s) \in 0 .. Cardinality(Slots)
<1>1. s \in Seq(Slots) /\ IsInjective(s)
  BY DEF IsList
<1>2. Len(s) <= Cardinality(Slots) /\ Len(s) \in Nat
  BY <1>1, InjectiveLen, EmptyLen, ListsAssumption
<1> QED BY <1>2, SlotFacts

\* Sets of slots and of threads are finite, and their sizes are numbers.
LEMMA SizeFacts ==
    /\ \A S \in SUBSET Slots :
         /\ IsFiniteSet(S) /\ Cardinality(S) \in Nat
         /\ Cardinality(S) <= Cardinality(Slots)
         /\ \A x \in Slots : x \notin S => Cardinality(S \cup {x}) = Cardinality(S) + 1
         /\ \A x \in S : Cardinality(S \ {x}) = Cardinality(S) - 1
    /\ \A S \in SUBSET Remotes :
         /\ IsFiniteSet(S) /\ Cardinality(S) \in Nat
         /\ Cardinality(S) <= Cardinality(Remotes)
         /\ \A x \in Remotes : x \notin S => Cardinality(S \cup {x}) = Cardinality(S) + 1
         /\ \A x \in S : Cardinality(S \ {x}) = Cardinality(S) - 1
<1>1. ASSUME NEW F, IsFiniteSet(F), NEW S \in SUBSET F
      PROVE  /\ IsFiniteSet(S) /\ Cardinality(S) \in Nat
             /\ Cardinality(S) <= Cardinality(F)
             /\ \A x \in F : x \notin S => Cardinality(S \cup {x}) = Cardinality(S) + 1
             /\ \A x \in S : Cardinality(S \ {x}) = Cardinality(S) - 1
  <2>1. IsFiniteSet(S) /\ Cardinality(S) \in Nat /\ Cardinality(S) <= Cardinality(F)
    BY <1>1, FS_Subset, FS_CardinalityType
  <2> QED BY <2>1, FS_AddElement, FS_RemoveElement
<1> QED BY <1>1, ListsAssumption

\* What used counts, slots of the program and calls under way, fits in its type.
LEMMA UsedFits ==
    ASSUME NEW S \in SUBSET Slots, NEW T \in SUBSET Remotes
    PROVE  Cardinality(S) + Cardinality(T) \in 0 .. Cardinality(Slots) + Cardinality(Remotes)
<1>1. /\ Cardinality(S) \in Nat /\ Cardinality(S) <= Cardinality(Slots)
      /\ Cardinality(T) \in Nat /\ Cardinality(T) <= Cardinality(Remotes)
  BY SizeFacts
<1> QED BY <1>1, SlotFacts

\* Counting by one stays in range: the counters of a page do not overflow.
LEMMA CountFits ==
    ASSUME NEW n \in Int, 0 <= n, n <= Cardinality(Slots) + Cardinality(Remotes)
    PROVE  n % CountMod = n
<1>1. CountMod \in Nat /\ n < CountMod /\ CountMod > 0
  BY SlotFacts, ListsAssumption
<1> QED BY <1>1, ModWraps

\* The tag stays a tag.
LEMMA RetagType ==
    ASSUME NEW p \in Pointer, NEW h \in Tagged
    PROVE  Retag(p, h) \in Tagged /\ Retag(p, h).ptr = p
<1>1. TagMod \in Nat /\ TagMod > 0 /\ h.tag + 1 \in Int
  BY ListsAssumption DEF Tagged
<1>2. (h.tag + 1) % TagMod \in 0 .. TagMod - 1
  BY <1>1
<1> QED BY <1>2 DEF Retag, Tagged

-----------------------------------------------------------------------------
(* The steps of the owner.                                                 *)

USE DEF pageVars, ownerVars, remoteVars, MarkAllocated, MarkFreed

\* slab_alloc takes the first slot of local_free.
LEMMA PopStep ==
    ASSUME TypeOK, NEW L, NEW R, NEW D, ListsAre(L, R, D), Pop
    PROVE  TypeOK' /\ ListsAre(Tail(L), R, D)' /\ D = <<>> /\ L # <<>>
           /\ live' = live \cup {Head(L)} /\ Pushing' = Pushing
<1> DEFINE x == localFree
<1>1. /\ L # <<>> /\ x = Head(L) /\ x \in Slots /\ x \in Range(L)
      /\ IsList(link, link[x], Tail(L))
      /\ Range(Tail(L)) = Range(L) \ {x}
      /\ Len(Tail(L)) = Len(L) - 1
      /\ link[x] \in Pointer
  BY TailIsList DEF Pop, TypeOK, ListsAre, PlacesOK
<1>2. PICK w \in Pointer : link' = [link EXCEPT ![x] = w]
  BY DEF Pop
<1>3. D = <<>>
  BY NullIsList DEF Pop, ListsAre, PlacesOK, OwnerOK
<1>4. x \notin Range(R) /\ x \notin Range(D) /\ x \notin live /\ x \notin Pushing
      /\ x \notin Range(Tail(L))
  BY <1>1 DEF ListsAre, PlacesOK
<1>5. /\ IsList(link', link[x], Tail(L))
      /\ IsList(link', head.ptr, R)
      /\ IsList(link', list, D)
  BY <1>1, <1>2, <1>4, WriteIsList DEF ListsAre, PlacesOK
<1>6. Pushing' = Pushing
  BY DEF Pop, Pushing
<1>7. PlacesOK(Tail(L), R, D)'
  <2>1. localFree' = link[x] /\ head' = head /\ list' = list /\ node' = node
        /\ live' = live \cup {x}
    BY DEF Pop
  <2> QED BY <2>1, <1>1, <1>4, <1>5, <1>6 DEF ListsAre, PlacesOK
<1>8. RemotesOK'
  <2>1. ASSUME NEW r \in Remotes, rpc[r] = "cas" PROVE link'[node[r]] = link[node[r]]
    <3>1. node[r] \in Pushing
      BY <2>1 DEF ListsAre, RemotesOK, Pushing
    <3> QED BY <3>1, <1>2, <1>4
  <2>2. rpc' = rpc /\ node' = node /\ old' = old
    BY DEF Pop
  <2> QED BY <2>1, <2>2 DEF ListsAre, RemotesOK
<1>9. OwnerOK(D)'
  BY DEF Pop, ListsAre, OwnerOK
<1>10. CountsOK(Tail(L), R, D)'
  <2>1. Len(L) \in 0 .. Cardinality(Slots) /\ Len(Tail(L)) \in 0 .. Cardinality(Slots)
    BY <1>1, ListFits DEF ListsAre, PlacesOK
  <2>2. (localCount - 1) % CountMod = Len(Tail(L))
    <3>1. localCount - 1 = Len(Tail(L))
      BY <1>1, <2>1 DEF ListsAre, CountsOK
    <3> QED BY <3>1, <2>1, CountFits, SlotFacts
  <2>3. Cardinality(live \cup {x}) = Cardinality(live) + 1
    BY <1>1, <1>4, SizeFacts DEF TypeOK
  <2>4. /\ Cardinality(live \cup {x}) <= Cardinality(Slots) /\ Cardinality(live) \in Nat
    BY <1>1, SizeFacts DEF TypeOK
  <2>5. Cardinality(Unused) \in Nat /\ Cardinality(Unused) <= Cardinality(Remotes)
    BY SizeFacts DEF Unused
  <2>6. (used + 1) % CountMod = Cardinality(live \cup {x}) + Cardinality(Unused)
    BY <2>3, <2>4, <2>5, CountFits, SlotFacts DEF ListsAre, CountsOK
  <2>7. Unused' = Unused /\ Uncounted' = Uncounted
    BY DEF Pop, Unused, Uncounted
  <2> QED BY <2>2, <2>6, <2>7 DEF Pop, ListsAre, CountsOK
<1>11. TypeOK'
  <2>1. localCount' \in 0 .. Cardinality(Slots)
    BY <1>7, <1>10, ListFits DEF CountsOK, PlacesOK
  <2>2. used' \in 0 .. Cardinality(Slots) + Cardinality(Remotes)
    <3>1. live' \in SUBSET Slots /\ Unused' \in SUBSET Remotes
      BY <1>1 DEF Pop, TypeOK, Unused
    <3> QED BY <3>1, <1>10, UsedFits DEF CountsOK
  <2>3. link' \in [Slots -> Pointer]
    BY <1>1, <1>2 DEF TypeOK
  <2>4. live' \in SUBSET Slots /\ bitmap' \in SUBSET Slots
    BY <1>1 DEF Pop, TypeOK
  <2> QED BY <2>1, <2>2, <2>3, <2>4, <1>1 DEF Pop, TypeOK
<1> QED BY <1>1, <1>3, <1>6, <1>7, <1>8, <1>9, <1>10, <1>11 DEF ListsAre, Pop

\* slab_free by the owner puts the slot in front of local_free.
LEMMA FreeLocalStep ==
    ASSUME TypeOK, NEW L, NEW R, NEW D, ListsAre(L, R, D), NEW s \in Slots, FreeLocal(s)
    PROVE  TypeOK' /\ ListsAre(<<s>> \o L, R, D)' /\ D = <<>>
           /\ s \in live /\ live' = live \ {s} /\ Pushing' = Pushing /\ s \notin Pushing
<1>1. /\ opc = "idle" /\ s \in live /\ live' = live \ {s} /\ bitmap' = bitmap \ {s}
      /\ link' = [link EXCEPT ![s] = localFree] /\ localFree' = s
      /\ localCount' = (localCount + 1) % CountMod
      /\ used' = (used - 1) % CountMod
      /\ UNCHANGED <<head, remoteCount, opc, oldHead, list, current, count, rpc, node, old>>
  BY DEF FreeLocal
<1>2. D = <<>>
  BY <1>1, NullIsList DEF ListsAre, PlacesOK, OwnerOK
<1>3. s \notin Range(L) /\ s \notin Range(R) /\ s \notin Range(D) /\ s \notin Pushing
  BY <1>1 DEF ListsAre, PlacesOK
<1>4. /\ IsList(link', localFree, L)
      /\ IsList(link', head.ptr, R)
      /\ IsList(link', list, D)
  BY <1>1, <1>3, WriteIsList DEF ListsAre, PlacesOK
<1>5. link'[s] = localFree
  BY <1>1 DEF TypeOK
<1>6. /\ IsList(link', s, <<s>> \o L)
      /\ Range(<<s>> \o L) = Range(L) \cup {s}
      /\ Len(<<s>> \o L) = Len(L) + 1
  BY <1>3, <1>4, <1>5, ConsIsList
<1>7. Pushing' = Pushing
  BY <1>1 DEF Pushing
<1>8. PlacesOK(<<s>> \o L, R, D)'
  BY <1>1, <1>3, <1>4, <1>6, <1>7 DEF ListsAre, PlacesOK
<1>9. RemotesOK'
  <2>1. ASSUME NEW r \in Remotes, rpc[r] = "cas" PROVE link'[node[r]] = link[node[r]]
    <3>1. node[r] \in Pushing
      BY <2>1 DEF ListsAre, RemotesOK, Pushing
    <3> QED BY <3>1, <1>1, <1>3
  <2> QED BY <2>1, <1>1 DEF ListsAre, RemotesOK
<1>10. OwnerOK(D)'
  BY <1>1 DEF ListsAre, OwnerOK
<1>11. CountsOK(<<s>> \o L, R, D)'
  <2>1. Len(L) \in 0 .. Cardinality(Slots) /\ Len(<<s>> \o L) \in 0 .. Cardinality(Slots)
    BY <1>6, ListFits DEF ListsAre, PlacesOK
  <2>2. (localCount + 1) % CountMod = Len(<<s>> \o L)
    <3>1. localCount + 1 = Len(<<s>> \o L)
      BY <1>6, <2>1 DEF ListsAre, CountsOK
    <3> QED BY <3>1, <2>1, CountFits, SlotFacts
  <2>3. Cardinality(live \ {s}) = Cardinality(live) - 1
    BY <1>1, SizeFacts DEF TypeOK
  <2>4. Cardinality(live \ {s}) + Cardinality(Unused)
          \in 0 .. Cardinality(Slots) + Cardinality(Remotes)
    BY UsedFits DEF TypeOK, Unused
  <2>5. Cardinality(live) \in Nat /\ Cardinality(Unused) \in Nat
    BY SizeFacts DEF TypeOK, Unused
  <2>6. (used - 1) % CountMod = Cardinality(live \ {s}) + Cardinality(Unused)
    <3>1. used - 1 = Cardinality(live \ {s}) + Cardinality(Unused)
      BY <2>3, <2>5 DEF ListsAre, CountsOK
    <3> QED BY <3>1, <2>4, CountFits, SlotFacts
  <2>7. Unused' = Unused /\ Uncounted' = Uncounted
    BY <1>1 DEF Unused, Uncounted
  <2> QED BY <1>1, <2>2, <2>6, <2>7 DEF ListsAre, CountsOK
<1>12. TypeOK'
  <2>1. localCount' \in 0 .. Cardinality(Slots)
    BY <1>8, <1>11, ListFits DEF CountsOK, PlacesOK
  <2>2. live' \in SUBSET Slots /\ bitmap' \in SUBSET Slots
    BY <1>1 DEF TypeOK
  <2>3. used' \in 0 .. Cardinality(Slots) + Cardinality(Remotes)
    <3>1. Unused' \in SUBSET Remotes
      BY DEF Unused
    <3> QED BY <3>1, <2>2, <1>11, UsedFits DEF CountsOK
  <2>4. link' \in [Slots -> Pointer] /\ localFree' \in Pointer
    BY <1>1 DEF TypeOK, Pointer
  <2> QED BY <1>1, <2>1, <2>2, <2>3, <2>4 DEF TypeOK
<1> QED BY <1>1, <1>2, <1>3, <1>7, <1>8, <1>9, <1>10, <1>11, <1>12 DEF ListsAre

\* Everything about the lists but where the owner is.
listVars == <<head, localFree, localCount, remoteCount, used, bitmap, link, live, list>>

\* What is not about the walk stays if the lists and the other threads do.
LEMMA SameLists ==
    ASSUME NEW L, NEW R, NEW D, ListsAre(L, R, D), UNCHANGED <<listVars, remoteVars>>
    PROVE  PlacesOK(L, R, D)' /\ RemotesOK' /\ CountsOK(L, R, D)' /\ Pushing' = Pushing
<1>1. Pushing' = Pushing /\ Unused' = Unused /\ Uncounted' = Uncounted
  BY DEF Pushing, Unused, Uncounted, listVars
<1>2. PlacesOK(L, R, D)'
  BY <1>1 DEF listVars, ListsAre, PlacesOK
<1>3. RemotesOK'
  BY DEF listVars, ListsAre, RemotesOK
<1>4. CountsOK(L, R, D)'
  BY <1>1 DEF listVars, ListsAre, CountsOK
<1> QED BY <1>1, <1>2, <1>3, <1>4

\* treiber_collect loads the head, or fails to swap it.
LEMMA CollectStep ==
    ASSUME TypeOK, NEW L, NEW R, NEW D, ListsAre(L, R, D), CollectLoad \/ CollectFails
    PROVE  TypeOK' /\ ListsAre(L, R, D)' /\ UNCHANGED <<link, list, localFree, head, live>>
           /\ Pushing' = Pushing
<1>1. UNCHANGED <<listVars, current, count, remoteVars>>
  BY DEF CollectLoad, CollectFails, listVars
<1>2. OwnerOK(D)'
  <2>1. CASE CollectLoad
    BY <2>1 DEF CollectLoad, ListsAre, OwnerOK, TypeOK
  <2>2. CASE CollectFails
    BY <2>2 DEF CollectFails, ListsAre, OwnerOK
  <2> QED BY <2>1, <2>2
<1>3. TypeOK'
  <2>1. opc' \in {"cas", "retry"} /\ oldHead' \in Tagged \cup {NULL}
    BY DEF CollectLoad, CollectFails, TypeOK
  <2> QED BY <1>1, <2>1 DEF listVars, TypeOK
<1> QED BY <1>1, <1>2, <1>3, SameLists DEF ListsAre, listVars

\* treiber_collect detaches the remote list.
LEMMA CollectCASStep ==
    ASSUME TypeOK, NEW L, NEW R, NEW D, ListsAre(L, R, D), CollectCAS
    PROVE  TypeOK' /\ ListsAre(L, <<>>, R)' /\ D = <<>> /\ L = <<>> /\ R # <<>>
           /\ live' = live /\ Pushing' = Pushing
<1>1. /\ opc = "cas" /\ head = oldHead
      /\ head' = Retag(NULL, head) /\ list' = head.ptr /\ current' = head.ptr
      /\ count' = 0 /\ oldHead' = NULL /\ opc' = "walk"
      /\ UNCHANGED <<localFree, localCount, remoteCount, used, bitmap, link, live,
                     rpc, node, old>>
  BY DEF CollectCAS
<1>2. head'.ptr = NULL /\ head' \in Tagged /\ head.ptr \in Pointer
  BY <1>1, RetagType, SlotFacts DEF TypeOK, Tagged
<1>3. head.ptr # NULL /\ localFree = NULL /\ list = NULL
  BY <1>1 DEF ListsAre, OwnerOK
<1>4. D = <<>> /\ L = <<>> /\ R # <<>>
  BY <1>3, NullIsList DEF ListsAre, PlacesOK
<1>5. Pushing' = Pushing /\ Unused' = Unused /\ Uncounted' = Uncounted
  BY <1>1 DEF Pushing, Unused, Uncounted
<1>6. PlacesOK(L, <<>>, R)'
  <2>1. IsList(link', head'.ptr, <<>>) /\ Range(<<>>) = {}
    BY <1>2, EmptyIsList, EmptyFacts
  <2> QED BY <2>1, <1>1, <1>2, <1>4, <1>5 DEF ListsAre, PlacesOK
<1>7. Len(R) \in Nat /\ Len(R) > 0 /\ head.ptr = R[1]
  <2>1. R \in Seq(Slots) /\ head.ptr = R[1]
    BY <1>4 DEF ListsAre, PlacesOK, IsList
  <2> QED BY <2>1, <1>4, EmptyLen
<1>8. OwnerOK(R)'
  BY <1>1, <1>3, <1>7 DEF OwnerOK
<1>9. CountsOK(L, <<>>, R)'
  <2>1. Len(<<>>) = 0 /\ Len(D) = 0
    BY <1>4
  <2>2. Cardinality(Uncounted) \in Nat
    BY SizeFacts DEF Uncounted
  <2>3. Len(<<>>) + Len(R) - Cardinality(Uncounted) = Len(R) + Len(D) - Cardinality(Uncounted)
    BY <2>1, <2>2, <1>7
  <2> QED BY <2>3, <1>1, <1>5 DEF ListsAre, CountsOK
<1>10. RemotesOK'
  BY <1>1 DEF ListsAre, RemotesOK
<1>11. TypeOK'
  BY <1>1, <1>2, SlotFacts DEF TypeOK
<1> QED BY <1>1, <1>4, <1>5, <1>6, <1>8, <1>9, <1>10, <1>11 DEF ListsAre

\* page_collect_remote goes to the next slot, or has found the last one.
LEMMA WalkStep ==
    ASSUME TypeOK, NEW L, NEW R, NEW D, ListsAre(L, R, D), Walk
    PROVE  TypeOK' /\ ListsAre(L, R, D)' /\ UNCHANGED <<link, list, localFree, head, live>>
           /\ Pushing' = Pushing
<1>1. opc = "walk" /\ UNCHANGED <<listVars, oldHead, remoteVars>>
  BY DEF Walk, listVars
<1>2. /\ count \in Nat /\ count < Len(D) /\ current = D[count + 1] /\ list # NULL /\ localFree = NULL
  BY <1>1 DEF ListsAre, OwnerOK, TypeOK
<1>3. Len(D) \in 0 .. Cardinality(Slots)
  BY ListFits DEF ListsAre, PlacesOK
<1>4. count' = count + 1 /\ count + 1 <= Len(D)
  <2>1. count + 1 <= Len(D)
    BY <1>2, <1>3
  <2>2. (count + 1) % CountMod = count + 1
    BY <1>2, <1>3, <2>1, CountFits, SlotFacts
  <2> QED BY <2>1, <2>2 DEF Walk
<1>5. D \in Seq(Slots) /\ count + 1 \in 1 .. Len(D)
  BY <1>2, <1>3, <1>4 DEF ListsAre, PlacesOK, IsList
<1>6. link[current] = IF count + 1 = Len(D) THEN NULL ELSE D[(count + 1) + 1]
  BY <1>2, <1>5 DEF ListsAre, PlacesOK, IsList
<1>7. OwnerOK(D)' /\ current' \in Slots /\ opc' \in {"walk", "splice"}
  <2>1. CASE count + 1 = Len(D)
    <3>1. link[current] = NULL /\ opc' = "splice" /\ current' = current
      BY <2>1, <1>6 DEF Walk
    <3>2. current' = D[count'] /\ count' = Len(D) /\ current' \in Slots
      BY <3>1, <2>1, <1>2, <1>4, <1>5
    <3> QED BY <3>1, <3>2, <1>1, <1>2 DEF OwnerOK, listVars
  <2>2. CASE count + 1 # Len(D)
    <3>1. (count + 1) + 1 \in 1 .. Len(D) /\ D[(count + 1) + 1] \in Slots
      BY <2>2, <1>3, <1>5
    <3>2. link[current] # NULL /\ opc' = "walk" /\ current' = D[count' + 1] /\ count' < Len(D)
      BY <2>2, <3>1, <1>1, <1>3, <1>4, <1>5, <1>6, SlotFacts DEF Walk
    <3> QED BY <3>1, <3>2, <1>1, <1>2, <1>4 DEF OwnerOK, listVars
  <2> QED BY <2>1, <2>2
<1>8. TypeOK'
  <2>1. count' \in 0 .. Cardinality(Slots)
    BY <1>2, <1>3, <1>4, SlotFacts
  <2> QED BY <2>1, <1>1, <1>7 DEF TypeOK, listVars, Pointer
<1> QED BY <1>1, <1>7, <1>8, SameLists DEF ListsAre, listVars

\* page_collect_remote makes the detached list local_free.
LEMMA SpliceStep ==
    ASSUME TypeOK, NEW L, NEW R, NEW D, ListsAre(L, R, D), Splice
    PROVE  TypeOK' /\ ListsAre(D, R, <<>>)' /\ L = <<>> /\ live' = live /\ Pushing' = Pushing
<1>1. /\ opc = "splice"
      /\ link' = [link EXCEPT ![current] = localFree] /\ localFree' = list
      /\ localCount' = (localCount + count) % CountMod
      /\ remoteCount' = (remoteCount - count) % CountMod
      /\ opc' = "pop" /\ list' = NULL /\ current' = NULL /\ count' = 0
      /\ UNCHANGED <<head, used, bitmap, live, oldHead, rpc, node, old>>
  BY DEF Splice, SpliceCounting
<1>2. count = Len(D) /\ current = D[count] /\ list # NULL /\ localFree = NULL
  BY <1>1 DEF ListsAre, OwnerOK
<1>3. D # <<>> /\ L = <<>>
  BY <1>2, NullIsList DEF ListsAre, PlacesOK
<1>4. D \in Seq(Slots) /\ Len(D) \in Nat /\ Len(D) > 0 /\ current \in Slots
  <2>1. D \in Seq(Slots)
    BY DEF ListsAre, PlacesOK, IsList
  <2>2. Len(D) \in Nat /\ Len(D) > 0
    BY <2>1, <1>3, EmptyLen
  <2> QED BY <2>1, <2>2, <1>2
<1>5. link[current] = NULL
  BY <1>2, <1>4 DEF ListsAre, PlacesOK, IsList
<1>6. link' = link
  BY <1>1, <1>2, <1>5 DEF TypeOK
<1>7. Pushing' = Pushing /\ Unused' = Unused /\ Uncounted' = Uncounted
  BY <1>1 DEF Pushing, Unused, Uncounted
<1>8. PlacesOK(D, R, <<>>)'
  <2>1. IsList(link', list', <<>>) /\ Range(<<>>) = {}
    BY <1>1, EmptyIsList, EmptyFacts
  <2> QED BY <2>1, <1>1, <1>3, <1>6, <1>7 DEF ListsAre, PlacesOK
<1>9. OwnerOK(<<>>)'
  BY <1>1 DEF OwnerOK
<1>10. CountsOK(D, R, <<>>)'
  <2>1. Len(<<>>) = 0 /\ Len(L) = 0
    BY <1>3
  <2>2. /\ Len(R) \in Nat /\ Len(R) + Len(D) <= Cardinality(Slots)
        /\ Cardinality(Uncounted) \in Nat /\ Cardinality(Uncounted) <= Cardinality(Remotes)
        /\ Len(D) <= Cardinality(Slots)
    <3>1. Len(R) \in Nat /\ Len(R) + Len(D) <= Cardinality(Slots)
      BY ListsFit DEF ListsAre, PlacesOK
    <3>2. Cardinality(Uncounted) \in Nat /\ Cardinality(Uncounted) <= Cardinality(Remotes)
      BY SizeFacts DEF Uncounted
    <3> QED BY <3>1, <3>2, <1>4, SlotFacts
  <2>3. (localCount + count) % CountMod = Len(D)
    <3>1. localCount + count = Len(D)
      BY <1>2, <1>4, <2>1 DEF ListsAre, CountsOK
    <3> QED BY <3>1, <1>4, <2>2, CountFits, SlotFacts
  <2> DEFINE before == Len(R) + Len(D) - Cardinality(Uncounted)
             after  == Len(R) + 0 - Cardinality(Uncounted)
  <2>4. (remoteCount - count) % CountMod = IF after < 0 THEN after + CountMod ELSE after
    <3>1. remoteCount = IF before < 0 THEN before + CountMod ELSE before
      BY DEF ListsAre, CountsOK
    <3>2. /\ CountMod \in Nat /\ CountMod > Cardinality(Slots) + Cardinality(Remotes)
          /\ Cardinality(Slots) \in Nat /\ Cardinality(Remotes) \in Nat
      BY SlotFacts, ListsAssumption
    <3>3. remoteCount - count \in Int
          /\ remoteCount - count = IF before < 0 THEN after + CountMod ELSE after
      BY <3>1, <3>2, <2>2, <1>2, <1>4
    <3>4. after < CountMod /\ -CountMod <= after /\ after \in Int /\ after <= before
      BY <3>2, <2>2, <1>4
    <3> HIDE DEF before, after
    <3>5. /\ CountMod > 0 /\ -CountMod <= remoteCount - count
          /\ remoteCount - count < 2 * CountMod
      BY <3>2, <3>3, <3>4
    <3>6. (remoteCount - count) % CountMod =
            LET a == remoteCount - count
            IN  IF a < 0 THEN a + CountMod ELSE IF a < CountMod THEN a ELSE a - CountMod
      BY <3>2, <3>3, <3>5, ModWraps
    <3> QED BY <3>2, <3>3, <3>4, <3>6
  <2> QED BY <2>1, <2>3, <2>4, <1>1, <1>7 DEF ListsAre, CountsOK
<1>11. RemotesOK'
  BY <1>1, <1>6 DEF ListsAre, RemotesOK
<1>12. TypeOK'
  <2>1. localCount' \in 0 .. Cardinality(Slots)
    BY <1>8, <1>10, ListFits DEF CountsOK, PlacesOK
  <2>2. remoteCount' \in 0 .. CountMod - 1
    <3>1. remoteCount - count \in Int /\ CountMod \in Nat /\ CountMod > 0
      BY <1>2, <1>4, SlotFacts, ListsAssumption DEF TypeOK
    <3> QED BY <3>1, <1>1
  <2>3. count' \in 0 .. Cardinality(Slots) /\ localFree' \in Pointer /\ list' \in Pointer
        /\ current' \in Pointer
    BY <1>1, SlotFacts DEF TypeOK
  <2> QED BY <1>1, <1>6, <2>1, <2>2, <2>3 DEF TypeOK
<1> QED BY <1>1, <1>3, <1>7, <1>8, <1>9, <1>10, <1>11, <1>12 DEF ListsAre
-----------------------------------------------------------------------------
(* The steps of the other threads.                                         *)

\* Another thread frees a slot that the program holds.
LEMMA FreeRemoteStep ==
    ASSUME TypeOK, NEW L, NEW R, NEW D, ListsAre(L, R, D),
           NEW r \in Remotes, NEW s \in Slots, FreeRemote(r, s)
    PROVE  TypeOK' /\ ListsAre(L, R, D)' /\ UNCHANGED <<link, list, localFree, head>>
           /\ live' \cup Pushing' = live \cup Pushing
<1>1. /\ rpc[r] = "idle" /\ s \in live /\ live' = live \ {s} /\ bitmap' = bitmap \ {s}
      /\ node' = [node EXCEPT ![r] = s] /\ rpc' = [rpc EXCEPT ![r] = "load"]
      /\ UNCHANGED <<head, localFree, localCount, remoteCount, used, link, opc, oldHead,
                     list, current, count, old>>
  BY DEF FreeRemote
<1>2. s # NULL /\ node[r] = NULL
  BY <1>1, SlotFacts DEF ListsAre, RemotesOK
<1>3. \A u \in Remotes : /\ u = r => node'[u] = s /\ rpc'[u] = "load"
                         /\ u # r => node'[u] = node[u] /\ rpc'[u] = rpc[u]
  BY <1>1 DEF TypeOK
<1>4. Pushing' = Pushing \cup {s}
  BY <1>2, <1>3 DEF Pushing
<1>5. \A u \in Remotes : node[u] # s
  BY <1>1, <1>2 DEF ListsAre, PlacesOK, Pushing
<1>6. PlacesOK(L, R, D)'
  <2>1. s \notin Range(L) /\ s \notin Range(R) /\ s \notin Range(D)
    BY <1>1, Zenon DEF ListsAre, PlacesOK
  <2>2. \A u, v \in Remotes : node'[u] = node'[v] /\ node'[u] # NULL => u = v
    BY <1>3, <1>5, Zenon DEF ListsAre, PlacesOK
  <2> QED BY <2>1, <2>2, <1>1, <1>4 DEF ListsAre, PlacesOK
<1>7. RemotesOK'
  BY <1>1, <1>2, <1>3 DEF ListsAre, RemotesOK
<1>8. OwnerOK(D)'
  BY <1>1, Zenon DEF ListsAre, OwnerOK
<1>9. CountsOK(L, R, D)'
  <2>1. Cardinality(live \ {s}) = Cardinality(live) - 1
    BY <1>1, SizeFacts DEF TypeOK
  <2>2. Unused' = Unused \cup {r} /\ r \notin Unused
    BY <1>1, <1>3 DEF Unused
  <2>3. Cardinality(Unused \cup {r}) = Cardinality(Unused) + 1 /\ Cardinality(Unused) \in Nat
    BY <2>2, SizeFacts DEF Unused
  <2>4. Uncounted' = Uncounted
    BY <1>1, <1>3 DEF Uncounted
  <2>5. Cardinality(live) \in Nat
    BY SizeFacts DEF TypeOK
  <2>6. used' = Cardinality(live') + Cardinality(Unused')
    BY <2>1, <2>2, <2>3, <2>5, <1>1 DEF ListsAre, CountsOK
  <2> QED BY <2>4, <2>6, <1>1, Zenon DEF ListsAre, CountsOK
<1>10. TypeOK'
  BY <1>1 DEF TypeOK, Pointer
<1> QED BY <1>1, <1>4, <1>6, <1>7, <1>8, <1>9, <1>10 DEF ListsAre

\* treiber_push loads the head and links the slot to it.
LEMMA PushLoadStep ==
    ASSUME TypeOK, NEW L, NEW R, NEW D, ListsAre(L, R, D), NEW r \in Remotes, PushLoad(r)
    PROVE  TypeOK' /\ ListsAre(L, R, D)' /\ UNCHANGED <<list, localFree, head, live>>
           /\ Pushing' = Pushing
<1>1. /\ rpc[r] = "load" /\ old' = [old EXCEPT ![r] = head]
      /\ link' = [link EXCEPT ![node[r]] = head.ptr] /\ rpc' = [rpc EXCEPT ![r] = "cas"]
      /\ UNCHANGED <<head, localFree, localCount, remoteCount, used, bitmap, live,
                     opc, oldHead, list, current, count, node>>
  BY DEF PushLoad, PushLoadLinking
<1>2. node[r] # NULL /\ node[r] \in Slots /\ node[r] \in Pushing
  BY <1>1 DEF ListsAre, RemotesOK, TypeOK, Pointer, Pushing
<1>3. node[r] \notin Range(L) /\ node[r] \notin Range(R) /\ node[r] \notin Range(D)
  BY <1>2, Zenon DEF ListsAre, PlacesOK
<1>4. /\ IsList(link', localFree, L)
      /\ IsList(link', head.ptr, R)
      /\ IsList(link', list, D)
  BY <1>1, <1>3, WriteIsList DEF ListsAre, PlacesOK
<1>5. Pushing' = Pushing
  BY <1>1 DEF Pushing
<1>6. PlacesOK(L, R, D)'
  BY <1>1, <1>4, <1>5, Zenon DEF ListsAre, PlacesOK
<1>7. \A u \in Remotes : /\ u = r => old'[u] = head /\ rpc'[u] = "cas"
                         /\ u # r => old'[u] = old[u] /\ rpc'[u] = rpc[u]
  BY <1>1 DEF TypeOK
<1>8. RemotesOK'
  <2> SUFFICES ASSUME NEW u \in Remotes
               PROVE  /\ node[u] # NULL <=> rpc'[u] \in {"load", "cas"}
                      /\ rpc'[u] = "cas" =>
                           old'[u] \in Tagged /\ link'[node[u]] = old'[u].ptr
    BY <1>1 DEF RemotesOK
  <2>1. CASE u = r
    <3>1. link'[node[r]] = head.ptr /\ head \in Tagged
      BY <1>1, <1>2 DEF TypeOK
    <3> QED BY <2>1, <3>1, <1>2, <1>7
  <2>2. CASE u # r
    <3>1. rpc[u] = "cas" => node[u] # node[r]
      BY <2>2, <1>2, Zenon DEF ListsAre, PlacesOK
    <3> QED BY <2>2, <3>1, <1>1, <1>7 DEF ListsAre, RemotesOK
  <2> QED BY <2>1, <2>2
<1>9. OwnerOK(D)'
  BY <1>1, Zenon DEF ListsAre, OwnerOK
<1>10. CountsOK(L, R, D)'
  <2>1. Unused' = Unused /\ Uncounted' = Uncounted
    BY <1>1, <1>7 DEF Unused, Uncounted
  <2> QED BY <2>1, <1>1, Zenon DEF ListsAre, CountsOK
<1>11. TypeOK'
  <2>1. head.ptr \in Pointer
    BY DEF TypeOK, Tagged
  <2> QED BY <2>1, <1>1 DEF TypeOK
<1> QED BY <1>1, <1>5, <1>6, <1>8, <1>9, <1>10, <1>11 DEF ListsAre

\* treiber_push swaps the head.  It is the one the slot is linked to, be it for the
\* first time or again.
LEMMA PushCASStep ==
    ASSUME TypeOK, NEW L, NEW R, NEW D, ListsAre(L, R, D), NEW r \in Remotes, PushCAS(r),
           NEW x, x = node[r]
    PROVE  /\ TypeOK' /\ ListsAre(L, <<x>> \o R, D)'
           /\ UNCHANGED <<link, list, localFree, live>>
           /\ x \in Pushing /\ x \in Slots /\ x \notin live /\ Pushing' = Pushing \ {x}
<1>1. /\ rpc[r] = "cas" /\ head = old[r]
      /\ head' = Retag(x, head) /\ rpc' = [rpc EXCEPT ![r] = "count"]
      /\ node' = [node EXCEPT ![r] = NULL] /\ old' = [old EXCEPT ![r] = NULL]
      /\ UNCHANGED <<localFree, localCount, remoteCount, used, bitmap, link, live,
                     opc, oldHead, list, current, count>>
  BY DEF PushCAS, PushStore
<1>2. x # NULL /\ x \in Slots /\ x \in Pushing /\ link[x] = head.ptr
  BY <1>1 DEF ListsAre, RemotesOK, TypeOK, Pointer, Pushing
<1>3. x \notin Range(L) /\ x \notin Range(R) /\ x \notin Range(D) /\ x \notin live
  BY <1>2, Zenon DEF ListsAre, PlacesOK
<1>4. head' \in Tagged /\ head'.ptr = x
  BY <1>1, <1>2, RetagType DEF TypeOK, Pointer
<1>5. /\ IsList(link, x, <<x>> \o R)
      /\ Range(<<x>> \o R) = Range(R) \cup {x}
      /\ Len(<<x>> \o R) = Len(R) + 1
  BY <1>2, <1>3, ConsIsList DEF ListsAre, PlacesOK
<1>6. \A u \in Remotes :
        /\ u = r => node'[u] = NULL /\ old'[u] = NULL /\ rpc'[u] = "count"
        /\ u # r => node'[u] = node[u] /\ old'[u] = old[u] /\ rpc'[u] = rpc[u]
  BY <1>1 DEF TypeOK
<1>7. \A u \in Remotes : u # r => node[u] # x
  BY <1>2, Zenon DEF ListsAre, PlacesOK
<1>8. Pushing' = Pushing \ {x}
  BY <1>2, <1>6, <1>7 DEF Pushing
<1>9. PlacesOK(L, <<x>> \o R, D)'
  <2>1. \A u, v \in Remotes : node'[u] = node'[v] /\ node'[u] # NULL => u = v
    BY <1>6, Zenon DEF ListsAre, PlacesOK
  <2>2. /\ IsList(link', localFree', L) /\ IsList(link', head'.ptr, <<x>> \o R)
        /\ IsList(link', list', D)
    BY <1>1, <1>4, <1>5, Zenon DEF ListsAre, PlacesOK
  <2>3. /\ Range(L) \cap Range(<<x>> \o R) = {}
        /\ Range(L) \cap Range(D) = {}
        /\ Range(<<x>> \o R) \cap Range(D) = {}
        /\ live \cap (Range(L) \cup Range(<<x>> \o R) \cup Range(D)) = {}
    BY <1>3, <1>5 DEF ListsAre, PlacesOK
  <2>4. /\ (Pushing \ {x}) \cap (live \cup Range(L) \cup Range(<<x>> \o R) \cup Range(D)) = {}
        /\ Slots = live \cup (Pushing \ {x}) \cup Range(L) \cup Range(<<x>> \o R) \cup Range(D)
    BY <1>2, <1>3, <1>5 DEF ListsAre, PlacesOK
  <2> QED BY <2>1, <2>2, <2>3, <2>4, <1>1, <1>8, Zenon DEF PlacesOK
<1>10. RemotesOK'
  BY <1>1, <1>6 DEF ListsAre, RemotesOK
<1>11. OwnerOK(D)'
  BY <1>1, Zenon DEF ListsAre, OwnerOK
<1>12. CountsOK(L, <<x>> \o R, D)'
  <2>1. Unused' = Unused
    BY <1>1, <1>6 DEF Unused
  <2>2. Uncounted' = Uncounted \cup {r} /\ r \notin Uncounted
    BY <1>1, <1>6 DEF Uncounted
  <2>3. /\ Cardinality(Uncounted \cup {r}) = Cardinality(Uncounted) + 1
        /\ Cardinality(Uncounted) \in Nat
    BY <2>2, SizeFacts DEF Uncounted
  <2>4. Len(R) \in Nat /\ Len(D) \in Nat
    BY ListsFit DEF ListsAre, PlacesOK
  <2>5. Len(<<x>> \o R) + Len(D) - Cardinality(Uncounted') =
          Len(R) + Len(D) - Cardinality(Uncounted)
    BY <2>2, <2>3, <2>4, <1>5
  <2> QED BY <2>1, <2>5, <1>1, Zenon DEF ListsAre, CountsOK
<1>13. TypeOK'
  BY <1>1, <1>4, SlotFacts DEF TypeOK
<1> QED BY <1>1, <1>2, <1>3, <1>8, <1>9, <1>10, <1>11, <1>12, <1>13 DEF ListsAre

\* The compare-and-swap of treiber_push fails.
LEMMA PushFailsStep ==
    ASSUME TypeOK, NEW L, NEW R, NEW D, ListsAre(L, R, D), NEW r \in Remotes, PushFails(r)
    PROVE  TypeOK' /\ ListsAre(L, R, D)' /\ UNCHANGED <<link, list, localFree, head, live>>
           /\ Pushing' = Pushing
<1>1. /\ rpc[r] = "cas" /\ rpc' = [rpc EXCEPT ![r] = "load"] /\ old' = [old EXCEPT ![r] = NULL]
      /\ UNCHANGED <<head, localFree, localCount, remoteCount, used, bitmap, link, live,
                     opc, oldHead, list, current, count, node>>
  BY DEF PushFails
<1>2. \A u \in Remotes : /\ u = r => rpc'[u] = "load"
                         /\ u # r => old'[u] = old[u] /\ rpc'[u] = rpc[u]
  BY <1>1 DEF TypeOK
<1>3. Pushing' = Pushing /\ Unused' = Unused /\ Uncounted' = Uncounted
  BY <1>1, <1>2 DEF Pushing, Unused, Uncounted
<1>4. PlacesOK(L, R, D)'
  BY <1>1, <1>3, Zenon DEF ListsAre, PlacesOK
<1>5. RemotesOK'
  BY <1>1, <1>2 DEF ListsAre, RemotesOK
<1>6. OwnerOK(D)' /\ CountsOK(L, R, D)'
  BY <1>1, <1>3 DEF ListsAre, OwnerOK, CountsOK
<1>7. TypeOK'
  BY <1>1 DEF TypeOK
<1> QED BY <1>1, <1>3, <1>4, <1>5, <1>6, <1>7 DEF ListsAre

\* page_free_slot_remote counts the slot it has pushed, then takes it off used.
LEMMA PushCountedStep ==
    ASSUME TypeOK, NEW L, NEW R, NEW D, ListsAre(L, R, D), NEW r \in Remotes,
           PushCounted(r) \/ PushReturns(r)
    PROVE  TypeOK' /\ ListsAre(L, R, D)' /\ UNCHANGED <<link, list, localFree, head, live>>
           /\ Pushing' = Pushing
<1>1. /\ rpc[r] \in {"count", "used"} /\ rpc' = [rpc EXCEPT ![r] = rpc'[r]]
      /\ rpc'[r] = IF rpc[r] = "count" THEN "used" ELSE "idle"
      /\ remoteCount' = IF rpc[r] = "count" THEN (remoteCount + 1) % CountMod ELSE remoteCount
      /\ used' = IF rpc[r] = "used" THEN (used - 1) % CountMod ELSE used
      /\ UNCHANGED <<head, localFree, localCount, bitmap, link, live,
                     opc, oldHead, list, current, count, node, old>>
  BY DEF PushCounted, PushReturns, TypeOK
<1>2. \A u \in Remotes : u # r => rpc'[u] = rpc[u]
  BY <1>1 DEF TypeOK
<1>3. Pushing' = Pushing
  BY <1>1 DEF Pushing
<1>4. PlacesOK(L, R, D)'
  BY <1>1, <1>3, Zenon DEF ListsAre, PlacesOK
<1>5. RemotesOK'
  BY <1>1, <1>2, Zenon DEF ListsAre, RemotesOK
<1>6. OwnerOK(D)'
  BY <1>1, Zenon DEF ListsAre, OwnerOK
<1>7. used' = Cardinality(live) + Cardinality(Unused')
  <2>1. CASE rpc[r] = "count"
    <3>1. Unused' = Unused
      BY <2>1, <1>1, <1>2 DEF Unused
    <3> QED BY <2>1, <3>1, <1>1, Zenon DEF ListsAre, CountsOK
  <2>2. CASE rpc[r] = "used"
    <3>1. Unused' = Unused \ {r} /\ r \in Unused
      BY <2>2, <1>1, <1>2 DEF Unused
    <3>2. Cardinality(Unused \ {r}) = Cardinality(Unused) - 1 /\ Cardinality(Unused) \in Nat
      BY <3>1, SizeFacts DEF Unused
    <3>3. Cardinality(live) \in Nat
      BY SizeFacts DEF TypeOK
    <3>4. used - 1 = Cardinality(live) + Cardinality(Unused \ {r})
      BY <3>2, <3>3 DEF ListsAre, CountsOK
    <3>5. used - 1 \in 0 .. Cardinality(Slots) + Cardinality(Remotes)
      BY <3>4, UsedFits DEF TypeOK, Unused
    <3> QED BY <2>2, <3>1, <3>4, <3>5, <1>1, CountFits, SlotFacts
  <2> QED BY <2>1, <2>2, <1>1
<1>8. remoteCount' = LET net == Len(R) + Len(D) - Cardinality(Uncounted')
                     IN  IF net < 0 THEN net + CountMod ELSE net
  <2>1. CASE rpc[r] = "used"
    <3>1. Uncounted' = Uncounted
      BY <2>1, <1>1, <1>2 DEF Uncounted
    <3> QED BY <2>1, <3>1, <1>1, Zenon DEF ListsAre, CountsOK
  <2>2. CASE rpc[r] = "count"
    <3>1. Uncounted' = Uncounted \ {r} /\ r \in Uncounted
      BY <2>2, <1>1, <1>2 DEF Uncounted
    <3>2. /\ Cardinality(Uncounted \ {r}) = Cardinality(Uncounted) - 1
          /\ Cardinality(Uncounted) \in Nat /\ Cardinality(Uncounted) <= Cardinality(Remotes)
          /\ Cardinality(Uncounted \ {r}) \in Nat
      BY <3>1, SizeFacts DEF Uncounted
    <3>3. /\ Len(R) \in Nat /\ Len(D) \in Nat /\ Len(R) + Len(D) <= Cardinality(Slots)
      BY ListsFit DEF ListsAre, PlacesOK
    <3>4. /\ CountMod \in Nat /\ CountMod > Cardinality(Slots) + Cardinality(Remotes)
          /\ Cardinality(Slots) \in Nat /\ Cardinality(Remotes) \in Nat
      BY SlotFacts, ListsAssumption
    <3> DEFINE net == Len(R) + Len(D) - Cardinality(Uncounted)
    <3>5. /\ net \in Int /\ net + 1 < CountMod /\ -CountMod < net
          /\ Len(R) + Len(D) - Cardinality(Uncounted') = net + 1
      BY <3>1, <3>2, <3>3, <3>4
    <3>6. remoteCount = IF net < 0 THEN net + CountMod ELSE net
      BY DEF ListsAre, CountsOK
    <3> HIDE DEF net
    <3>7. /\ remoteCount + 1 \in Int /\ -CountMod <= remoteCount + 1
          /\ remoteCount + 1 < 2 * CountMod /\ CountMod > 0
      BY <3>4, <3>5, <3>6
    <3>8. (remoteCount + 1) % CountMod =
            LET a == remoteCount + 1
            IN  IF a < 0 THEN a + CountMod ELSE IF a < CountMod THEN a ELSE a - CountMod
      BY <3>4, <3>7, ModWraps
    <3>9. (remoteCount + 1) % CountMod = IF net + 1 < 0 THEN net + 1 + CountMod ELSE net + 1
      BY <3>4, <3>5, <3>6, <3>8
    <3> QED BY <2>2, <3>5, <3>9, <1>1
  <2> QED BY <2>1, <2>2, <1>1
<1>9. CountsOK(L, R, D)'
  BY <1>1, <1>7, <1>8, Zenon DEF ListsAre, CountsOK
<1>10. TypeOK'
  <2>1. used' \in 0 .. Cardinality(Slots) + Cardinality(Remotes)
    BY <1>7, UsedFits DEF TypeOK, Unused
  <2>2. remoteCount' \in 0 .. CountMod - 1
    <3>1. remoteCount + 1 \in Int /\ CountMod \in Nat /\ CountMod > 0
      BY SlotFacts, ListsAssumption DEF TypeOK
    <3> QED BY <3>1, <1>1 DEF TypeOK
  <2>3. rpc' \in [Remotes -> {"idle", "load", "cas", "count", "used"}]
    BY <1>1, <1>2 DEF TypeOK
  <2> QED BY <2>1, <2>2, <2>3, <1>1 DEF TypeOK
<1> QED BY <1>1, <1>3, <1>4, <1>5, <1>6, <1>9, <1>10 DEF ListsAre
-----------------------------------------------------------------------------
(* The invariant, and what follows from it.                                *)

\* The lists are the chains of the links.
LEMMA ListsAreChains ==
    ASSUME TypeOK, NEW L, NEW R, NEW D, ListsAre(L, R, D)
    PROVE  /\ L = Chain(link, localFree)
           /\ R = Chain(link, head.ptr)
           /\ D = Chain(link, list)
BY ChainIs DEF TypeOK, ListsAre, PlacesOK

\* The same of the state a step leads to.
LEMMA ListsAreChainsNext ==
    ASSUME TypeOK', NEW L, NEW R, NEW D, ListsAre(L, R, D)'
    PROVE  /\ L = Chain(link', localFree')
           /\ R = Chain(link', head'.ptr)
           /\ D = Chain(link', list')
<1>1. /\ link' \in [Slots -> Pointer]
      /\ IsList(link', localFree', L) /\ IsList(link', head'.ptr, R) /\ IsList(link', list', D)
  BY DEF TypeOK, ListsAre, PlacesOK
<1> QED BY <1>1, ChainIs

\* The full page.
LEMMA ListsInvInit == Init => ListsInv
<1> SUFFICES ASSUME Init PROVE ListsInv
  OBVIOUS
<1>1. TypeOK
  <2>1. head \in Tagged
    BY ListsAssumption, SlotFacts DEF Init, Tagged
  <2> QED BY <2>1, SlotFacts, ListsAssumption DEF Init, TypeOK
<1>2. Pushing = {} /\ Unused = {} /\ Uncounted = {}
  BY DEF Init, Pushing, Unused, Uncounted
<1>3. PlacesOK(<<>>, <<>>, <<>>)
  BY <1>2, EmptyIsList, EmptyFacts DEF Init, PlacesOK
<1>4. RemotesOK /\ OwnerOK(<<>>)
  BY DEF Init, RemotesOK, OwnerOK
<1>5. CountsOK(<<>>, <<>>, <<>>)
  BY <1>2, FS_EmptySet, SlotFacts DEF Init, CountsOK
<1>6. ListsAre(<<>>, <<>>, <<>>)
  BY <1>3, <1>4, <1>5 DEF ListsAre
<1> QED BY <1>1, <1>6, ListsAreChains DEF ListsInv

\* Every step leaves lists behind, and is a step of PageLists or changes none of them.
LEMMA ListsInvStep ==
    ASSUME ListsInv, [Next]_vars
    PROVE  ListsInv' /\ [lists!Next]_(lists!vars)
<1>1. PICK L, R, D : /\ L = Chain(link, localFree) /\ R = Chain(link, head.ptr)
                     /\ D = Chain(link, list)
  OBVIOUS
<1>2. TypeOK /\ ListsAre(L, R, D)
  BY <1>1 DEF ListsInv
<1>3. ASSUME NEW L2, NEW R2, NEW D2, TypeOK', ListsAre(L2, R2, D2)'
      PROVE  /\ ListsInv'
             /\ L2 = Chain(link', localFree') /\ R2 = Chain(link', head'.ptr)
             /\ D2 = Chain(link', list')
  <2>1. /\ L2 = Chain(link', localFree') /\ R2 = Chain(link', head'.ptr)
        /\ D2 = Chain(link', list')
    BY <1>3, ListsAreChainsNext
  <2>2. ListsAre(Chain(link, localFree), Chain(link, head.ptr), Chain(link, list))'
    BY <1>3, <2>1
  <2> QED BY <1>3, <2>1, <2>2 DEF ListsInv
<1>4. ASSUME NEW L2, NEW R2, NEW D2, TypeOK', ListsAre(L2, R2, D2)',
             D2 \o L2 = D \o L, R2 = R, live' \cup Pushing' = live \cup Pushing
      PROVE  ListsInv' /\ [lists!Next]_(lists!vars)
  BY <1>1, <1>3, <1>4 DEF lists!vars
<1>5. D \in Seq(Slots) /\ L \in Seq(Slots) /\ R \in Seq(Slots)
  BY <1>2 DEF ListsAre, PlacesOK, IsList
<1>6. CASE Pop
  <2>1. /\ TypeOK' /\ ListsAre(Tail(L), R, D)' /\ D = <<>> /\ L # <<>>
        /\ live' = live \cup {Head(L)} /\ Pushing' = Pushing
    BY <1>2, <1>6, PopStep
  <2>2. /\ ListsInv'
        /\ Tail(L) = Chain(link', localFree') /\ R = Chain(link', head'.ptr)
        /\ D = Chain(link', list')
    <3>1. PICK L2 : L2 = Tail(L)
      OBVIOUS
    <3>2. ListsAre(L2, R, D)'
      BY <2>1, <3>1
    <3>3. /\ ListsInv'
          /\ L2 = Chain(link', localFree') /\ R = Chain(link', head'.ptr)
          /\ D = Chain(link', list')
      BY <2>1, <3>2, <1>3
    <3> QED BY <3>1, <3>3
  <2>3. D \o L = L /\ D \o Tail(L) = Tail(L)
    BY <2>1, <1>5
  <2>4. lists!Pop
    BY <2>1, <2>2, <2>3, <1>1 DEF lists!Pop
  <2> QED BY <2>2, <2>4 DEF lists!Next
<1>7. ASSUME NEW s \in Slots, FreeLocal(s) PROVE ListsInv' /\ [lists!Next]_(lists!vars)
  <2>1. /\ TypeOK' /\ ListsAre(<<s>> \o L, R, D)' /\ D = <<>> /\ s \in live
        /\ live' = live \ {s} /\ Pushing' = Pushing /\ s \notin Pushing
    BY <1>2, <1>7, FreeLocalStep
  <2>2. /\ ListsInv'
        /\ <<s>> \o L = Chain(link', localFree') /\ R = Chain(link', head'.ptr)
        /\ D = Chain(link', list')
    <3>1. PICK L2 : L2 = <<s>> \o L
      OBVIOUS
    <3>2. ListsAre(L2, R, D)'
      BY <2>1, <3>1
    <3>3. /\ ListsInv'
          /\ L2 = Chain(link', localFree') /\ R = Chain(link', head'.ptr)
          /\ D = Chain(link', list')
      BY <2>1, <3>2, <1>3
    <3> QED BY <3>1, <3>3
  <2>3. D \o L = L /\ D \o (<<s>> \o L) = <<s>> \o L
    BY <2>1, <1>5
  <2>4. lists!FreeLocal(s)
    BY <2>1, <2>2, <2>3, <1>1 DEF lists!FreeLocal
  <2> QED BY <2>2, <2>4 DEF lists!Next
<1>8. CASE CollectLoad \/ CollectFails
  BY <1>2, <1>4, <1>8, CollectStep
<1>9. CASE CollectCAS
  <2>1. /\ TypeOK' /\ ListsAre(L, <<>>, R)' /\ D = <<>> /\ L = <<>> /\ R # <<>>
        /\ live' = live /\ Pushing' = Pushing
    BY <1>2, <1>9, CollectCASStep
  <2>2. /\ ListsInv'
        /\ L = Chain(link', localFree') /\ <<>> = Chain(link', head'.ptr)
        /\ R = Chain(link', list')
    BY <2>1, <1>3
  <2>3. D \o L = <<>> /\ R \o L = R
    BY <2>1, <1>5
  <2>4. lists!Collect
    BY <2>1, <2>2, <2>3, <1>1 DEF lists!Collect
  <2> QED BY <2>2, <2>4 DEF lists!Next
<1>10. CASE Walk
  BY <1>2, <1>4, <1>10, WalkStep
<1>11. CASE Splice
  <2>1. TypeOK' /\ ListsAre(D, R, <<>>)' /\ L = <<>> /\ live' = live /\ Pushing' = Pushing
    BY <1>2, <1>11, SpliceStep
  <2>2. <<>> \o D = D \o L
    BY <2>1, <1>5
  <2> QED BY <2>1, <2>2, <1>4
<1>12. ASSUME NEW r \in Remotes, NEW s \in Slots, FreeRemote(r, s)
       PROVE  ListsInv' /\ [lists!Next]_(lists!vars)
  BY <1>2, <1>4, <1>12, FreeRemoteStep
<1>13. ASSUME NEW r \in Remotes, PushLoad(r) PROVE ListsInv' /\ [lists!Next]_(lists!vars)
  BY <1>2, <1>4, <1>13, PushLoadStep
<1>14. ASSUME NEW r \in Remotes, PushCAS(r) PROVE ListsInv' /\ [lists!Next]_(lists!vars)
  <2>1. PICK x : x = node[r]
    OBVIOUS
  <2>2. /\ TypeOK' /\ ListsAre(L, <<x>> \o R, D)' /\ live' = live
        /\ x \in Pushing /\ x \in Slots /\ x \notin live /\ Pushing' = Pushing \ {x}
    BY <2>1, <1>2, <1>14, PushCASStep
  <2>3. /\ ListsInv'
        /\ L = Chain(link', localFree') /\ <<x>> \o R = Chain(link', head'.ptr)
        /\ D = Chain(link', list')
    BY <2>2, <1>3
  <2>4. lists!Push(x)
    BY <2>2, <2>3, <1>1 DEF lists!Push
  <2> QED BY <2>2, <2>3, <2>4 DEF lists!Next
<1>15. ASSUME NEW r \in Remotes, PushFails(r) PROVE ListsInv' /\ [lists!Next]_(lists!vars)
  BY <1>2, <1>4, <1>15, PushFailsStep
<1>16. ASSUME NEW r \in Remotes, PushCounted(r) \/ PushReturns(r)
       PROVE  ListsInv' /\ [lists!Next]_(lists!vars)
  BY <1>2, <1>4, <1>16, PushCountedStep
<1>17. CASE UNCHANGED vars
  <2>1. /\ TypeOK' /\ OwnerOK(D)' /\ UNCHANGED <<listVars, remoteVars>>
    BY <1>2, <1>17 DEF vars, TypeOK, listVars, ListsAre, OwnerOK
  <2>2. ListsAre(L, R, D)' /\ live' = live /\ Pushing' = Pushing
    BY <1>2, <2>1, SameLists DEF ListsAre, listVars
  <2> QED BY <2>1, <2>2, <1>4
<1> QED
  BY <1>6, <1>7, <1>8, <1>9, <1>10, <1>11, <1>12, <1>13, <1>14, <1>15, <1>16, <1>17
     DEF Next, OwnerStep

\* However the owner and the other threads interleave, the links form the lists that the
\* program's calls have made, and the counters can be explained.
THEOREM ListsSafety == Spec => []ListsInv
<1>1. ListsInv /\ [Next]_vars => ListsInv'
  BY ListsInvStep
<1> QED BY <1>1, ListsInvInit, PTL DEF Spec

\* The local variables and fields keep their types: the 16-bit counters of a page never
\* overflow, and the walk never runs past the slots.
THEOREM ListsTypes == Spec => []TypeOK
<1>1. ListsInv => TypeOK
  BY DEF ListsInv
<1> QED BY <1>1, ListsSafety, PTL

\* The links implement two sequences with atomic operations, for any number of slots
\* and threads and with any tag, also one that counts nothing.
THEOREM ListsRefinement == Spec => ListsSpec
<1>1. Init => lists!Init
  <2> SUFFICES ASSUME Init PROVE lists!Init
    OBVIOUS
  <2>1. Pushing = {} /\ link \in [Slots -> Pointer]
    BY DEF Init, Pushing
  <2>2. Chain(link, NULL) = <<>>
    BY <2>1, ChainIs, EmptyIsList
  <2> QED BY <2>1, <2>2 DEF Init, lists!Init
<1>2. ListsInv /\ [Next]_vars => [lists!Next]_(lists!vars)
  BY ListsInvStep
<1> QED BY <1>1, <1>2, ListsSafety, PTL DEF Spec, ListsSpec, lists!Spec

\* A page at rest passes debug_heap_check.
THEOREM HeapCheckSafety == Spec => []QuiescentHeapOK
<1>1. ListsInv => QuiescentHeapOK
  <2> SUFFICES ASSUME ListsInv, opc = "idle", \A r \in Remotes : rpc[r] = "idle"
               PROVE  DebugHeapCheck
    BY DEF QuiescentHeapOK
  <2>1. PICK L, R, D : /\ L = Chain(link, localFree) /\ R = Chain(link, head.ptr)
                       /\ D = Chain(link, list)
    OBVIOUS
  <2>2. TypeOK /\ ListsAre(L, R, D)
    BY <2>1 DEF ListsInv
  <2>3. D = <<>> /\ Pushing = {} /\ Unused = {} /\ Uncounted = {}
    BY <2>2, NullIsList DEF ListsAre, PlacesOK, OwnerOK, RemotesOK, Pushing, Unused, Uncounted
  <2>4. /\ Len(L) \in Nat /\ Len(R) \in Nat /\ Len(D) = 0
        /\ Cardinality(Unused) = 0 /\ Cardinality(Uncounted) = 0
    BY <2>2, <2>3, ListsFit, FS_EmptySet DEF ListsAre, PlacesOK
  <2>5. used = Cardinality(live) /\ remoteCount = Len(R) /\ localCount = Len(L)
        /\ bitmap = live /\ Cardinality(live) \in Nat
    BY <2>2, <2>4, SizeFacts DEF ListsAre, CountsOK, TypeOK
  <2>6. /\ IsFiniteSet(Range(L)) /\ Cardinality(Range(L)) = Len(L)
        /\ IsFiniteSet(Range(R)) /\ Cardinality(Range(R)) = Len(R)
        /\ Len(L) <= Cardinality(Slots)
    BY <2>2, InjectiveLen, ListsAssumption DEF ListsAre, PlacesOK, IsList
  <2>7. /\ Slots = live \cup (Range(L) \cup Range(R))
        /\ live \cap (Range(L) \cup Range(R)) = {} /\ Range(L) \cap Range(R) = {}
    BY <2>2, <2>3, EmptyFacts DEF ListsAre, PlacesOK
  <2>8. Cardinality(Slots) = Cardinality(live) + Len(L) + Len(R)
    <3>1. /\ IsFiniteSet(Range(L) \cup Range(R))
          /\ Cardinality(Range(L) \cup Range(R)) =
               Cardinality(Range(L)) + Cardinality(Range(R)) - Cardinality(Range(L) \cap Range(R))
      BY <2>6, FS_Union, Zenon
    <3>2. Cardinality(live \cup (Range(L) \cup Range(R))) =
            Cardinality(live) + Cardinality(Range(L) \cup Range(R))
              - Cardinality(live \cap (Range(L) \cup Range(R)))
      BY <3>1, <2>2, FS_Union, SizeFacts, Zenon DEF TypeOK
    <3>3. /\ Cardinality(Range(L) \cap Range(R)) = 0
          /\ Cardinality(live \cap (Range(L) \cup Range(R))) = 0
      BY <2>7, FS_EmptySet
    <3>4. Cardinality(Slots) = Cardinality(live \cup (Range(L) \cup Range(R)))
      BY <2>7, Zenon
    <3> QED BY <3>1, <3>2, <3>3, <3>4, <2>4, <2>5, <2>6
  <2>9. \A n \in 1 .. Len(L) : L[n] \notin bitmap
    <3>1. \A n \in 1 .. Len(L) : L[n] \in Range(L)
      BY <2>2 DEF ListsAre, PlacesOK, IsList, Range
    <3> QED BY <3>1, <2>5, <2>7
  <2> QED BY <2>1, <2>4, <2>5, <2>6, <2>8, <2>9 DEF DebugHeapCheck
<1> QED BY <1>1, ListsSafety, PTL
=============================================================================
