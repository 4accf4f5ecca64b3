----------------------------- MODULE ZoneStats ------------------------------
(***************************************************************************)
(* The list of large blocks and its counters, for every number of threads  *)
(* and blocks.  A walk meets every header that is linked, the number of    *)
(* blocks is right for those counted so far, and only a realloc in place   *)
(* takes large_allocated away from the bytes in them.                      *)
(***************************************************************************)
EXTENDS ZoneProofs, Basics

-----------------------------------------------------------------------------
(* The walks of the list.                                                  *)

\* The headers that a walk meets in k steps.
IsReach(upTo) ==
    upTo = [k \in 0 .. Cardinality(Bases) |->
              IF k = 0 THEN {largeList} \ {NULL}
              ELSE upTo[k - 1] \cup ({next[b] : b \in upTo[k - 1]} \ {NULL})]

\* OnList is what it says.
LEMMA OnListIs ==
    ASSUME ZoneInv
    PROVE  \E upTo : IsReach(upTo) /\ OnList = upTo[Cardinality(Bases)]
<1> DEFINE m == Cardinality(Bases)
           V == SUBSET Bases
           base == {largeList} \ {NULL}
           More(S) == S \cup ({next[b] : b \in S} \ {NULL})
           step == [S \in V |-> More(S)]
<1>1. m \in Nat
  BY LargeAssumption, AddressAssumption, FS_CardinalityType
<1>2. base \in V /\ step \in [V -> V]
  BY DEF ZoneInv, TypeOK
<1>3. PICK h : IsIterate(h, V, base, step, m)
  <2> HIDE DEF V, base, step, m
  <2> QED BY <1>1, <1>2, Iterates
<1>4. h \in [0 .. m -> V] /\ h[0] = base /\ \A k \in 1 .. m : h[k] = step[h[k - 1]]
  BY <1>3, Zenon DEF IsIterate
<1>5. \A k \in 1 .. m : h[k] = More(h[k - 1])
  <2> TAKE k \in 1 .. m
  <2>1. k - 1 \in 0 .. m
    BY <1>1
  <2>2. h[k - 1] \in V
    BY <2>1, <1>4
  <2> HIDE DEF V, More
  <2> QED BY <2>2, <1>4
<1>6. h = [k \in 0 .. m |-> IF k = 0 THEN base ELSE More(h[k - 1])]
  <2> DEFINE g == [k \in 0 .. m |-> IF k = 0 THEN base ELSE More(h[k - 1])]
  <2>1. ASSUME NEW k \in 0 .. m PROVE h[k] = g[k]
    <3> HIDE DEF base, More
    <3>1. CASE k = 0 BY <3>1, <1>4
    <3>2. CASE k # 0
      <4>1. k \in 1 .. m
        BY <3>2, <1>1
      <4> QED BY <4>1, <3>2, <1>5
    <3> QED BY <3>1, <3>2
  <2>2. h = [k \in 0 .. m |-> h[k]]
    BY <1>4
  <2> QED BY <2>1, <2>2
<1>7. IsReach(h)
  BY <1>6, Zenon DEF IsReach
<1> DEFINE r == CHOOSE upTo : IsReach(upTo)
<1>8. IsReach(r)
  BY <1>7, Zenon
<1>9. OnList = r[m]
  BY Zenon DEF OnList, IsReach
<1> QED BY <1>8, <1>9

\* A list in order has every linked header on it.
LEMMA LinkedOnList == ASSUME ZoneInv, Ranked PROVE linked \subseteq OnList
<1> DEFINE m == Cardinality(Bases)
<1>1. PICK f \in [Bases -> Nat] : Ranks(f)
  BY DEF Ranked
<1>2. PICK upTo : IsReach(upTo) /\ OnList = upTo[m]
  BY OnListIs
<1>3. m \in Nat /\ IsFiniteSet(Bases) /\ linked \subseteq Bases /\ NULL \notin Bases
  BY LargeAssumption, AddressAssumption, FS_CardinalityType DEF ZoneInv, TypeOK
<1> DEFINE Above(b) == {c \in linked : f[c] > f[b]}
<1>4. ASSUME NEW b \in linked PROVE IsFiniteSet(Above(b)) /\ Cardinality(Above(b)) \in 0 .. m
  <2>1. Above(b) \subseteq Bases
    BY <1>3
  <2> HIDE DEF Above
  <2>2. IsFiniteSet(Above(b)) /\ Cardinality(Above(b)) <= m
    BY <2>1, <1>3, FS_Subset
  <2>3. Cardinality(Above(b)) \in Nat
    BY <2>2, FS_CardinalityType
  <2> QED BY <2>2, <2>3, <1>3
<1>5. ASSUME NEW b \in linked, prev[b] # NULL
      PROVE  /\ prev[b] \in linked /\ next[prev[b]] = b
             /\ Cardinality(Above(prev[b])) < Cardinality(Above(b))
  <2>1. PICK c : c = prev[b]
    OBVIOUS
  <2>2. c \in linked /\ next[c] = b
    BY <2>1, <1>5 DEF ZoneInv, ListOK
  <2>3. f[b] < f[c]
    BY <2>2, <1>1, <1>3 DEF Ranks
  <2>4. \A d \in linked : f[d] \in Nat
    BY <1>3
  <2>5. c \in Above(b) /\ Above(c) \subseteq Above(b) \ {c}
    BY <2>2, <2>3, <2>4
  <2>6. /\ IsFiniteSet(Above(b)) /\ Cardinality(Above(b)) \in Nat
        /\ Cardinality(Above(c)) \in Nat
    BY <1>4, <2>2
  <2> HIDE DEF Above
  <2>7. IsFiniteSet(Above(b) \ {c}) /\ Cardinality(Above(b) \ {c}) = Cardinality(Above(b)) - 1
    BY <2>5, <2>6, FS_RemoveElement
  <2>8. Cardinality(Above(c)) <= Cardinality(Above(b) \ {c})
    BY <2>5, <2>7, FS_Subset
  <2> QED BY <2>1, <2>2, <2>6, <2>7, <2>8
<1> HIDE DEF Above
<1> DEFINE Holds(k) == \A b \in linked :
                          prev[b] = NULL \/ Cardinality(Above(b)) <= k => b \in upTo[k]
           Fails == {k \in Nat : k <= m /\ ~Holds(k)}
<1>6. /\ upTo[0] = {largeList} \ {NULL}
      /\ \A k \in 1 .. m : upTo[k] = upTo[k - 1] \cup ({next[b] : b \in upTo[k - 1]} \ {NULL})
  <2> HIDE DEF m
  <2> QED BY <1>2, <1>3 DEF IsReach, m
<1>7. \A b \in linked : prev[b] = NULL => b = largeList /\ b # NULL
  BY <1>3 DEF ZoneInv, ListOK
<1>8. Fails = {}
  <2> SUFFICES ASSUME Fails # {} PROVE FALSE
    OBVIOUS
  <2>1. PICK k \in Fails : \A j \in Fails : k <= j
    <3> HIDE DEF Holds
    <3> QED BY LeastNat
  <2>2. k \in Nat /\ k <= m
    OBVIOUS
  <2>3. PICK b \in linked : (prev[b] = NULL \/ Cardinality(Above(b)) <= k) /\ b \notin upTo[k]
    OBVIOUS
  <2>4. CASE k = 0
    <3>1. prev[b] = NULL
      <4> SUFFICES ASSUME prev[b] # NULL PROVE FALSE
        OBVIOUS
      <4>1. Cardinality(Above(prev[b])) < Cardinality(Above(b)) /\ prev[b] \in linked
        BY <1>5
      <4>2. Cardinality(Above(prev[b])) \in 0 .. m /\ Cardinality(Above(b)) \in 0 .. m
        BY <4>1, <1>4
      <4> QED BY <4>1, <4>2, <2>3, <2>4, <1>3
    <3> QED BY <3>1, <2>3, <2>4, <1>6, <1>7
  <2>5. CASE k # 0
    <3>1. k - 1 \in Nat /\ k - 1 <= m /\ k \in 1 .. m /\ ~(k <= k - 1)
      BY <2>2, <2>5, <1>3
    <3>2. Holds(k - 1)
      <4> HIDE DEF Holds
      <4> QED BY <2>1, <3>1
    <3>3. upTo[k] = upTo[k - 1] \cup ({next[c] : c \in upTo[k - 1]} \ {NULL})
      BY <3>1, <1>6
    <3>4. CASE prev[b] = NULL
      BY <3>2, <3>3, <3>4, <2>3
    <3>5. CASE prev[b] # NULL
      <4>1. PICK c : c = prev[b]
        OBVIOUS
      <4>2. c \in linked /\ next[c] = b /\ Cardinality(Above(c)) < Cardinality(Above(b))
        BY <4>1, <3>5, <1>5
      <4>3. Cardinality(Above(c)) \in 0 .. m /\ Cardinality(Above(b)) \in 0 .. m
        BY <4>2, <1>4
      <4>4. Cardinality(Above(c)) <= k - 1
        BY <4>2, <4>3, <2>2, <2>3, <3>5, <1>3
      <4>5. c \in upTo[k - 1]
        BY <4>2, <4>4, <3>2
      <4> QED BY <4>2, <4>5, <3>3, <2>3, <1>3
    <3> QED BY <3>4, <3>5
  <2> QED BY <2>4, <2>5
<1>9. Holds(m)
  <2> HIDE DEF Holds
  <2> QED BY <1>3, <1>8
<1> QED
  <2> SUFFICES ASSUME NEW b \in linked PROVE b \in OnList
    OBVIOUS
  <2>1. Cardinality(Above(b)) <= m
    BY <1>3, <1>4
  <2> QED BY <2>1, <1>2, <1>9

\* At first the list is empty.
LEMMA RankedInit == Init => Ranked
<1> SUFFICES ASSUME Init PROVE Ranked
  OBVIOUS
<1> DEFINE f == [b \in Bases |-> 0]
<1>1. f \in [Bases -> Nat]
  OBVIOUS
<1>2. Ranks(f) /\ Walks(f)
  BY DEF Init, LargeInit, Ranks, Walks
<1> QED  BY <1>1, <1>2 DEF Ranked

\* Every block the program holds is found by a walk of the list, for any number of
\* threads and blocks, and no walk of large_free or large_find for such a block that
\* is under way comes to the end of the list.
THEOREM ZoneFinds == Spec => []LiveFound
<1>2. ASSUME ZoneInv, Ranked PROVE LiveFound
  <2>1. live \subseteq OnList
    BY <1>2, LinkedOnList DEF ZoneInv, OwnersOK
  <2>2. ASSUME NEW t \in alive,
               pc[t] = "freewalk" \/ (pc[t] = "findwalk" /\ op[t] # "claimed")
        PROVE  ptr[t] \in linked /\ t \in Threads
    BY <1>2, <2>2 DEF ZoneInv, TypeOK, OwnersOK, CallsOK, Freeing
  <2> QED BY <1>2, <2>1, <2>2 DEF LiveFound, Ranked, Walks
<1> QED BY ZoneSafety, RankedInit, <1>2, RankedStep, PTL DEF Spec

-----------------------------------------------------------------------------
(* The counters large_allocated and large_alloc_count.                     *)

\* The call of a thread frees a block that is in the counters.
Uncounts(t) == pc[t] \in Freeing \ {"unmap"}

\* The blocks in the counters, one by one.
LEMMA CountedIs ==
    \A b : b \in Counted <=> b \in Held \/ \E u \in Threads : Uncounts(u) /\ ptr[u] = b
BY DEF Counted, Uncounts

\* A step of one thread changes the blocks in the counters by what that thread changes.
LEMMA CountedStep ==
    ASSUME NEW t \in Threads, Alone(t)
    PROVE  \A b : b \in Counted' <=>
               \/ b \in Held'
               \/ Uncounts(t)' /\ ptr'[t] = b
               \/ \E u \in Threads \ {t} : Uncounts(u) /\ ptr[u] = b
<1>1. \A b : b \in Counted' <=> b \in Held' \/ \E u \in Threads : Uncounts(u)' /\ ptr'[u] = b
  BY DEF Counted, Uncounts
<1>2. \A u \in Threads \ {t} : Uncounts(u)' = Uncounts(u) /\ ptr'[u] = ptr[u]
  BY DEF Alone, Uncounts
<1> QED BY <1>1, <1>2

\* The blocks in the counters are mapped, and finitely many.
LEMMA CountedFacts ==
    ASSUME ZoneInv
    PROVE  /\ Counted \subseteq mapped /\ Counted \subseteq Bases
           /\ IsFiniteSet(Counted) /\ Cardinality(Counted) \in Nat
           /\ Cardinality(Counted) < SizeMod
           /\ \A b \in Counted : userSize[b] \in Int
<1>1. Counted \subseteq mapped
  <2>1. \A u \in Threads : Uncounts(u) => ptr[u] \in mapped
    BY DEF Uncounts, Freeing, ZoneInv, TypeOK, ListOK, OwnersOK, Owns
  <2> QED BY <2>1, HeldMapped, CountedIs
<1>2. Counted \subseteq Bases
  BY <1>1 DEF ZoneInv, TypeOK
<1>3. IsFiniteSet(Counted) /\ Cardinality(Counted) <= Cardinality(Bases)
  BY <1>2, AddressAssumption, FS_Subset
<1>4. Cardinality(Counted) \in Nat /\ Cardinality(Bases) \in Nat
  BY <1>3, AddressAssumption, FS_CardinalityType
<1>5. Cardinality(Counted) < SizeMod
  BY <1>3, <1>4, AddressAssumption, LargeAssumption
<1>6. \A b \in Counted : userSize[b] \in Int
  BY <1>2 DEF ZoneInv, TypeOK
<1> QED BY <1>1, <1>2, <1>3, <1>4, <1>5, <1>6

\* The registers of the other threads.
Others(t) ==
    /\ Alone(t)
    /\ \A u \in Threads \ {t} : op'[u] = op[u] /\ want'[u] = want[u]

\* A step that changes one user_size, of a block that no other thread has, leaves the
\* amounts of the other threads right.
LEMMA AmountsStep ==
    ASSUME ZoneInv, StatsOK, NEW t \in Threads, Others(t), AmountOK(t)',
           \/ userSize' = userSize
           \/ \E c \in Bases : /\ \E v : userSize' = [userSize EXCEPT ![c] = v]
                               /\ \A u \in Threads \ {t} : ~Owns(u, c)
    PROVE  \A u \in Threads : AmountOK(u)'
<1> SUFFICES ASSUME NEW u \in Threads, u # t PROVE AmountOK(u)'
  OBVIOUS
<1>1. AmountOK(u)
  BY DEF StatsOK
<1>2. pc'[u] = pc[u] /\ got'[u] = got[u] /\ ptr'[u] = ptr[u] /\ op'[u] = op[u] /\ want'[u] = want[u]
  BY DEF Others, Alone
<1>3. pc[u] \in {"linklock", "link", "add"} => Owns(u, got[u]) /\ userSize'[got[u]] = userSize[got[u]]
  <2>1. pc[u] \in {"linklock", "link", "add"} => got[u] \in Bases /\ Owns(u, got[u])
    BY DEF ZoneInv, TypeOK, OwnersOK, Owns
  <2> QED BY <2>1 DEF ZoneInv, TypeOK
<1>4. pc[u] = "sub" => userSize'[ptr[u]] = userSize[ptr[u]]
  <2>1. pc[u] = "sub" => ptr[u] \in Bases /\ Owns(u, ptr[u])
    BY DEF ZoneInv, TypeOK, OwnersOK, Owns, Freeing
  <2> QED BY <2>1 DEF ZoneInv, TypeOK
<1> QED BY <1>1, <1>2, <1>3, <1>4 DEF AmountOK

\* A step that keeps the number of blocks right, and large_allocated as far from the bytes
\* in them as it was.
Steady == StatsOK' /\ Drift' = Drift

\* The steps that change neither the counters nor what they count.
LEMMA StatsQuiet ==
    ASSUME ZoneInv, StatsOK, NEW t \in Threads, Counted' = Counted, UNCHANGED statVars,
           \A u \in Threads : AmountOK(u)', \A b \in Counted : userSize'[b] = userSize[b]
    PROVE  Steady
<1>1. SumFunctionOnSet(userSize', Counted) = SumFunctionOnSet(userSize, Counted)
  <2>1. PICK S : S = Counted
    OBVIOUS
  <2>2. PICK f : f = userSize
    OBVIOUS
  <2>3. PICK g : g = userSize'
    OBVIOUS
  <2>4. IsFiniteSet(S) /\ \A b \in S : f[b] \in Int
    BY <2>1, <2>2, CountedFacts
  <2>5. \A b \in S : f[b] = g[b]
    BY <2>1, <2>2, <2>3
  <2>6. SumFunctionOnSet(g, S) = SumFunctionOnSet(f, S)
    BY <2>4, <2>5, SumFacts
  <2> QED BY <2>1, <2>2, <2>3, <2>6
<1> QED BY <1>1 DEF Steady, Drift, StatsOK, statVars

\* A block is in one call of its thread, or held, and never both.
LEMMA CountedOnce ==
    ASSUME ZoneInv, NEW t \in Threads, NEW b \in Bases, Owns(t, b)
    PROVE  /\ b \in Counted <=> \/ b = got[t] /\ Moved(t)
                                \/ b = ptr[t] /\ Uncounts(t)
           /\ \A u \in Threads \ {t} : ~Owns(u, b)
<1>1. b \notin live /\ b # NULL /\ \A u \in Threads : Owns(u, b) => u = t
  BY LargeAssumption DEF ZoneInv, OwnersOK
<1>2. \A u \in Threads : got[u] = b \/ (Uncounts(u) /\ ptr[u] = b) => u = t
  BY <1>1 DEF Owns, Uncounts
<1> QED BY <1>1, <1>2, CountedIs, HeldIs

\* The callbacks and the work on the list.
LEMMA StatsListWork ==
    ASSUME ZoneInv, StatsOK, NEW t \in Threads,
           LargeLock(t) \/ Link(t) \/ Unlink(t) \/ WalkOn(t) \/ Found(t) \/ Grow(t)
    PROVE  Steady
<1>1. UNCHANGED <<memVars, statVars, op, ptr, got>> /\ (Unlink(t) \/ want' = want)
  BY DEF LargeLock, Lock, Link, Unlink, UnlinkTo, WalkOn, Found, Grow, argVars
<1>2. PICK l : /\ pc' = [pc EXCEPT ![t] = l]
               /\ l \in Freeing \ {"unmap"} <=> pc[t] \in Freeing \ {"unmap"}
               /\ l \in {"linklock", "link", "add"} => pc[t] \in {"linklock", "link", "add"}
               /\ l # "sub" \/ Unlink(t)
               /\ l \in {"map", "moved"} \cup Freeing => op[t] # "none"
  <2>0. pc[t] \in Freeing => op[t] # "none"
    BY DEF StatsOK, AmountOK
  <2>1. CASE LargeLock(t)
    BY <2>0, <2>1 DEF LargeLock, Lock, Freeing, ZoneInv, TypeOK, Goto, At
  <2>2. CASE Link(t) \/ Unlink(t) \/ Found(t) \/ Grow(t)
    BY <2>0, <2>2 DEF Link, Unlink, UnlinkTo, Found, Grow, Freeing,
     ZoneInv, TypeOK, Goto, At
  <2>3. CASE WalkOn(t)
    <3>1. pc' = [pc EXCEPT ![t] = pc[t]]
      BY <2>3 DEF WalkOn, ZoneInv, TypeOK, Goto, At
    <3> QED BY <2>0, <2>3, <3>1 DEF WalkOn, Freeing, ZoneInv, TypeOK, Goto, At
  <2> QED BY <2>1, <2>2, <2>3
<1>3. Others(t)
  BY <1>1, <1>2 DEF Others, Alone, Unlink, UnlinkTo, ZoneInv, TypeOK, Goto, At
<1>4. Counted' = Counted
  <2>1. Held' = Held
    BY ListWorkStep
  <2>2. Uncounts(t)' = Uncounts(t)
    BY <1>2 DEF Uncounts
  <2>3. Alone(t)
    BY <1>3 DEF Others
  <2>4. \A b : b \in Counted' <=> b \in Counted
    BY <1>1, <2>1, <2>2, <2>3, CountedStep, CountedIs
  <2> QED BY <2>4
<1>5. AmountOK(t)'
  <2>1. AmountOK(t)
    BY DEF StatsOK
  <2>2. Unlink(t) => want'[t] = userSize[ptr[t]] /\ pc'[t] = "sub"
    BY DEF Unlink, UnlinkTo, ZoneInv, TypeOK, Goto, At
  <2>3. pc'[t] = l /\ userSize' = userSize
    BY <1>1, <1>2 DEF memVars, ZoneInv, TypeOK, Goto, At
  <2>4. CASE Unlink(t)
    BY <1>1, <1>2, <2>2, <2>3, <2>4 DEF AmountOK
  <2>5. CASE want' = want /\ l # "sub"
    BY <1>1, <1>2, <2>1, <2>3, <2>5 DEF AmountOK
  <2> QED BY <1>1, <1>2, <2>4, <2>5
<1>6. userSize' = userSize /\ UNCHANGED statVars
  BY <1>1 DEF memVars
<1> QED BY <1>3, <1>4, <1>5, <1>6, AmountsStep, StatsQuiet

\* The callbacks.
LEMMA StatsCallback ==
    ASSUME ZoneInv, StatsOK, NEW t \in Threads, ArenaSteps(t) \/ QuerySteps(t) \/ Forks(t)
    PROVE  Steady
<1>0. TypeOK
  BY DEF ZoneInv
<1>1. PICK l : pc' = [pc EXCEPT ![t] = l] /\ l \notin LargeLabel
  BY <1>0, ZoneSteps
<1>2. pc[t] \notin LargeLabel /\ UNCHANGED stillVars
  BY <1>0, ZoneSteps
<1>3. UNCHANGED <<userSize, statVars, op, ptr, want, got>>
  BY <1>2 DEF stillVars, memVars, argVars
<1>4. Others(t) /\ pc'[t] = l
  BY <1>0, <1>1, <1>3 DEF Others, Alone, TypeOK
<1>5. Counted' = Counted
  <2>1. Held' = Held
    BY CallbackStep
  <2>2. Uncounts(t)' = Uncounts(t) /\ Alone(t)
    BY <1>1, <1>2, <1>4 DEF Uncounts, LargeLabel, Others
  <2>3. \A b : b \in Counted' <=> b \in Counted
    BY <1>3, <2>1, <2>2, CountedStep, CountedIs
  <2> QED BY <2>3
<1>6. AmountOK(t)'
  BY <1>1, <1>4 DEF AmountOK, LargeLabel, Freeing
<1> QED BY <1>3, <1>4, <1>5, <1>6, AmountsStep, StatsQuiet

\* The start of a call: a block that is passed to my_free is still counted.
LEMMA StatsCalls ==
    ASSUME ZoneInv, StatsOK, NEW t \in Threads, Calls(t)
    PROVE  Steady
<1>1. /\ UNCHANGED <<userSize, statVars, got>> /\ pc[t] = "idle"
      /\ Others(t)
      /\ op'[t] # "none" /\ pc'[t] \in {"map", "freelock", "findlock"}
  BY DEF Calls, LargeCall, Malloc, Free, Realloc, UsableSize, ClaimedAddress, Enter, memVars,
     Others, Alone, ZoneInv, TypeOK, Goto, At
<1>2. AmountOK(t)'
  BY <1>1 DEF AmountOK
<1>3. Alone(t) /\ ~Uncounts(t)
  BY <1>1 DEF Others, Uncounts, Freeing
<1>4. ASSUME NEW b \in Bases, Free(t, b) PROVE Counted' = Counted
  <2>1. b \in live /\ live' = live \ {b} /\ ptr'[t] = b /\ Uncounts(t)'
    BY <1>4 DEF Free, Enter, Uncounts, Freeing, ZoneInv, TypeOK, Goto, At
  <2>2. Held' = Held \ {b}
    BY <1>4, FreeStep DEF heap!Free
  <2>3. b \in Held
    BY <2>1, HeldIs
  <2>4. \A c : c \in Counted' <=> c \in Counted
    BY <1>3, <2>1, <2>2, <2>3, CountedStep, CountedIs
  <2> QED BY <2>4
<1>5. ASSUME UNCHANGED Held, ~Uncounts(t)' PROVE Counted' = Counted
  <2>1. \A c : c \in Counted' <=> c \in Counted
    BY <1>3, <1>5, CountedStep, CountedIs
  <2> QED BY <2>1
<1>6. ASSUME NEW b, NEW k, Malloc(t, k) \/ UsableSize(t, b) \/ ClaimedAddress(t, b) \/ Realloc(t, b, k)
      PROVE  Counted' = Counted
  <2>1. UNCHANGED Held
    BY <1>6, EnterStep DEF Malloc, UsableSize, ClaimedAddress, Realloc
  <2>2. ~Uncounts(t)'
    BY <1>6 DEF Malloc, UsableSize, ClaimedAddress, Realloc, Enter, Goto, ZoneInv, TypeOK,
       Uncounts, Freeing
  <2> QED BY <1>5, <2>1, <2>2
<1>7. Counted' = Counted
  BY <1>4, <1>6, Zenon DEF Calls, LargeCall
<1> QED BY <1>1, <1>2, <1>7, AmountsStep, StatsQuiet

\* The return of a call that has no block in the counters; large_free does not return so.
LEMMA StatsReturns ==
    ASSUME ZoneInv, Ranked, StatsOK, NEW t \in Threads, MapFails(t) \/ Answer(t) \/ NotFound(t)
    PROVE  Steady
<1>1. NotFound(t) => pc[t] = "findwalk"
  BY DEF NotFound, At, Ranked, Walks, ZoneInv, OwnersOK
<1>2. UNCHANGED Held
  BY <1>1, ReturnStep
<1>3. Return(t) /\ UNCHANGED <<userSize, statVars>> /\ pc[t] \in {"map", "found", "findwalk"}
  BY <1>1 DEF MapFails, Answer, NotFound, memVars, ZoneInv, TypeOK, Goto, At
<1>4. Others(t) /\ Alone(t) /\ pc'[t] = "idle"
  BY <1>3 DEF Return, Others, Alone, ZoneInv, TypeOK, Goto, At
<1>5. ~Uncounts(t) /\ ~Uncounts(t)' /\ AmountOK(t)'
  BY <1>3, <1>4 DEF Uncounts, AmountOK, Freeing
<1>6. \A c : c \in Counted' <=> c \in Counted
  BY <1>2, <1>4, <1>5, CountedStep, CountedIs
<1>7. Counted' = Counted
  BY <1>6
<1> QED BY <1>3, <1>4, <1>5, <1>7, AmountsStep, StatsQuiet

\* A slot is not in the counters of the large blocks.
LEMMA StatsGrowSlab ==
    ASSUME ZoneInv, StatsOK, NEW t \in Threads, GrowSlab(t)
    PROVE  Steady
<1>1. /\ UNCHANGED <<userSize, statVars>> /\ pc[t] = "found" /\ op[t] = "realloc"
      /\ pc'[t] = "idle" \/ (pc'[t] = "moved" /\ op'[t] = op[t])
  BY DEF GrowSlab, Return, memVars, argVars, ZoneInv, TypeOK, Goto, At
<1>2. Others(t) /\ Alone(t)
  BY DEF GrowSlab, Return, argVars, Others, Alone, ZoneInv, TypeOK, Goto, At
<1>3. ~Uncounts(t) /\ ~Uncounts(t)' /\ AmountOK(t)'
  BY <1>1 DEF Uncounts, AmountOK, Freeing
<1>4. Held' = Held
  BY GrowSlabStep
<1>5. \A c : c \in Counted' <=> c \in Counted
  BY <1>2, <1>3, <1>4, CountedStep, CountedIs
<1>6. Counted' = Counted
  BY <1>5
<1> QED BY <1>1, <1>2, <1>3, <1>6, AmountsStep, StatsQuiet

\* A block that is mapped is not in the counters.
LEMMA StatsMap ==
    ASSUME ZoneInv, StatsOK, NEW t \in Threads, Map(t)
    PROVE  Steady
<1>1. PICK b \in Bases \ mapped :
          /\ userSize' = [userSize EXCEPT ![b] = want[t]]
          /\ got' = [got EXCEPT ![t] = b]
  BY DEF Map
<1>2. /\ pc[t] = "map" /\ pc' = [pc EXCEPT ![t] = "linklock"]
      /\ UNCHANGED <<statVars, live, op, ptr, want>>
  BY DEF Map, argVars, ZoneInv, TypeOK, Goto, At
<1>3. Others(t) /\ Alone(t) /\ pc'[t] = "linklock" /\ got'[t] = b
  BY <1>1, <1>2 DEF Others, Alone, ZoneInv, TypeOK, Goto, At
<1>4. \A u \in Threads : ~Owns(u, b)
  BY <1>1 DEF OwnersOK, ZoneInv, TypeOK, Goto, At
<1>5. AmountOK(t)'
  <2>1. op[t] # "none"
    BY <1>2 DEF StatsOK, AmountOK
  <2> QED BY <2>1, <1>1, <1>2, <1>3 DEF AmountOK, ZoneInv, TypeOK, Goto, At
<1>6. ~Uncounts(t) /\ ~Uncounts(t)'
  BY <1>2, <1>3 DEF Uncounts, Freeing
<1>7. Held' = Held
  BY MapStep DEF heap!Choose
<1>8. \A c : c \in Counted' <=> c \in Counted
  BY <1>3, <1>6, <1>7, CountedStep, CountedIs
<1>9. \A c \in Counted : userSize'[c] = userSize[c]
  BY <1>1, CountedFacts
<1>10. \A u \in Threads : AmountOK(u)'
  <2>1. \E c \in Bases : /\ \E v : userSize' = [userSize EXCEPT ![c] = v]
                         /\ \A u \in Threads \ {t} : ~Owns(u, c)
    BY <1>1, <1>4
  <2> QED BY <1>3, <1>5, <2>1, AmountsStep
<1>11. Counted' = Counted
  BY <1>8
<1> QED BY <1>2, <1>9, <1>10, <1>11, StatsQuiet

\* The old block of my_realloc is still counted.
LEMMA StatsFreeOld ==
    ASSUME ZoneInv, StatsOK, NEW t \in Threads, FreeOld(t)
    PROVE  Steady
<1>1. /\ ptr[t] \in live /\ live' = live \ {ptr[t]} /\ UNCHANGED <<userSize, statVars, op, ptr, got>>
      /\ pc[t] = "moved" /\ pc' = [pc EXCEPT ![t] = "freelock"] /\ want' = [want EXCEPT ![t] = 0]
  BY DEF FreeOld, CallsOK, Freeing, memVars, ZoneInv, TypeOK, Goto, At
<1>2. Others(t) /\ Alone(t) /\ pc'[t] = "freelock"
  BY <1>1 DEF Others, Alone, ZoneInv, TypeOK, Goto, At
<1>3. AmountOK(t)'
  <2>1. op[t] # "none"
    BY <1>1 DEF StatsOK, AmountOK
  <2> QED BY <2>1, <1>1, <1>2 DEF AmountOK
<1>4. ~Uncounts(t) /\ Uncounts(t)'
  BY <1>1, <1>2 DEF Uncounts, Freeing
<1>5. Held' = Held \ {ptr[t]}
  BY FreeOldStep DEF heap!Free
<1>6. ptr[t] \in Held
  BY <1>1, HeldIs
<1>7. \A c : c \in Counted' <=> c \in Counted
  BY <1>1, <1>2, <1>4, <1>5, <1>6, CountedStep, CountedIs
<1>8. Counted' = Counted
  BY <1>7
<1> QED BY <1>1, <1>2, <1>3, <1>8, AmountsStep, StatsQuiet

\* A block that is unmapped is no longer in the counters.
LEMMA StatsUnmap ==
    ASSUME ZoneInv, StatsOK, NEW t \in Threads, Unmap(t)
    PROVE  Steady
<1>1. /\ pc[t] = "unmap" /\ la[t] = ptr[t] /\ ptr[t] \in Bases /\ Return(t)
      /\ userSize' = [userSize EXCEPT ![ptr[t]] = 0] /\ UNCHANGED statVars
      /\ live' = live \cup ({got[t]} \ {NULL})
  BY DEF Unmap, GiveBack, OwnersOK, Freeing, ZoneInv, TypeOK, Goto, At
<1>2. Others(t) /\ Alone(t) /\ pc'[t] = "idle"
  BY <1>1 DEF Others, Alone, Return, ZoneInv, TypeOK, Goto, At
<1>3. AmountOK(t)' /\ ~Uncounts(t) /\ ~Uncounts(t)'
  BY <1>1, <1>2 DEF AmountOK, Uncounts, Freeing
<1>4. Owns(t, ptr[t]) /\ ptr[t] # got[t]
  BY <1>1, LargeAssumption DEF Owns, Freeing, OwnersOK, ZoneInv, TypeOK, Goto, At
<1>5. ptr[t] \notin Counted /\ \A u \in Threads \ {t} : ~Owns(u, ptr[t])
  BY <1>1, <1>3, <1>4, CountedOnce
<1>6. Held' = Held
  BY RecycleStep DEF heap!Recycle
<1>7. \A c : c \in Counted' <=> c \in Counted
  BY <1>2, <1>3, <1>6, CountedStep, CountedIs
<1>8. Counted' = Counted
  BY <1>7
<1>9. \A c \in Counted : userSize'[c] = userSize[c]
  BY <1>1, <1>5, CountedFacts DEF ZoneInv, TypeOK
<1>10. \A u \in Threads : AmountOK(u)'
  <2>1. \E c \in Bases : /\ \E v : userSize' = [userSize EXCEPT ![c] = v]
                         /\ \A u \in Threads \ {t} : ~Owns(u, c)
    BY <1>1, <1>5
  <2> QED BY <1>2, <1>3, <2>1, AmountsStep
<1> QED BY <1>1, <1>8, <1>9, <1>10, StatsQuiet

\* A block enters the counters with its user_size ...
LEMMA StatsAdd ==
    ASSUME ZoneInv, StatsOK, NEW t \in Threads, Add(t)
    PROVE  Steady
<1>1. PICK b : b = got[t]
  OBVIOUS
<1>2. /\ pc[t] = "add" /\ b \in Bases /\ b # NULL /\ Owns(t, b) /\ userSize[b] = want[t]
  BY <1>1, LargeAssumption DEF Add, OwnersOK, Owns, StatsOK, AmountOK,
     ZoneInv, TypeOK, Goto, At
<1>3. /\ userSize' = userSize
      /\ largeAllocated' = (largeAllocated + want[t]) % SizeMod
      /\ largeCount' = (largeCount + 1) % SizeMod
  BY DEF Add, memVars
<1>4. Others(t) /\ Alone(t) /\ pc'[t] \in {"idle", "moved"} /\ (pc'[t] = "moved" => op'[t] # "none")
  BY DEF Add, Return, argVars, Others, Alone, ZoneInv, TypeOK, Goto, At
<1>5. AmountOK(t)' /\ ~Uncounts(t) /\ ~Uncounts(t)'
  BY <1>2, <1>4 DEF AmountOK, Uncounts, Freeing
<1>6. Held' = Held \cup {b}
  <2>1. Hands[t] = b
    BY <1>1, <1>2 DEF Hands, Hand, Freeing
  <2> QED BY <2>1, AddStep DEF heap!Malloc
<1>7. b \notin Counted
  BY <1>1, <1>2, <1>5, CountedOnce DEF Moved, Freeing
<1>8. \A c : c \in Counted' <=> c \in Counted \cup {b}
  BY <1>4, <1>5, <1>6, CountedStep, CountedIs
<1>9. PICK S : S = Counted
  OBVIOUS
<1>10. Counted' = S \cup {b} /\ b \notin S
  BY <1>7, <1>8, <1>9
<1>11. /\ IsFiniteSet(S) /\ Cardinality(S) \in Nat /\ IsFiniteSet(S \cup {b})
       /\ Cardinality(S \cup {b}) = Cardinality(S) + 1
       /\ Cardinality(S \cup {b}) < SizeMod
       /\ S \cup {b} \subseteq Bases
  <2>1. IsFiniteSet(S) /\ Cardinality(S) \in Nat /\ S \subseteq Bases
    BY <1>9, CountedFacts
  <2>2. S \cup {b} \subseteq Bases
    BY <2>1, <1>2
  <2>3. Cardinality(S \cup {b}) = Cardinality(S) + 1 /\ IsFiniteSet(S \cup {b})
    BY <2>1, <1>10, FS_AddElement
  <2>4. Cardinality(S \cup {b}) <= Cardinality(Bases) /\ Cardinality(Bases) \in Nat
    BY <2>2, AddressAssumption, FS_Subset, FS_CardinalityType
  <2> QED BY <2>1, <2>2, <2>3, <2>4, AddressAssumption, LargeAssumption
<1>12. largeCount' = Cardinality(S \cup {b})
  <2>1. largeCount = Cardinality(S)
    BY <1>9 DEF StatsOK
  <2>2. (Cardinality(S) + 1) % SizeMod = Cardinality(S) + 1
    BY <1>11, LargeAssumption, ModWraps
  <2> QED BY <1>3, <1>11, <2>1, <2>2
<1>13. PICK f : f = userSize
  OBVIOUS
<1>14. f \in [Bases -> Nat]
  BY <1>13 DEF ZoneInv, TypeOK
<1>15. /\ SumFunctionOnSet(f, S \cup {b}) = f[b] + SumFunctionOnSet(f, S)
       /\ SumFunctionOnSet(f, S) \in Int
  <2>1. PICK R : R = S \cup {b}
    OBVIOUS
  <2>2. /\ R \ {b} = S /\ b \in R /\ IsFiniteSet(R)
        /\ \A x \in R : f[x] \in Int
        /\ \A x \in S : f[x] \in Int
    BY <2>1, <1>10, <1>11, <1>14
  <2>3. SumFunctionOnSet(f, R) = f[b] + SumFunctionOnSet(f, R \ {b})
    BY <2>2, SumRemove
  <2>4. SumFunctionOnSet(f, S) \in Int
    BY <2>2, <1>11, SumFacts
  <2> QED BY <2>1, <2>2, <2>3, <2>4
<1>16. Drift' = Drift /\ largeAllocated' \in 0 .. SizeMod - 1
  <2>0. SizeMod \in Nat /\ SizeMod > 0
    BY LargeAssumption
  <2>1. PICK w \in Int : w = want[t]
    BY DEF ZoneInv, TypeOK
  <2>2. PICK a \in Int : a = largeAllocated
    BY <2>0 DEF StatsOK
  <2>3. PICK y \in Int : y = SumFunctionOnSet(f, S)
    BY <1>15
  <2>4. SumFunctionOnSet(f, S \cup {b}) = w + y
    BY <1>2, <1>13, <1>15, <2>1, <2>3
  <2>5. PICK d \in Int, x \in Int : d = -(w + y) /\ x = a + w
    BY <2>1, <2>2, <2>3
  <2>6. (d + (x % SizeMod)) % SizeMod = (d + x) % SizeMod
    BY <2>0, ModPlus, Zenon
  <2>7. PICK z \in 0 .. SizeMod - 1 : z = x % SizeMod
    BY <2>0
  <2>8. largeAllocated' = z
    BY <1>3, <2>1, <2>2, <2>5, <2>7
  <2>9. Drift' = (z - (w + y)) % SizeMod
    BY <1>3, <1>10, <1>13, <2>4, <2>8 DEF Drift
  <2>10. z - (w + y) = d + z /\ d + x = a - y
    BY <2>5, <2>7
  <2>11. Drift = (a - y) % SizeMod
    BY <1>9, <1>13, <2>2, <2>3 DEF Drift
  <2> QED BY <2>6, <2>7, <2>8, <2>9, <2>10, <2>11
<1>17. \A u \in Threads : AmountOK(u)'
  BY <1>3, <1>4, <1>5, AmountsStep
<1> QED BY <1>3, <1>10, <1>12, <1>16, <1>17 DEF Steady, StatsOK

\* ... and leaves them with the same.
LEMMA StatsSub ==
    ASSUME ZoneInv, StatsOK, NEW t \in Threads, Sub(t)
    PROVE  Steady
<1>1. PICK b : b = ptr[t]
  OBVIOUS
<1>2. /\ pc[t] = "sub" /\ b \in Bases /\ Owns(t, b) /\ userSize[b] = want[t] /\ op[t] # "none"
  BY <1>1 DEF Sub, OwnersOK, Owns, Freeing, StatsOK, AmountOK, ZoneInv, TypeOK, Goto, At
<1>3. /\ userSize' = userSize
      /\ largeAllocated' = (largeAllocated - want[t]) % SizeMod
      /\ largeCount' = (largeCount - 1) % SizeMod
  BY DEF Sub, memVars
<1>4. Others(t) /\ Alone(t) /\ pc'[t] = "unmap" /\ op'[t] = op[t] /\ got'[t] = got[t] /\ live' = live
  BY DEF Sub, Others, Alone, ZoneInv, TypeOK, Goto, At
<1>5. AmountOK(t)' /\ Uncounts(t) /\ ~Uncounts(t)'
  BY <1>2, <1>4 DEF AmountOK, Uncounts, Freeing
<1>6. Held' = Held
  BY ListWorkStep
<1>7. b \notin Held
  <2>1. b \notin live /\ b # NULL /\ \A u \in Threads : got[u] # b
    BY <1>1, <1>2, LargeAssumption DEF OwnersOK, Owns, Freeing, ZoneInv, TypeOK, Goto, At
  <2> QED BY <2>1, HeldIs
<1>8. \A u \in Threads \ {t} : ~(Uncounts(u) /\ ptr[u] = b)
  BY <1>2, Zenon DEF OwnersOK, Owns, Uncounts, ZoneInv
<1>9. PICK S : S = Counted
  OBVIOUS
<1>10. Counted' = S \ {b} /\ b \in S
  <2>1. \A c : c \in Counted' <=> c \in Counted \ {b}
    BY <1>1, <1>4, <1>5, <1>6, <1>7, <1>8, CountedStep, CountedIs
  <2>2. b \in Counted
    BY <1>1, <1>5, CountedIs
  <2> QED BY <2>1, <2>2, <1>9
<1>11. /\ IsFiniteSet(S) /\ Cardinality(S) \in Nat /\ Cardinality(S) < SizeMod
       /\ IsFiniteSet(S \ {b}) /\ Cardinality(S \ {b}) = Cardinality(S) - 1
       /\ Cardinality(S \ {b}) \in Nat /\ S \subseteq Bases
  <2>1. IsFiniteSet(S) /\ Cardinality(S) \in Nat /\ S \subseteq Bases /\ Cardinality(S) < SizeMod
    BY <1>9, CountedFacts
  <2>2. Cardinality(S \ {b}) = Cardinality(S) - 1 /\ IsFiniteSet(S \ {b})
    BY <2>1, <1>10, FS_RemoveElement
  <2> QED BY <2>1, <2>2, FS_CardinalityType
<1>12. largeCount' = Cardinality(S \ {b})
  <2>1. largeCount = Cardinality(S)
    BY <1>9 DEF StatsOK
  <2>2. (Cardinality(S) - 1) % SizeMod = Cardinality(S) - 1
    BY <1>11, LargeAssumption, ModWraps
  <2> QED BY <1>3, <1>11, <2>1, <2>2
<1>13. PICK f : f = userSize
  OBVIOUS
<1>14. f \in [Bases -> Nat]
  BY <1>13 DEF ZoneInv, TypeOK
<1>15. /\ SumFunctionOnSet(f, S) = f[b] + SumFunctionOnSet(f, S \ {b})
       /\ SumFunctionOnSet(f, S \ {b}) \in Int /\ f[b] \in Int
  <2>1. PICK R : R = S \ {b}
    OBVIOUS
  <2>2. IsFiniteSet(R) /\ (\A x \in R : f[x] \in Int) /\ \A x \in S : f[x] \in Int
    BY <2>1, <1>11, <1>14
  <2>3. SumFunctionOnSet(f, S) = f[b] + SumFunctionOnSet(f, S \ {b})
    BY <2>2, <1>10, <1>11, SumRemove
  <2>4. SumFunctionOnSet(f, R) \in Int
    BY <2>2, SumFacts
  <2> QED BY <2>1, <2>2, <2>3, <2>4, <1>10
<1>16. Drift' = Drift /\ largeAllocated' \in 0 .. SizeMod - 1
  <2>0. SizeMod \in Nat /\ SizeMod > 0
    BY LargeAssumption
  <2>1. PICK w \in Int : w = want[t]
    BY DEF ZoneInv, TypeOK
  <2>2. PICK a \in Int : a = largeAllocated
    BY <2>0 DEF StatsOK
  <2>3. PICK y \in Int : y = SumFunctionOnSet(f, S)
    BY <1>15
  <2>4. SumFunctionOnSet(f, S \ {b}) = y - w
    BY <1>2, <1>13, <1>15, <2>1, <2>3
  <2>5. PICK d \in Int, x \in Int : d = w - y /\ x = a - w
    BY <2>1, <2>2, <2>3
  <2>6. (d + (x % SizeMod)) % SizeMod = (d + x) % SizeMod
    BY <2>0, ModPlus, Zenon
  <2>7. PICK z \in 0 .. SizeMod - 1 : z = x % SizeMod
    BY <2>0
  <2>8. largeAllocated' = z
    BY <1>3, <2>1, <2>2, <2>5, <2>7
  <2>9. Drift' = (z - (y - w)) % SizeMod
    BY <1>3, <1>10, <1>13, <2>4, <2>8 DEF Drift
  <2>10. z - (y - w) = d + z /\ d + x = a - y
    BY <2>5, <2>7
  <2>11. Drift = (a - y) % SizeMod
    BY <1>9, <1>13, <2>2, <2>3 DEF Drift
  <2> QED BY <2>6, <2>7, <2>8, <2>9, <2>10, <2>11
<1>17. \A u \in Threads : AmountOK(u)'
  BY <1>3, <1>4, <1>5, AmountsStep
<1> QED BY <1>3, <1>10, <1>12, <1>16, <1>17 DEF Steady, StatsOK

\* A realloc in place changes a user_size that is counted, and large_allocated does not follow.
LEMMA StatsResize ==
    ASSUME ZoneInv, StatsOK, NEW t \in Threads, Resize(t)
    PROVE  StatsOK' /\ Drift' = (Drift + userSize[la[t]] - want[t]) % SizeMod
<1>1. PICK b : b = la[t]
  OBVIOUS
<1>2. b = ptr[t] /\ b \in live /\ b \in Bases /\ pc[t] = "found"
  BY <1>1 DEF Resize, CallsOK, Freeing, ZoneInv, TypeOK, Goto, At
<1>3. /\ userSize' = [userSize EXCEPT ![b] = want[t]]
      /\ UNCHANGED <<largeAllocated, largeCount>> /\ Return(t)
  BY <1>1 DEF Resize, statVars
<1>4. Others(t) /\ Alone(t) /\ pc'[t] = "idle"
  BY <1>3 DEF Others, Alone, Return, ZoneInv, TypeOK, Goto, At
<1>5. ~Uncounts(t) /\ ~Uncounts(t)' /\ AmountOK(t)'
  BY <1>2, <1>4 DEF Uncounts, AmountOK, Freeing
<1>6. \A u \in Threads : ~Owns(u, b)
  BY <1>2 DEF OwnersOK, ZoneInv, TypeOK, Goto, At
<1>7. Held' = Held
  BY ReturnStep
<1>8. PICK S : S = Counted
  OBVIOUS
<1>9. Counted' = S /\ b \in S
  <2>1. \A c : c \in Counted' <=> c \in Counted
    BY <1>4, <1>5, <1>7, CountedStep, CountedIs
  <2>2. b \in Counted
    BY <1>2, CountedIs, HeldIs
  <2> QED BY <2>1, <2>2, <1>8
<1>10. \A u \in Threads : AmountOK(u)'
  <2>1. \E c \in Bases : /\ \E v : userSize' = [userSize EXCEPT ![c] = v]
                         /\ \A u \in Threads \ {t} : ~Owns(u, c)
    BY <1>2, <1>3, <1>6
  <2> QED BY <1>4, <1>5, <2>1, AmountsStep
<1>11. PICK f : f = userSize
  OBVIOUS
<1>12. PICK g : g = userSize'
  OBVIOUS
<1>13. /\ f \in [Bases -> Nat] /\ g = [f EXCEPT ![b] = want[t]] /\ want[t] \in Nat
       /\ IsFiniteSet(S) /\ S \subseteq Bases
  BY <1>3, <1>8, <1>11, <1>12, CountedFacts DEF ZoneInv, TypeOK
<1>14. PICK R : R = S \ {b}
  OBVIOUS
<1>15. /\ IsFiniteSet(R) /\ b \notin R
       /\ \A x \in R : f[x] \in Int /\ f[x] = g[x]
       /\ \A x \in S : f[x] \in Int /\ g[x] \in Int
       /\ g[b] = want[t]
  <2>1. IsFiniteSet(R)
    BY <1>13, <1>14, FS_Subset
  <2> QED BY <2>1, <1>2, <1>13, <1>14
<1>16. /\ SumFunctionOnSet(f, S) = f[b] + SumFunctionOnSet(f, R)
       /\ SumFunctionOnSet(g, S) = g[b] + SumFunctionOnSet(g, R)
  BY <1>9, <1>13, <1>14, <1>15, SumRemove
<1>17. SumFunctionOnSet(f, R) \in Int /\ SumFunctionOnSet(g, R) = SumFunctionOnSet(f, R)
  BY <1>15, SumFacts
<1>18. Drift' = (Drift + userSize[b] - want[t]) % SizeMod
  <2>0. SizeMod \in Nat /\ SizeMod > 0
    BY LargeAssumption
  <2>1. PICK a \in Int : a = largeAllocated
    BY <2>0 DEF StatsOK
  <2>2. PICK v \in Int, w \in Int : v = f[b] /\ w = want[t] /\ w = g[b]
    BY <1>9, <1>13, <1>15
  <2>3. PICK y \in Int : y = SumFunctionOnSet(f, R) /\ y = SumFunctionOnSet(g, R)
    BY <1>17
  <2>4. SumFunctionOnSet(f, S) = v + y /\ SumFunctionOnSet(g, S) = w + y
    BY <1>16, <2>2, <2>3
  <2>5. PICK d \in Int, x \in Int : d = v - w /\ x = a - (v + y)
    BY <2>1, <2>2, <2>3
  <2>6. (d + (x % SizeMod)) % SizeMod = (d + x) % SizeMod
    BY <2>0, ModPlus, Zenon
  <2>7. PICK z \in 0 .. SizeMod - 1 : z = x % SizeMod
    BY <2>0
  <2>8. Drift = z
    BY <1>8, <1>11, <2>1, <2>4, <2>5, <2>7 DEF Drift
  <2>9. Drift' = (a - (w + y)) % SizeMod
    BY <1>3, <1>9, <1>12, <2>1, <2>4 DEF Drift
  <2>10. a - (w + y) = d + x /\ z + v - w = d + z
    BY <2>5, <2>7
  <2>11. userSize[b] = v /\ want[t] = w
    BY <1>11, <2>2
  <2> QED BY <2>6, <2>7, <2>8, <2>9, <2>10, <2>11
<1> QED BY <1>1, <1>3, <1>8, <1>9, <1>10, <1>18 DEF StatsOK

\* Every step is steady, but for a realloc in place.
LEMMA StatsStep ==
    ASSUME ZoneInv, Ranked, StatsOK, [Next]_vars
    PROVE  Steady \/ \E t \in Threads : Resize(t)
<1>1. CASE UNCHANGED vars
  <2>1. UNCHANGED <<pc, op, ptr, want, got, userSize, live, statVars>>
    BY <1>1 DEF vars, largeVars, callVars, argVars, memVars
  <2>2. UNCHANGED Counted
    BY <2>1 DEF Counted, Held, Moved
  <2>3. \A u \in Threads : AmountOK(u)'
    BY <2>1 DEF StatsOK, AmountOK
  <2> QED BY <2>1, <2>2, <2>3 DEF Steady, Drift, StatsOK, statVars
<1> QED
  BY <1>1, StepKinds, StatsCallback, StatsCalls, StatsListWork, StatsReturns, StatsGrowSlab,
     StatsMap, StatsFreeOld, StatsUnmap, StatsAdd, StatsSub, ZenonT(30)
  DEF LargeSteps, LargeStep

\* The order of the list and the number of blocks are kept by every step.
LEMMA StatsInvariant == Spec => [](Ranked /\ StatsOK)
<1>1. Init => Ranked /\ StatsOK
  <2> SUFFICES ASSUME Init PROVE Ranked /\ StatsOK
    OBVIOUS
  <2>1. Ranked
    BY RankedInit
  <2>2. Counted = {}
    BY DEF Init, LargeInit, Counted, Held, Moved, Freeing
  <2>3. Cardinality({}) = 0
    BY FS_EmptySet
  <2>4. \A t \in Threads : AmountOK(t)
    BY DEF Init, LargeInit, AmountOK, Freeing
  <2>5. 0 \in 0 .. SizeMod - 1
    BY LargeAssumption
  <2> QED BY <2>1, <2>2, <2>3, <2>4, <2>5 DEF StatsOK, Init, LargeInit
<1>2. ZoneInv /\ (Ranked /\ StatsOK) /\ [Next]_vars => (Ranked /\ StatsOK)'
  BY RankedStep, StatsStep, StatsResize DEF Steady
<1> QED BY ZoneSafety, <1>1, <1>2, PTL DEF Spec

\* The list, the locks, the owners of the blocks and the count of the blocks stay right,
\* for any number of threads and blocks, and whenever the process forks.
THEOREM LargeSafety == Spec => []LargeInv
<1>1. ZoneInv /\ (Ranked /\ StatsOK) => LargeInv
  BY DEF LargeInv
<1> QED BY ZoneSafety, StatsInvariant, <1>1, PTL

\* Only a my_realloc in place takes large_allocated away from the blocks it counts, and only
\* by the bytes it has changed: the additions and subtractions of overlapping calls, which
\* are made outside large_lock, lose nothing, for any number of threads and blocks.
THEOREM ZoneCounts == Spec => OnlyReallocDrifts
<1> DEFINE Good == ZoneInv /\ Ranked /\ StatsOK
           Only == \/ Drift' = Drift
                   \/ \E t \in Threads :
                        Resize(t) /\ Drift' = (Drift + userSize[la[t]] - want[t]) % SizeMod
<1>1. Good /\ [Next]_vars => [Only]_vars
  BY StatsStep, StatsResize DEF Steady
<1>2. Spec => []Good
  BY StatsInvariant, ZoneSafety, PTL
<1> QED BY <1>1, <1>2, PTL DEF Spec, OnlyReallocDrifts
=============================================================================
