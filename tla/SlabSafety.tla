----------------------------- MODULE SlabSafety -----------------------------
(***************************************************************************)
(* Proofs about Slab, second part: the owners of pages, and what a step    *)
(* preserves when the owner check of arena_alloc is not overtaken by a     *)
(* claim.  The bump pointer of a page then has a single writer, no slot is *)
(* handed out twice, the free lists are sound, and the allocator           *)
(* implements Heap.  Last, the executions in which the hypothesis holds,   *)
(* whose pages a call works on, and the turns in which arena_get gives out *)
(* the arenas.                                                             *)
(***************************************************************************)
EXTENDS SlabStructure, Basics

USE DEF pageVars, arenaVars, statVars, tldVars, progVars, Goto, PageInit

-----------------------------------------------------------------------------
(* Lists.                                                                  *)

\* Taking the head off a list without repetitions (the pop of local_free).
LEMMA PopFacts ==
    ASSUME NEW S, NEW s \in Seq(S), s # <<>>, IsInjective(s)
    PROVE  /\ Head(s) \in Range(s)
           /\ Head(s) \in S
           /\ Tail(s) \in Seq(S)
           /\ IsInjective(Tail(s))
           /\ Range(Tail(s)) = Range(s) \ {Head(s)}
<1>1. Head(s) \in Range(s) /\ Head(s) \in S /\ Tail(s) \in Seq(S)
  BY DEF Range
<1>2. IsInjective(Tail(s))
  BY DEF IsInjective
<1>3. Range(Tail(s)) \subseteq Range(s) \ {Head(s)}
  BY DEF Range, IsInjective
<1>4. Range(s) \subseteq Range(Tail(s)) \cup {Head(s)}
  <2> SUFFICES ASSUME NEW i \in 2 .. Len(s) PROVE s[i] \in Range(Tail(s))
    BY DEF Range
  <2> QED BY i - 1 \in DOMAIN Tail(s), Tail(s)[i - 1] = s[i] DEF Range
<1> QED BY <1>1, <1>2, <1>3, <1>4

\* Putting a new element in front (a local free, a remote push).
LEMMA PushFacts ==
    ASSUME NEW S, NEW s \in Seq(S), NEW x \in S
    PROVE  /\ <<x>> \o s \in Seq(S)
           /\ Range(<<x>> \o s) = Range(s) \cup {x}
           /\ IsInjective(s) /\ x \notin Range(s) => IsInjective(<<x>> \o s)
<1>1. <<x>> \o s \in Seq(S)
  OBVIOUS
<1>2. Range(<<x>> \o s) \subseteq Range(s) \cup {x}
  BY DEF Range
<1>3. Range(s) \subseteq Range(<<x>> \o s)
  <2> SUFFICES ASSUME NEW i \in 1 .. Len(s) PROVE s[i] \in Range(<<x>> \o s)
    BY DEF Range
  <2> QED BY i + 1 \in DOMAIN (<<x>> \o s), (<<x>> \o s)[i + 1] = s[i] DEF Range
<1>4. x \in Range(<<x>> \o s)
  BY 1 \in DOMAIN (<<x>> \o s), (<<x>> \o s)[1] = x DEF Range
<1>5. ASSUME IsInjective(s), x \notin Range(s) PROVE IsInjective(<<x>> \o s)
  BY <1>5 DEF Range, IsInjective
<1> QED BY <1>1, <1>2, <1>3, <1>4, <1>5

\* The empty list.
LEMMA EmptyFacts ==
    /\ Range(<<>>) = {}
    /\ IsInjective(<<>>)
    /\ \A S : <<>> \in Seq(S)
BY DEF Range, IsInjective


-----------------------------------------------------------------------------
(* Ownership.                                                              *)

\* No step makes a thread work, in the slow path, on a page of its own.
LEMMA NeverOwnStep ==
    ASSUME TypeOK, LocksOK, PagesOK, NeverOwn, NEW t \in Threads, Call(t) \/ Step(t)
    PROVE  NeverOwn'
<1>1. /\ pc \in [Threads -> Labels] /\ pg \in [Threads -> Page \cup {NULL}]
      /\ owner \in [Page -> Threads \cup {NoOwner}]
  BY DEF TypeOK, PageTypes, CallTypes
<1>2. CASE /\ UNCHANGED owner
           /\ pc'[t] \in OnPage => pc[t] \in OnPage /\ pg'[t] = pg[t]
           /\ \A u \in Threads \ {t} : pc'[u] = pc[u] /\ pg'[u] = pg[u]
  BY <1>2 DEF NeverOwn
<1>3. CASE \/ AllocPop(t) \/ AllocBump(t) \/ AllocCollect(t) \/ CollectCount(t)
           \/ AllocFull(t) \/ AllocUncached(t) \/ FastRead(t) \/ FastBump(t)
           \/ FastUsed(t)
  BY <1>1, <1>2, <1>3, Zenon DEF AllocPop, AllocBump, AllocCollect, CollectCount,
    AllocFull, AllocUncached, FastRead, FastBump, FastUsed, BumpRead, BumpStore, Return,
    OnPage
<1>4. CASE \/ ArenaGet(t) \/ Lock(t) \/ ScanEnd(t) \/ ScanOwned(t) \/ ScanFull(t)
           \/ NoMemory(t)
  BY <1>1, <1>2, <1>4, Zenon DEF ArenaGet, Lock, ScanEnd, ScanOwned, ScanFull, NoMemory,
    Return, OnPage
<1>5. CASE \/ ScanRoom(t) \/ SlowRead(t) \/ SlowBump(t) \/ SlowUsed(t) \/ Unlock(t)
           \/ ClaimFails(t)
  BY <1>1, <1>2, <1>5, Zenon DEF ScanRoom, SlowRead, SlowBump, SlowUsed, Unlock,
    ClaimFails, BumpRead, BumpStore, Return, OnPage
<1>6. CASE \/ RemotePush(t) \/ RemoteCount(t) \/ LocalUsed(t) \/ RemoteUsed(t)
           \/ ThreadExit(t)
           \/ \E b \in live : FreeLocal(t, b) \/ FreeRemote(t, b) \/ FreeUnregistered(t, b)
  BY <1>1, <1>2, <1>6, Zenon DEF FreeLocal, FreeRemote, FreeUnregistered, RemotePush,
    RemoteCount, LocalUsed, RemoteUsed, ThreadExit, Return, OnPage
<1>7. CASE ScanUnowned(t)
  <2>1. UNCHANGED owner /\ owner[pg'[t]] = NoOwner
    BY <1>1, <1>7 DEF ScanUnowned
  <2>2. \A u \in Threads \ {t} : pc'[u] = pc[u] /\ pg'[u] = pg[u]
    BY <1>1, <1>7, Zenon DEF ScanUnowned
  <2> QED BY <2>1, <2>2, SentinelAssumption DEF NeverOwn
<1>8. ASSUME NEW p \in Page, PageTaken(t, p) PROVE NeverOwn'
  <2>1. pg'[t] = p /\ owner' = [owner EXCEPT ![p] = NoOwner]
    BY <1>1, <1>8 DEF PageTaken, TakePage
  <2>2. \A u \in Threads \ {t} : pc'[u] = pc[u] /\ pg'[u] = pg[u]
    BY <1>1, <1>8, Zenon DEF PageTaken, TakePage
  <2> QED BY <1>1, <2>1, <2>2, SentinelAssumption DEF NeverOwn
<1>9. CASE Claim(t)
  <2>1. pc'[t] \notin OnPage /\ owner' = [owner EXCEPT ![pg[t]] = t]
    BY <1>1, <1>9 DEF Claim, Return, OnPage
  <2>2. \A u \in Threads \ {t} : pc'[u] = pc[u] /\ pg'[u] = pg[u]
    BY <1>1, <1>9, Zenon DEF Claim, Return
  <2> QED BY <1>1, <2>1, <2>2 DEF NeverOwn
<1>10. CASE \/ \E p \in Page : NewPage(t, p)
            \/ \E s \in Segments : NewSegment(t, s)
  BY <1>8, <1>10, PageTakenFacts
<1> QED BY <1>3, <1>4, <1>5, <1>6, <1>7, <1>9, <1>10, Zenon DEF Call, Step

\* No step takes an abandoned page from its owner, or gives it back to the owner.
LEMMA AbandonedStep ==
    ASSUME TypeOK, LocksOK, PagesOK, RegistersOK, NeverOwn,
           NEW t \in Threads, Call(t) \/ Step(t), NEW p \in Page, Abandoned(p)
    PROVE  Abandoned(p)' /\ owner'[p] = owner[p]
<1>1. /\ owner \in [Page -> Threads \cup {NoOwner}]
      /\ binPage \in [Threads -> Page \cup {NULL}]
      /\ owner[p] \in Threads /\ binPage[owner[p]] # p
  BY DEF TypeOK, PageTypes, TldTypes, Abandoned
<1>2. CASE UNCHANGED owner /\ (binPage' = binPage \/ binPage' = [binPage EXCEPT ![t] = NULL])
  BY <1>1, <1>2, SentinelAssumption DEF Abandoned
<1>3. CASE \/ AllocPop(t) \/ AllocBump(t) \/ AllocCollect(t) \/ CollectCount(t)
           \/ AllocFull(t) \/ AllocUncached(t) \/ FastRead(t) \/ FastBump(t)
           \/ FastUsed(t) \/ ThreadExit(t)
  BY <1>2, <1>3, Zenon DEF AllocPop, AllocBump, AllocCollect, CollectCount,
    AllocFull, AllocUncached, FastRead, FastBump, FastUsed, BumpRead, BumpStore,
    ThreadExit
<1>4. CASE \/ ArenaGet(t) \/ Lock(t) \/ ScanEnd(t) \/ ScanOwned(t) \/ ScanUnowned(t)
           \/ ScanRoom(t) \/ ScanFull(t) \/ SlowRead(t) \/ SlowBump(t) \/ SlowUsed(t)
           \/ NoMemory(t) \/ Unlock(t) \/ ClaimFails(t)
  BY <1>2, <1>4, Zenon DEF ArenaGet, Lock, ScanEnd, ScanOwned, ScanUnowned, ScanRoom,
    ScanFull, SlowRead, SlowBump, SlowUsed, NoMemory, Unlock, ClaimFails, BumpRead,
    BumpStore
<1>5. CASE \/ RemotePush(t) \/ RemoteCount(t) \/ LocalUsed(t) \/ RemoteUsed(t)
           \/ \E b \in live : FreeLocal(t, b) \/ FreeRemote(t, b) \/ FreeUnregistered(t, b)
  BY <1>2, <1>5, Zenon DEF FreeLocal, FreeRemote, FreeUnregistered, RemotePush,
    RemoteCount, LocalUsed, RemoteUsed
<1>6. ASSUME NEW q \in Page, PageTaken(t, q) PROVE Abandoned(p)' /\ owner'[p] = owner[p]
  <2>1. /\ pstate[q] = "UNUSED" /\ owner' = [owner EXCEPT ![q] = NoOwner]
        /\ binPage' = binPage
    BY <1>6 DEF PageTaken, TakePage
  <2>2. owner[q] = NoOwner
    BY <2>1 DEF PagesOK
  <2> QED BY <1>1, <2>1, <2>2, SentinelAssumption DEF Abandoned
<1>7. CASE Claim(t)
  <2>1. /\ pc[t] = "claim" /\ owner[pg[t]] \in {NoOwner, t}
        /\ owner' = [owner EXCEPT ![pg[t]] = t] /\ binPage' = [binPage EXCEPT ![t] = pg[t]]
    BY <1>7, Zenon DEF Claim
  <2>2. pg[t] \in Page
    BY <2>1, AddressFacts DEF RegistersOK, Holding
  <2>3. owner[pg[t]] # t
    BY <2>1 DEF NeverOwn, OnPage
  <2>4. pg[t] # p
    BY <1>1, <2>1, <2>3, SentinelAssumption
  <2> QED BY <1>1, <2>1, <2>2, <2>4 DEF Abandoned
<1>8. CASE \/ \E q \in Page : NewPage(t, q)
           \/ \E s \in Segments : NewSegment(t, s)
  BY <1>6, <1>8, PageTakenFacts
<1> QED BY <1>3, <1>4, <1>5, <1>7, <1>8, Zenon DEF Call, Step

\* In every execution, a page that its owner has dropped from its cache (slab.c:124),
\* or whose owner has exited, is never cached by any thread again.
THEOREM AbandonedSafety == Spec => AbandonedForever
<1>1. Init => NeverOwn
  BY DEF Init, NeverOwn, OnPage
<1>2. StructInv /\ NeverOwn /\ [Next]_vars => NeverOwn'
  <2> SUFFICES ASSUME StructInv, NeverOwn, [Next]_vars PROVE NeverOwn'
    OBVIOUS
  <2>1. ASSUME NEW t \in Threads, Call(t) \/ Step(t) PROVE NeverOwn'
    BY <2>1, NeverOwnStep DEF StructInv
  <2>2. CASE UNCHANGED vars
    BY <2>2 DEF vars, NeverOwn
  <2> QED BY <2>1, <2>2 DEF Next
<1>3. StructInv /\ NeverOwn /\ [Next]_vars
        => [\A p \in Page : Abandoned(p) => Abandoned(p)' /\ owner'[p] = owner[p]]_vars
  <2> SUFFICES ASSUME StructInv, NeverOwn, NEW t \in Threads, Call(t) \/ Step(t),
                      NEW p \in Page, Abandoned(p)
               PROVE  Abandoned(p)' /\ owner'[p] = owner[p]
    BY Zenon DEF Next
  <2> QED BY AbandonedStep DEF StructInv
<1> QED BY <1>1, <1>2, <1>3, StructSafety, PTL DEF Spec, AbandonedForever

-----------------------------------------------------------------------------
(* The bump pointer, when no claim overtakes the owner check.              *)

\* Labels between the test of a page's bump_offset and its store.
AtBump == {"fast_read", "slow_read"} \cup Bumping

\* The single-writer invariant of bump_offset: while one thread is between testing
\* and storing the bump pointer of a page, no other thread is.  Two fast paths are
\* kept apart by the owner, two slow paths by the lock of the page's arena, and a
\* fast path from a slow path by the owner check.
LEMMA SingleWriter ==
    ASSUME LocksOK, ArenasOK, CachesOK, OwnerCheckHolds,
           NEW t \in Threads, NEW u \in Threads, t # u,
           pc[t] \in AtBump, pc[u] \in AtBump
    PROVE  pg[t] # pg[u]
<1>1. \A r \in Threads : pc[r] \in {"fast_read", "fast_bump"} => owner[pg[r]] = r
  BY DEF CachesOK
<1>2. \A r \in Threads : pc[r] \in {"slow_read", "slow_bump"} => owner[pg[r]] = NoOwner
  BY DEF OwnerCheckHolds
<1>3. \A r \in Threads : pc[r] \in {"slow_read", "slow_bump"} =>
        lock[tldArena[r]] = r /\ segArena[SegmentOf(pg[r])] = tldArena[r]
  BY DEF LocksOK, Locked, ArenasOK, OnPage
<1> QED BY <1>1, <1>2, <1>3, SentinelAssumption DEF AtBump, Bumping

\* The slot found by the second load of bump_offset is a slot of the page that
\* nobody holds or has held.
LEMMA ReadIsFresh ==
    ASSUME TypeOK, RegistersOK, LocksOK, ArenasOK, CachesOK, OwnerCheckHolds, BumpOK,
           NEW t \in Threads, FastRead(t) \/ SlowRead(t)
    PROVE  /\ pg[t] \in Page /\ bump[pg[t]] \in Slot
           /\ hand' = [hand EXCEPT ![t] = <<pg[t], bump[pg[t]]>>]
           /\ <<pg[t], bump[pg[t]]>> \notin live \cup dirty
           /\ \A u \in Threads \ {t} : hand[u] # <<pg[t], bump[pg[t]]>>
<1>1. /\ bump \in [Page -> Nat] /\ live \cup dirty \subseteq Block
      /\ hand \in [Threads -> Address \cup {NULL}]
  BY DEF TypeOK, PageTypes, CallTypes, ProgTypes
<1>2. /\ pc[t] \in {"fast_read", "slow_read"}
      /\ hand' = [hand EXCEPT ![t] = <<pg[t], bump[pg[t]]>>]
  BY Zenon DEF FastRead, SlowRead, BumpRead
<1>3. pg[t] \in Page /\ bump[pg[t]] \in Slot
  BY <1>1, <1>2, SlotFacts DEF RegistersOK, BumpOK
<1>4. <<pg[t], bump[pg[t]]>> \notin live \cup dirty
  BY <1>1, <1>3, BlockFacts, SlotFacts DEF BumpOK
<1>5. ASSUME NEW u \in Threads \ {t}, hand[u] = <<pg[t], bump[pg[t]]>> PROVE FALSE
  <2>1. <<pg[t], bump[pg[t]]>> # NULL
    BY <1>3, NullFacts
  <2>2. pc[u] \in Holding /\ pg[u] = pg[t] /\ SlotOf(hand[u]) = bump[pg[u]]
    BY <1>3, <1>5, <2>1, BlockFacts DEF RegistersOK
  <2>3. pc[u] \in Bumping
    BY <1>1, <1>3, <2>2 DEF BumpOK
  <2> QED BY <1>2, <2>2, <2>3, SingleWriter DEF AtBump
<1> QED BY <1>2, <1>3, <1>4, <1>5

\* The slot popped off local_free is a slot of the page that nobody holds.
LEMMA PopIsFresh ==
    ASSUME TypeOK, FreeListsSound, NEW t \in Threads, AllocPop(t)
    PROVE  \E b \in Block : /\ b \notin live /\ \A u \in Threads : hand[u] # b
                            /\ hand' = [hand EXCEPT ![t] = b]
                            /\ live' = live
<1>1. /\ binPage[t] \in Page /\ localFree[binPage[t]] \in Seq(Slot)
      /\ localFree[binPage[t]] # <<>> /\ IsInjective(localFree[binPage[t]])
  BY DEF TypeOK, PageTypes, TldTypes, AllocPop, Cached, FreeListsSound
<1>2. /\ <<binPage[t], Head(localFree[binPage[t]])>> \notin live
      /\ \A u \in Threads : hand[u] # <<binPage[t], Head(localFree[binPage[t]])>>
  BY <1>1, PopFacts DEF FreeListsSound
<1>3. /\ hand' = [hand EXCEPT ![t] = <<binPage[t], Head(localFree[binPage[t]])>>]
      /\ live' = live
  BY DEF AllocPop
<1>4. <<binPage[t], Head(localFree[binPage[t]])>> \in Block
  BY <1>1, PopFacts, BlockFacts
<1> QED BY <1>2, <1>3, <1>4, Zenon

\* The first slot of a page arena_alloc takes is one that nobody holds.
LEMMA FirstIsFresh ==
    ASSUME RegistersOK, PagesOK, NEW t \in Threads, NEW p \in Page, PageTaken(t, p)
    PROVE  \E b \in Block : /\ b \notin live /\ \A u \in Threads : hand[u] # b
                            /\ hand' = [hand EXCEPT ![t] = b]
                            /\ live' = live
<1>1. pstate[p] = "UNUSED" /\ hand' = [hand EXCEPT ![t] = <<p, 0>>] /\ live' = live
  BY DEF PageTaken, TakePage
<1>2. <<p, 0>> \in Block /\ <<p, 0>> # NULL /\ PageOf(<<p, 0>>) = p
  BY NullFacts, BlockFacts, SlotFacts
<1>3. <<p, 0>> \notin live
  BY <1>1, <1>2 DEF PagesOK
<1>4. ASSUME NEW u \in Threads, hand[u] = <<p, 0>> PROVE FALSE
  <2>1. pc[u] \in Holding /\ pg[u] = p
    BY <1>2, <1>4 DEF RegistersOK
  <2> QED BY <1>1, <2>1 DEF PagesOK
<1> QED BY <1>1, <1>2, <1>3, <1>4, Zenon

\* The store moves the bump pointer past the slot in hand, whichever load it adds to.
LEMMA StorePasses ==
    ASSUME TypeOK, RegistersOK, BumpOK, NEW t \in Threads, FastBump(t) \/ SlowBump(t)
    PROVE  /\ pg[t] \in Page /\ bump[pg[t]] \in Nat /\ bump[pg[t]] < Capacity
           /\ SlotOf(hand[t]) = bump[pg[t]] /\ pc[t] \in Bumping
           /\ bump' = [bump EXCEPT ![pg[t]] = bump[pg[t]] + 1]
           /\ UNCHANGED <<localFree, remoteFree, live, dirty, hand, pg>>
<1>1. pc[t] \in Bumping /\ BumpStore(t)
  BY Zenon DEF FastBump, SlowBump, Bumping
<1>2. pg[t] \in Page
  BY <1>1, AddressFacts DEF RegistersOK, Holding, Bumping
<1>3. /\ SlotOf(hand[t]) = bump[pg[t]] /\ bump[pg[t]] < Capacity /\ bump[pg[t]] \in Nat
  BY <1>1, <1>2 DEF BumpOK, TypeOK, PageTypes
<1>4. /\ bump' = [bump EXCEPT ![pg[t]] = bump[pg[t]] + 1]
      /\ UNCHANGED <<localFree, remoteFree, live, dirty, hand, pg>>
  BY <1>1, <1>3, Zenon DEF BumpStore
<1> QED BY <1>1, <1>2, <1>3, <1>4

\* Every step keeps the bump pointers ahead of the blocks handed out.
LEMMA BumpOKStep ==
    ASSUME TypeOK, RegistersOK, LocksOK, ArenasOK, PagesOK, CachesOK,
           OwnerCheckHolds, BumpOK, FreeListsSound, NEW t \in Threads, Call(t) \/
           Step(t)
    PROVE  BumpOK'
<1>1. /\ bump \in [Page -> Nat] /\ localFree \in [Page -> Seq(Slot)]
      /\ binPage \in [Threads -> Page \cup {NULL}] /\ pc \in [Threads -> Labels]
      /\ pg \in [Threads -> Page \cup {NULL}]
      /\ hand \in [Threads -> Address \cup {NULL}] /\ live \in SUBSET Block
      /\ dirty \in SUBSET Block
  BY DEF TypeOK, PageTypes, TldTypes, CallTypes, ProgTypes
<1>2. CASE /\ UNCHANGED <<bump, dirty>> /\ live' \subseteq live
           /\ pc'[t] \notin AtBump
           /\ pc'[t] \in Holding => /\ pc[t] \in Holding \ Bumping
                                    /\ hand'[t] = hand[t] /\ pg'[t] = pg[t]
           /\ \A u \in Threads \ {t} :
                pc'[u] = pc[u] /\ pg'[u] = pg[u] /\ hand'[u] = hand[u]
  BY <1>2 DEF BumpOK, AtBump
<1>3. CASE \/ AllocCollect(t) \/ CollectCount(t) \/ AllocFull(t)
           \/ AllocUncached(t)
  BY <1>1, <1>2, <1>3, Zenon DEF AllocCollect, CollectCount, AllocFull, AllocUncached,
    Cached, Holding, Bumping, AtBump
<1>4. CASE \/ ArenaGet(t) \/ Lock(t) \/ ScanEnd(t) \/ ScanOwned(t)
           \/ ScanUnowned(t) \/ ScanFull(t) \/ SlowUsed(t) \/ NoMemory(t)
           \/ Unlock(t)
  BY <1>1, <1>2, <1>4 DEF ArenaGet, Lock, ScanEnd, ScanOwned, ScanUnowned,
    ScanFull, SlowUsed, NoMemory, Unlock, Return, Holding, Bumping,
    AtBump
<1>5. CASE \/ RemotePush(t) \/ RemoteCount(t) \/ LocalUsed(t) \/ RemoteUsed(t)
           \/ ThreadExit(t)
           \/ \E b \in live : FreeLocal(t, b) \/ FreeUnregistered(t, b)
  BY <1>1, <1>2, <1>5, Zenon DEF FreeLocal, FreeUnregistered, RemotePush, RemoteCount,
    LocalUsed, RemoteUsed, ThreadExit, Return, Holding, Bumping, AtBump
<1>6. CASE AllocPop(t)
  <2>1. /\ binPage[t] \in Page /\ localFree[binPage[t]] \in Seq(Slot)
        /\ localFree[binPage[t]] # <<>> /\ IsInjective(localFree[binPage[t]])
    BY <1>6, <1>1 DEF AllocPop, Cached, FreeListsSound
  <2>2. /\ Head(localFree[binPage[t]]) \in Slot
        /\ Head(localFree[binPage[t]]) < bump[binPage[t]]
    BY <2>1, PopFacts, Zenon DEF FreeListsSound
  <2>3. /\ hand' = [hand EXCEPT ![t] = <<binPage[t], Head(localFree[binPage[t]])>>]
        /\ pg' = [pg EXCEPT ![t] = binPage[t]] /\ pc' = [pc EXCEPT ![t] = "fast_used"]
        /\ UNCHANGED <<live, dirty, bump>>
    BY <1>6 DEF AllocPop
  <2> QED BY <1>1, BlockFacts, <2>1, <2>2, <2>3 DEF BumpOK, Holding, Bumping
<1>7. CASE AllocBump(t) \/ ScanRoom(t)
  <2>1. /\ pc'[t] \in {"fast_read", "slow_read"} /\ bump[pg'[t]] < Capacity
        /\ \A u \in Threads \ {t} : pc'[u] = pc[u] /\ pg'[u] = pg[u]
        /\ UNCHANGED <<bump, live, dirty, hand>>
    BY <1>7, <1>1 DEF AllocBump, ScanRoom, Cached
  <2> QED BY <2>1 DEF BumpOK, Holding, Bumping
<1>8. CASE FastBump(t) \/ SlowBump(t)
  <2>1. /\ pg[t] \in Page /\ bump[pg[t]] \in Nat /\ bump[pg[t]] < Capacity
        /\ SlotOf(hand[t]) = bump[pg[t]] /\ pc[t] \in Bumping
        /\ bump' = [bump EXCEPT ![pg[t]] = bump[pg[t]] + 1]
        /\ UNCHANGED <<live, dirty, hand, pg>>
    BY <1>8, StorePasses
  <2>2. /\ pc'[t] \in {"fast_used", "slow_used"}
        /\ \A u \in Threads \ {t} : pc'[u] = pc[u]
    BY <1>8, <1>1 DEF FastBump, SlowBump
  <2>3. \A u \in Threads \ {t} : pc[u] \in AtBump => pg[u] # pg[t]
    BY <2>1, SingleWriter DEF AtBump
  <2>4. \A u \in Threads : pc[u] \in Holding => pg[u] \in Page /\ SlotOf(hand[u]) \in Nat
    BY AddressFacts DEF RegistersOK
  <2>5. \A b \in live \cup dirty : PageOf(b) \in Page /\ SlotOf(b) \in Nat
    BY <1>1, BlockFacts, SlotFacts
  <2>6. \A u \in Threads : pc[u] \in {"fast_read", "slow_read"} => pg[u] \in Page
    BY DEF RegistersOK
  <2>7. /\ \A p \in Page : bump'[p] <= Capacity
        /\ \A b \in live' \cup dirty' : SlotOf(b) < bump'[PageOf(b)]
    BY <1>1, <2>1, <2>5, SlotFacts DEF BumpOK
  <2>8. \A u \in Threads \ {t} :
             /\ pc'[u] \in {"fast_read", "slow_read"} => bump'[pg'[u]] < Capacity
             /\ pc'[u] \in Bumping => SlotOf(hand'[u]) < Capacity
             /\ pc'[u] \in Bumping => SlotOf(hand'[u]) = bump'[pg'[u]]
             /\ pc'[u] \in Holding \ Bumping => SlotOf(hand'[u]) < bump'[pg'[u]]
    BY <1>1, <2>1, <2>2, <2>3, <2>4, <2>6 DEF BumpOK, Holding, AtBump, Bumping
  <2>9. pc'[t] \in Holding \ Bumping /\ SlotOf(hand'[t]) < bump'[pg'[t]]
    BY <1>1, <2>1, <2>2 DEF Holding, Bumping
  <2> QED BY <2>2, <2>7, <2>8, <2>9 DEF BumpOK
<1>9. CASE FastUsed(t) \/ Claim(t) \/ ClaimFails(t)
  <2>1. /\ pc[t] \in Holding \ Bumping /\ pc'[t] = "idle" /\ bump' = bump
        /\ live' \subseteq live \cup {hand[t]} /\ dirty' \subseteq dirty \cup {hand[t]}
        /\ \A u \in Threads \ {t} :
             pc'[u] = pc[u] /\ pg'[u] = pg[u] /\ hand'[u] = hand[u]
    BY <1>9, <1>1 DEF FastUsed, Claim, ClaimFails, Deliver, Return, Holding, Bumping
  <2>2. SlotOf(hand[t]) < bump[PageOf(hand[t])]
    BY <2>1 DEF BumpOK, RegistersOK
  <2> QED BY <2>1, <2>2 DEF BumpOK, Holding, Bumping
<1>10. CASE FastRead(t) \/ SlowRead(t)
  <2>1. /\ pg[t] \in Page /\ bump[pg[t]] \in Slot
        /\ hand' = [hand EXCEPT ![t] = <<pg[t], bump[pg[t]]>>]
    BY <1>10, ReadIsFresh, Zenon
  <2>2. /\ pc'[t] \in Bumping /\ \A u \in Threads \ {t} : pc'[u] = pc[u]
        /\ UNCHANGED <<bump, live, dirty, pg>>
    BY <1>10, <1>1 DEF FastRead, SlowRead, BumpRead, Bumping
  <2>3. SlotOf(hand'[t]) = bump'[pg'[t]] /\ SlotOf(hand'[t]) < Capacity
    BY <1>1, <2>1, <2>2, BlockFacts, SlotFacts
  <2> QED BY <1>1, <2>1, <2>2, <2>3 DEF BumpOK, Bumping
<1>11. ASSUME NEW p \in Page, PageTaken(t, p) PROVE BumpOK'
  <2>1. /\ pstate[p] = "UNUSED" /\ bump' = [bump EXCEPT ![p] = 1]
        /\ hand' = [hand EXCEPT ![t] = <<p, 0>>] /\ pg' = [pg EXCEPT ![t] = p]
        /\ pc' = [pc EXCEPT ![t] = "unlock"] /\ UNCHANGED <<live, dirty>>
    BY <1>11 DEF PageTaken, TakePage
  <2>2. \A u \in Threads : pc[u] \in Holding \cup {"fast_read", "slow_read"} =>
             pg[u] \in Page /\ pg[u] # p
    <3>1. \A u \in Threads : pc[u] \in Holding => pg[u] \in Page /\ pg[u] # p
      BY <2>1, AddressFacts DEF RegistersOK, PagesOK
    <3>2. \A u \in Threads : pc[u] = "fast_read" => pg[u] \in Page /\ pg[u] # p
      BY <2>1, SentinelAssumption DEF RegistersOK, CachesOK, PagesOK
    <3>3. \A u \in Threads : pc[u] = "slow_read" => pg[u] \in Page /\ pg[u] # p
      BY <2>1 DEF RegistersOK, ArenasOK, OnPage
    <3> QED BY <3>1, <3>2, <3>3
  <2>3. \A b \in live \cup dirty : PageOf(b) \in Page /\ SlotOf(b) < bump[PageOf(b)]
                                   /\ SlotOf(b) \in Nat
    BY <1>1, BlockFacts, SlotFacts DEF BumpOK
  <2>4. \A b \in live \cup dirty : PageOf(b) # p
    BY <2>1, <2>3 DEF PagesOK
  <2>5. /\ \A q \in Page : bump'[q] <= Capacity
        /\ \A b \in live' \cup dirty' : SlotOf(b) < bump'[PageOf(b)]
    BY <1>1, <2>1, <2>3, <2>4, ConstantsAssumption DEF BumpOK
  <2>6. pc'[t] \in Holding \ Bumping /\ pc'[t] \notin AtBump
        /\ SlotOf(hand'[t]) < bump'[pg'[t]]
    BY <1>1, <2>1, AddressFacts DEF Holding, Bumping, AtBump
  <2>7. \A u \in Threads \ {t} :
             /\ pc'[u] = pc[u] /\ pg'[u] = pg[u] /\ hand'[u] = hand[u]
             /\ pc[u] \in Holding \cup {"fast_read", "slow_read"} =>
                  bump'[pg[u]] = bump[pg[u]]
    BY <1>1, <2>1, <2>2
  <2> QED BY <2>5, <2>6, <2>7, SMTT(20) DEF BumpOK, Holding, AtBump, Bumping
<1>12. ASSUME NEW b \in live, FreeRemote(t, b) PROVE BumpOK'
  BY <1>12, <1>1, BlockFacts DEF FreeRemote, BumpOK, RegistersOK, Holding, Bumping
<1>13. CASE \/ \E p \in Page : NewPage(t, p)
            \/ \E s \in Segments : NewSegment(t, s)
  BY <1>11, <1>13, PageTakenFacts
<1> QED BY <1>3, <1>4, <1>5, <1>6, <1>7, <1>8, <1>9, <1>10, <1>12,
  <1>13 DEF Call, Step

\* Every step keeps the blocks handed out distinct.
LEMMA NoDoubleAllocStep ==
    ASSUME TypeOK, RegistersOK, LocksOK, ArenasOK, PagesOK, CachesOK,
           OwnerCheckHolds, BumpOK, NoDoubleAlloc, FreeListsSound, NEW t \in
           Threads, Call(t) \/ Step(t)
    PROVE  NoDoubleAlloc'
<1>1. /\ bump \in [Page -> Nat] /\ localFree \in [Page -> Seq(Slot)]
      /\ binPage \in [Threads -> Page \cup {NULL}]
      /\ hand \in [Threads -> Address \cup {NULL}] /\ live \in SUBSET Block
  BY DEF TypeOK, PageTypes, TldTypes, CallTypes, ProgTypes
<1>2. CASE /\ live' \subseteq live /\ hand'[t] \in {hand[t], NULL}
           /\ \A u \in Threads \ {t} : hand'[u] = hand[u]
  BY <1>2 DEF NoDoubleAlloc
<1>3. CASE \/ AllocCollect(t) \/ CollectCount(t) \/ AllocFull(t)
           \/ AllocUncached(t) \/ AllocBump(t) \/ FastBump(t)
  BY <1>1, <1>2, <1>3, Zenon DEF AllocCollect, CollectCount, AllocFull, AllocUncached,
    AllocBump, FastBump, BumpStore, Cached
<1>4. CASE \/ ArenaGet(t) \/ Lock(t) \/ ScanEnd(t) \/ ScanOwned(t)
           \/ ScanUnowned(t) \/ ScanFull(t) \/ SlowUsed(t) \/ NoMemory(t)
           \/ Unlock(t) \/ ScanRoom(t) \/ SlowBump(t)
  BY <1>1, <1>2, <1>4, Zenon DEF ArenaGet, Lock, ScanEnd, ScanOwned, ScanUnowned,
    ScanFull, SlowUsed, NoMemory, Unlock, ScanRoom, SlowBump, BumpStore, Return
<1>5. CASE \/ RemotePush(t) \/ RemoteCount(t) \/ LocalUsed(t) \/ RemoteUsed(t)
           \/ ThreadExit(t)
           \/ \E b \in live : FreeLocal(t, b) \/ FreeUnregistered(t, b)
  BY <1>1, <1>2, <1>5, Zenon DEF FreeLocal, FreeUnregistered, RemotePush, RemoteCount,
    LocalUsed, RemoteUsed, ThreadExit, Return
<1>6. CASE AllocPop(t)
  <2>1. PICK b \in Block : /\ b \notin live /\ \A u \in Threads : hand[u] # b
                            /\ hand' = [hand EXCEPT ![t] = b]
                            /\ live' = live
    BY <1>6, PopIsFresh, Zenon
  <2>2. hand'[t] = b /\ \A u \in Threads \ {t} : hand'[u] = hand[u]
    BY <1>1, <2>1
  <2> QED BY <2>1, <2>2 DEF NoDoubleAlloc
<1>7. CASE FastRead(t) \/ SlowRead(t)
  <2>1. /\ pg[t] \in Page /\ bump[pg[t]] \in Slot
        /\ hand' = [hand EXCEPT ![t] = <<pg[t], bump[pg[t]]>>]
        /\ <<pg[t], bump[pg[t]]>> \notin live
        /\ \A u \in Threads \ {t} : hand[u] # <<pg[t], bump[pg[t]]>>
    BY <1>7, ReadIsFresh
  <2>2. <<pg[t], bump[pg[t]]>> \in Block /\ live' = live
    BY <1>7, <2>1, BlockFacts, Zenon DEF FastRead, SlowRead, BumpRead
  <2> QED BY <1>1, <2>1, <2>2, Zenon DEF NoDoubleAlloc
<1>8. CASE FastUsed(t) \/ Claim(t) \/ ClaimFails(t)
  <2>1. /\ hand'[t] = NULL /\ \A u \in Threads \ {t} : hand'[u] = hand[u]
        /\ live' \subseteq live \cup {hand[t]}
    BY <1>8, <1>1 DEF FastUsed, Claim, ClaimFails, Deliver, Return
  <2> QED BY <2>1 DEF NoDoubleAlloc
<1>9. ASSUME NEW p \in Page, PageTaken(t, p) PROVE NoDoubleAlloc'
  <2>1. PICK b \in Block : /\ b \notin live /\ \A u \in Threads : hand[u] # b
                            /\ hand' = [hand EXCEPT ![t] = b]
                            /\ live' = live
    BY <1>9, FirstIsFresh, Zenon
  <2>2. hand'[t] = b /\ \A u \in Threads \ {t} : hand'[u] = hand[u]
    BY <1>1, <2>1
  <2> QED BY <2>1, <2>2 DEF NoDoubleAlloc
<1>10. ASSUME NEW b \in live, FreeRemote(t, b) PROVE NoDoubleAlloc'
  BY <1>10, <1>1 DEF FreeRemote, NoDoubleAlloc
<1>11. CASE \/ \E p \in Page : NewPage(t, p)
            \/ \E s \in Segments : NewSegment(t, s)
  BY <1>9, <1>11, PageTakenFacts
<1> QED BY <1>3, <1>4, <1>5, <1>6, <1>7, <1>8, <1>10, <1>11 DEF Call, Step

\* Every step keeps a slot reported zeroed out of the program's past.
LEMMA ZeroedIsVirginStep ==
    ASSUME TypeOK, RegistersOK, LocksOK, ArenasOK, PagesOK, CachesOK,
           OwnerCheckHolds, BumpOK, NoDoubleAlloc, ZeroedIsVirgin,
           NEW t \in Threads, Call(t) \/ Step(t)
    PROVE  ZeroedIsVirgin'
<1>1. /\ bump \in [Page -> Nat]
      /\ binPage \in [Threads -> Page \cup {NULL}]
      /\ hand \in [Threads -> Address \cup {NULL}] /\ zeroed \in [Threads -> BOOLEAN]
      /\ dirty \in SUBSET Block
  BY DEF TypeOK, PageTypes, TldTypes, CallTypes, ProgTypes
<1>2. CASE /\ dirty' = dirty
           /\ zeroed'[t] /\ hand'[t] # NULL => zeroed[t] /\ hand'[t] = hand[t]
           /\ \A u \in Threads \ {t} : hand'[u] = hand[u] /\ zeroed'[u] = zeroed[u]
  BY <1>2 DEF ZeroedIsVirgin
<1>3. CASE \/ AllocCollect(t) \/ CollectCount(t) \/ AllocFull(t)
           \/ AllocUncached(t) \/ AllocBump(t) \/ FastBump(t)
  BY <1>1, <1>2, <1>3, Zenon DEF AllocCollect, CollectCount, AllocFull, AllocUncached,
    AllocBump, FastBump, BumpStore, Cached
<1>4. CASE \/ ArenaGet(t) \/ Lock(t) \/ ScanEnd(t) \/ ScanOwned(t)
           \/ ScanUnowned(t) \/ ScanFull(t) \/ SlowUsed(t) \/ NoMemory(t)
           \/ Unlock(t) \/ ScanRoom(t) \/ SlowBump(t)
  BY <1>1, <1>2, <1>4, Zenon DEF ArenaGet, Lock, ScanEnd, ScanOwned, ScanUnowned,
    ScanFull, SlowUsed, NoMemory, Unlock, ScanRoom, SlowBump, BumpStore, Return
<1>5. CASE \/ RemotePush(t) \/ RemoteCount(t) \/ LocalUsed(t) \/ RemoteUsed(t)
           \/ ThreadExit(t)
           \/ \E b \in live : FreeLocal(t, b) \/ FreeUnregistered(t, b)
  BY <1>1, <1>2, <1>5, Zenon DEF FreeLocal, FreeUnregistered, RemotePush, RemoteCount,
    LocalUsed, RemoteUsed, ThreadExit, Return
<1>6. CASE AllocPop(t)
  <2>1. ~zeroed[t] /\ UNCHANGED <<zeroed, dirty>>
    BY <1>6, <1>1 DEF AllocPop, RegistersOK, Holding
  <2>2. \A u \in Threads \ {t} : hand'[u] = hand[u]
    BY <1>6, <1>1, Zenon DEF AllocPop
  <2> QED BY <1>1, <2>1, <2>2 DEF ZeroedIsVirgin
<1>7. CASE FastRead(t) \/ SlowRead(t)
  <2>1. /\ hand' = [hand EXCEPT ![t] = <<pg[t], bump[pg[t]]>>]
        /\ <<pg[t], bump[pg[t]]>> \notin dirty
    BY <1>7, ReadIsFresh
  <2>2. dirty' = dirty /\ \A u \in Threads \ {t} : zeroed'[u] = zeroed[u]
    BY <1>7, <1>1, Zenon DEF FastRead, SlowRead, BumpRead
  <2> QED BY <1>1, <2>1, <2>2 DEF ZeroedIsVirgin
<1>8. CASE FastUsed(t) \/ Claim(t) \/ ClaimFails(t)
  <2>1. /\ hand'[t] = NULL /\ dirty' \subseteq dirty \cup {hand[t]}
        /\ \A u \in Threads \ {t} : hand'[u] = hand[u] /\ zeroed'[u] = zeroed[u]
    BY <1>8, <1>1 DEF FastUsed, Claim, ClaimFails, Deliver, Return
  <2> QED BY <2>1 DEF ZeroedIsVirgin, NoDoubleAlloc
<1>9. ASSUME NEW p \in Page, PageTaken(t, p) PROVE ZeroedIsVirgin'
  <2>1. /\ pstate[p] = "UNUSED" /\ hand' = [hand EXCEPT ![t] = <<p, 0>>]
        /\ zeroed' = [zeroed EXCEPT ![t] = TRUE] /\ dirty' = dirty
    BY <1>9 DEF PageTaken, TakePage
  <2>2. <<p, 0>> \notin dirty
    BY <2>1, BlockFacts, SlotFacts DEF PagesOK, BumpOK
  <2> QED BY <1>1, <2>1, <2>2 DEF ZeroedIsVirgin
<1>10. ASSUME NEW b \in live, FreeRemote(t, b) PROVE ZeroedIsVirgin'
  BY <1>10, <1>1 DEF FreeRemote, ZeroedIsVirgin, RegistersOK, Holding
<1>11. CASE \/ \E p \in Page : NewPage(t, p)
            \/ \E s \in Segments : NewSegment(t, s)
  BY <1>9, <1>11, PageTakenFacts
<1> QED BY <1>3, <1>4, <1>5, <1>6, <1>7, <1>8, <1>10, <1>11 DEF Call, Step

-----------------------------------------------------------------------------
(* The free lists and the theorems.                                        *)

\* Every step keeps the free lists sound.
LEMMA FreeListsSoundStep ==
    ASSUME TypeOK, RegistersOK, LocksOK, ArenasOK, PagesOK, CachesOK,
           OwnerCheckHolds, BumpOK, NoDoubleAlloc, FreeListsSound, NEW t \in
           Threads, Call(t) \/ Step(t)
    PROVE  FreeListsSound'
<1>1. /\ bump \in [Page -> Nat] /\ localFree \in [Page -> Seq(Slot)]
      /\ remoteFree \in [Page -> Seq(Slot)]
      /\ binPage \in [Threads -> Page \cup {NULL}]
      /\ hand \in [Threads -> Address \cup {NULL}] /\ live \in SUBSET Block
  BY DEF TypeOK, PageTypes, TldTypes, CallTypes, ProgTypes
<1>2. CASE /\ UNCHANGED <<localFree, remoteFree, bump>> /\ live' \subseteq live
           /\ hand'[t] \in {hand[t], NULL} /\ \A u \in Threads \ {t} : hand'[u] = hand[u]
  BY <1>2, NullFacts, <1>1, RangeFacts, Zenon DEF FreeListsSound
<1>3. CASE CollectCount(t) \/ AllocFull(t) \/ AllocUncached(t) \/ AllocBump(t)
  BY <1>1, <1>2, <1>3 DEF CollectCount, AllocFull, AllocUncached, AllocBump, Cached
<1>4. CASE \/ ArenaGet(t) \/ Lock(t) \/ ScanEnd(t) \/ ScanOwned(t)
           \/ ScanUnowned(t) \/ ScanFull(t) \/ SlowUsed(t) \/ NoMemory(t)
           \/ Unlock(t) \/ ScanRoom(t)
  BY <1>1, <1>2, <1>4 DEF ArenaGet, Lock, ScanEnd, ScanOwned, ScanUnowned,
    ScanRoom, ScanFull, SlowUsed, NoMemory, Unlock, Return
<1>5. CASE \/ RemoteCount(t) \/ LocalUsed(t) \/ RemoteUsed(t) \/ ThreadExit(t)
           \/ \E b \in live : FreeUnregistered(t, b)
  BY <1>1, <1>2, <1>5 DEF FreeUnregistered, RemoteCount, LocalUsed, RemoteUsed,
    ThreadExit, Return
<1>6. CASE AllocPop(t)
  <2>1. /\ binPage[t] \in Page /\ localFree[binPage[t]] \in Seq(Slot)
        /\ localFree[binPage[t]] # <<>> /\ IsInjective(localFree[binPage[t]])
    BY <1>6, <1>1 DEF AllocPop, Cached, FreeListsSound
  <2>2. /\ Head(localFree[binPage[t]]) \in Range(localFree[binPage[t]])
        /\ IsInjective(Tail(localFree[binPage[t]]))
        /\ Range(Tail(localFree[binPage[t]]))
              = Range(localFree[binPage[t]]) \ {Head(localFree[binPage[t]])}
    BY <2>1, PopFacts
  <2>3. /\ hand' = [hand EXCEPT ![t] = <<binPage[t], Head(localFree[binPage[t]])>>]
        /\ localFree' = [localFree EXCEPT ![binPage[t]] = Tail(localFree[binPage[t]])]
        /\ UNCHANGED <<remoteFree, bump, live>>
    BY <1>6 DEF AllocPop
  <2> QED BY <1>1, <2>1, <2>2, <2>3, Zenon DEF FreeListsSound
<1>7. CASE FastRead(t) \/ SlowRead(t)
  <2>1. /\ pg[t] \in Page /\ bump[pg[t]] \in Nat
        /\ hand' = [hand EXCEPT ![t] = <<pg[t], bump[pg[t]]>>]
    BY <1>7, ReadIsFresh, SlotFacts, Zenon
  <2>2. UNCHANGED <<localFree, remoteFree, bump, live>>
    BY <1>7, Zenon DEF FastRead, SlowRead, BumpRead
  <2>3. \A q \in Page : \A s \in Range(localFree[q]) \cup Range(remoteFree[q]) :
             <<q, s>> # <<pg[t], bump[pg[t]]>>
    <3> SUFFICES ASSUME NEW q \in Page, q = pg[t],
                        NEW s \in Range(localFree[q]) \cup Range(remoteFree[q])
                 PROVE  s # bump[q]
      OBVIOUS
    <3>1. s \in Nat /\ s < bump[q] /\ bump[q] \in Nat
      BY <1>1, <2>1, RangeFacts, SlotFacts, Zenon DEF FreeListsSound
    <3> QED BY <3>1
  <2> QED BY <1>1, <2>1, <2>2, <2>3, Zenon DEF FreeListsSound
<1>8. CASE AllocCollect(t)
  <2>1. /\ binPage[t] \in Page /\ localFree[binPage[t]] = <<>>
        /\ remoteFree[binPage[t]] \in Seq(Slot)
        /\ localFree' = [localFree EXCEPT
                            ![binPage[t]] = remoteFree[binPage[t]] \o localFree[binPage[t]]]
        /\ remoteFree' = [remoteFree EXCEPT ![binPage[t]] = <<>>]
        /\ UNCHANGED <<bump, live, hand>>
    BY <1>8, <1>1 DEF AllocCollect, Cached
  <2>2. remoteFree[binPage[t]] \o localFree[binPage[t]] =
          remoteFree[binPage[t]]
    BY <2>1
  <2>3. localFree' = [localFree EXCEPT ![binPage[t]] =
          remoteFree[binPage[t]]]
    BY <2>1, <2>2
  <2> QED BY <1>1, EmptyFacts, <2>1, <2>2, <2>3 DEF FreeListsSound
<1>9. CASE FastBump(t) \/ SlowBump(t)
  <2>1. /\ pg[t] \in Page /\ bump[pg[t]] \in Nat
        /\ bump' = [bump EXCEPT ![pg[t]] = bump[pg[t]] + 1]
        /\ UNCHANGED <<localFree, remoteFree, live, hand>>
    BY <1>9, StorePasses
  <2>2. \A p \in Page : \A s \in Range(localFree[p]) \cup Range(remoteFree[p]) :
             s < bump'[p]
    <3> SUFFICES ASSUME NEW p \in Page,
                        NEW s \in Range(localFree[p]) \cup Range(remoteFree[p])
                 PROVE  s < bump'[p]
      OBVIOUS
    <3>1. s \in Nat /\ s < bump[p]
      BY <1>1, RangeFacts, SlotFacts, Zenon DEF FreeListsSound
    <3> QED BY <1>1, <2>1, <3>1
  <2> QED BY <1>1, <2>1, <2>2 DEF FreeListsSound
<1>10. CASE FastUsed(t) \/ Claim(t) \/ ClaimFails(t)
  <2>1. /\ hand' = [hand EXCEPT ![t] = NULL] /\ live' \subseteq live \cup {hand[t]}
        /\ UNCHANGED <<localFree, remoteFree, bump>>
    BY <1>10 DEF FastUsed, Claim, ClaimFails, Deliver, Return
  <2> QED BY <1>1, RangeFacts, NullFacts, <2>1, Zenon DEF FreeListsSound
<1>11. ASSUME NEW p \in Page, PageTaken(t, p) PROVE FreeListsSound'
  <2>1. /\ localFree' = [localFree EXCEPT ![p] = <<>>]
        /\ remoteFree' = [remoteFree EXCEPT ![p] = <<>>]
        /\ bump' = [bump EXCEPT ![p] = 1]
        /\ hand' = [hand EXCEPT ![t] = <<p, 0>>] /\ live' = live
    BY <1>11 DEF PageTaken, TakePage
  <2> QED BY <1>1, EmptyFacts, <2>1, Zenon DEF FreeListsSound
<1>12. ASSUME NEW b \in live, FreeLocal(t, b) PROVE FreeListsSound'
  <2>1. /\ PageOf(b) \in Page /\ SlotOf(b) \in Slot /\ b = <<PageOf(b), SlotOf(b)>>
        /\ localFree[PageOf(b)] \in Seq(Slot)
        /\ SlotOf(b) < bump[PageOf(b)] /\ \A u \in Threads : hand[u] # b
    BY <1>1, BlockFacts, AddressFacts, SentinelAssumption DEF BumpOK, NoDoubleAlloc
  <2>2. SlotOf(b) \notin Range(localFree[PageOf(b)]) \cup
          Range(remoteFree[PageOf(b)])
    BY <2>1 DEF FreeListsSound
  <2>3. /\ Range(<<SlotOf(b)>> \o localFree[PageOf(b)])
              = Range(localFree[PageOf(b)]) \cup {SlotOf(b)}
        /\ IsInjective(<<SlotOf(b)>> \o localFree[PageOf(b)])
    BY <2>1, <2>2, PushFacts DEF FreeListsSound
  <2>4. /\ localFree' = [localFree EXCEPT ![PageOf(b)] = <<SlotOf(b)>> \o localFree[PageOf(b)]]
        /\ live' = live \ {b} /\ UNCHANGED <<remoteFree, bump, hand>>
    BY <1>12 DEF FreeLocal
  <2> QED BY <1>1, <2>1, <2>2, <2>3, <2>4, Zenon DEF FreeListsSound
<1>13. ASSUME NEW b \in live, FreeRemote(t, b) PROVE FreeListsSound'
  <2>1. b = <<PageOf(b), SlotOf(b)>>
    BY <1>1, BlockFacts
  <2>2. /\ hand' = [hand EXCEPT ![t] = b] /\ live' = live \ {b}
        /\ UNCHANGED <<localFree, remoteFree, bump>>
    BY <1>13 DEF FreeRemote
  <2> QED BY <1>1, <2>1, <2>2, Zenon DEF FreeListsSound
<1>14. CASE RemotePush(t)
  <2>1. pc[t] = "push" /\ hand[t] \in Block /\ pg[t] = PageOf(hand[t])
    BY <1>14 DEF RemotePush, RegistersOK, Holding
  <2>2. /\ pg[t] \in Page /\ SlotOf(hand[t]) \in Slot /\ hand[t] = <<pg[t], SlotOf(hand[t])>>
        /\ hand[t] # NULL
    BY <2>1, BlockFacts, NullFacts
  <2>3. remoteFree[pg[t]] \in Seq(Slot) /\ SlotOf(hand[t]) < bump[pg[t]]
    BY <1>1, <2>1, <2>2, Zenon DEF BumpOK, Holding, Bumping
  <2>4. hand[t] \notin live /\ \A u \in Threads \ {t} : hand[u] # hand[t]
    BY <2>2 DEF NoDoubleAlloc
  <2>5. SlotOf(hand[t]) \notin Range(localFree[pg[t]]) \cup
          Range(remoteFree[pg[t]])
    BY <2>2, Zenon DEF FreeListsSound
  <2>6. /\ Range(<<SlotOf(hand[t])>> \o remoteFree[pg[t]])
              = Range(remoteFree[pg[t]]) \cup {SlotOf(hand[t])}
        /\ IsInjective(<<SlotOf(hand[t])>> \o remoteFree[pg[t]])
    BY <2>2, <2>3, <2>5, PushFacts DEF FreeListsSound
  <2>7. /\ remoteFree' = [remoteFree EXCEPT ![pg[t]] = <<SlotOf(hand[t])>> \o remoteFree[pg[t]]]
        /\ hand' = [hand EXCEPT ![t] = NULL] /\ UNCHANGED <<localFree, bump, live>>
    BY <1>14 DEF RemotePush
  <2>8. \A q \in Page : \A s \in Slot : <<q, s>> # NULL
    BY NullFacts
  <2>9. \A q \in Page : Range(localFree[q]) \subseteq Slot /\
          Range(remoteFree[q]) \subseteq Slot
    BY <1>1, RangeFacts
  <2>10. \A q \in Page :
              /\ IsInjective(localFree'[q]) /\ IsInjective(remoteFree'[q])
              /\ Range(localFree'[q]) \cap Range(remoteFree'[q]) = {}
    BY <1>1, <2>2, <2>5, <2>6, <2>7, Zenon DEF FreeListsSound
  <2>11. \A q \in Page : \A s \in Range(localFree'[q]) \cup Range(remoteFree'[q]) :
              s \in Slot /\ s < bump'[q] /\ <<q, s>> \notin live'
    BY <1>1, <2>2, <2>3, <2>4, <2>6, <2>7, <2>9, Zenon DEF FreeListsSound
  <2>12. \A q \in Page : \A s \in Range(localFree'[q]) \cup Range(remoteFree'[q]) :
              \A u \in Threads : hand'[u] # <<q, s>>
    BY <1>1, <2>2, <2>4, <2>6, <2>7, <2>8, <2>9, Zenon DEF FreeListsSound
  <2> QED BY <2>10, <2>11, <2>12 DEF FreeListsSound
<1>15. CASE \/ \E p \in Page : NewPage(t, p)
            \/ \E s \in Segments : NewSegment(t, s)
  BY <1>11, <1>15, PageTakenFacts
<1> QED BY <1>3, <1>4, <1>5, <1>6, <1>7, <1>8, <1>9, <1>10, <1>12, <1>13, <1>14,
  <1>15 DEF Call, Step

-----------------------------------------------------------------------------
(* The executions in which no claim overtakes the owner check.             *)

\* Nothing is handed out to begin with.
LEMMA ExclusiveInvInit == Init => ExclusiveInv
<1> SUFFICES ASSUME Init PROVE ExclusiveInv
  OBVIOUS
<1>1. OwnerCheckHolds
  BY DEF Init, OwnerCheckHolds
<1>2. BumpOK
  BY ConstantsAssumption DEF Init, BumpOK, Holding, Bumping
<1>3. NoDoubleAlloc /\ ZeroedIsVirgin
  BY DEF Init, NoDoubleAlloc, ZeroedIsVirgin
<1>4. FreeListsSound
  <2>1. localFree = [p \in Page |-> <<>>] /\ remoteFree = [p \in Page |-> <<>>]
    BY DEF Init
  <2> QED BY <2>1, EmptyFacts DEF FreeListsSound
<1> QED BY <1>1, <1>2, <1>3, <1>4 DEF ExclusiveInv

\* ExclusiveInv is inductive relative to StructInv when the owner check holds.
LEMMA ExclusiveInvStep ==
    StructInv /\ ExclusiveInv /\ [Next /\ OwnerCheckHolds']_vars => ExclusiveInv'
<1> SUFFICES ASSUME StructInv, ExclusiveInv, [Next /\ OwnerCheckHolds']_vars
             PROVE  ExclusiveInv'
  OBVIOUS
<1>1. CASE Next /\ OwnerCheckHolds'
  <2>1. PICK t \in Threads : Call(t) \/ Step(t)
    BY <1>1 DEF Next
  <2> QED BY <1>1, <2>1, BumpOKStep, NoDoubleAllocStep, FreeListsSoundStep,
             ZeroedIsVirginStep DEF StructInv, ExclusiveInv
<1>2. CASE UNCHANGED vars
  <2>1. UNCHANGED <<pageVars, arenaVars, statVars, tldVars, pc, pg, hand, pos, zeroed,
                    progVars>>
    BY <1>2 DEF vars
  <2>2. OwnerCheckHolds' /\ BumpOK'
    BY <2>1 DEF ExclusiveInv, OwnerCheckHolds, BumpOK
  <2>3. NoDoubleAlloc' /\ FreeListsSound' /\ ZeroedIsVirgin'
    BY <2>1 DEF ExclusiveInv, NoDoubleAlloc, FreeListsSound, ZeroedIsVirgin
  <2> QED BY <2>2, <2>3 DEF ExclusiveInv
<1> QED BY <1>1, <1>2

\* Both invariants hold throughout a serial execution.
LEMMA SerialInv == SerialSpec => [](StructInv /\ ExclusiveInv)
<1>1. Init => StructInv /\ ExclusiveInv
  BY StructInvInit, ExclusiveInvInit
<1>2. StructInv /\ ExclusiveInv /\ [Next /\ OwnerCheckHolds']_vars
        => StructInv' /\ ExclusiveInv'
  BY StructInvStep, ExclusiveInvStep
<1> QED BY <1>1, <1>2, PTL DEF SerialSpec

\* When no claim overtakes the owner check of arena_alloc, no slot is ever handed
\* out to two callers, by any interleaving of fast paths, slow paths, local and
\* remote frees and collections.
THEOREM SerialNoDoubleAlloc == SerialSpec => []NoDoubleAlloc
<1>1. StructInv /\ ExclusiveInv => NoDoubleAlloc
  BY DEF ExclusiveInv
<1> QED BY SerialInv, <1>1, PTL

\* ... what a call has read of a bump pointer is still its value when it stores the next
\* one, and no block lies at or behind it, ...
THEOREM SerialBump == SerialSpec => []BumpOK
<1>1. StructInv /\ ExclusiveInv => BumpOK
  BY DEF ExclusiveInv
<1> QED BY SerialInv, <1>1, PTL

\* ... the free lists of every page stay duplicate-free, disjoint from each other
\* and from the blocks in use, and behind the bump pointer ...
THEOREM SerialFreeLists == SerialSpec => []FreeListsSound
<1>1. StructInv /\ ExclusiveInv => FreeListsSound
  BY DEF ExclusiveInv
<1> QED BY SerialInv, <1>1, PTL

\* ... and a slot reported zeroed to my_calloc has never been in the program's
\* hands.
THEOREM SerialZeroed == SerialSpec => []ZeroedIsVirgin
<1>1. StructInv /\ ExclusiveInv => ZeroedIsVirgin
  BY DEF ExclusiveInv
<1> QED BY SerialInv, <1>1, PTL

-----------------------------------------------------------------------------
(* The allocator implements malloc and free.                               *)

\* A step of the allocator is a step of one call of malloc or free, or is none of
\* the program's business.
LEMMA HeapStep ==
    ASSUME TypeOK, RegistersOK, LocksOK, ArenasOK, PagesOK, CachesOK,
           OwnerCheckHolds, BumpOK, NoDoubleAlloc, FreeListsSound,
           NEW t \in Threads, Call(t) \/ Step(t)
    PROVE  heap!Next \/ UNCHANGED <<live, hand>>
<1>1. /\ hand \in [Threads -> Address \cup {NULL}] /\ live \in SUBSET Block
      /\ pc[t] \notin Holding => hand[t] = NULL
  BY DEF TypeOK, CallTypes, ProgTypes, RegistersOK
<1>2. ASSUME hand[t] = NULL,
             \E b \in Block : /\ b \notin live /\ \A u \in Threads : hand[u] # b
                              /\ hand' = [hand EXCEPT ![t] = b]
                              /\ live' = live
      PROVE  heap!Next
  BY <1>2, Zenon DEF heap!Next, heap!Choose
<1>3. CASE AllocPop(t)
  <2>1. hand[t] = NULL
    BY <1>1, <1>3 DEF AllocPop, Holding
  <2> QED BY <1>2, <1>3, <2>1, PopIsFresh
<1>4. CASE FastRead(t) \/ SlowRead(t)
  <2>1. hand[t] = NULL /\ live' = live
    BY <1>1, <1>4 DEF FastRead, SlowRead, BumpRead, Holding
  <2>2. hand[t] # <<pg[t], bump[pg[t]]>>
    BY <1>4, <2>1, ReadIsFresh, NullFacts
  <2> QED BY <1>2, <1>4, <2>1, <2>2, ReadIsFresh, BlockFacts, Zenon
<1>5. CASE \/ \E p \in Page : NewPage(t, p)
           \/ \E s \in Segments : NewSegment(t, s)
  <2>1. PICK p \in Page : PageTaken(t, p)
    BY <1>5, PageTakenFacts
  <2>2. hand[t] = NULL
    BY <1>1, <2>1 DEF PageTaken, Holding
  <2> QED BY <1>2, <2>1, <2>2, FirstIsFresh
<1>6. CASE FastUsed(t) \/ Claim(t) \/ ClaimFails(t)
  <2>1. pc[t] \in Holding /\ Deliver(t) /\ hand' = [hand EXCEPT ![t] = NULL]
    BY <1>6 DEF FastUsed, Claim, ClaimFails, Return, Holding
  <2>2. hand[t] \in Block /\ hand[t] # NULL
    BY <2>1, SentinelAssumption DEF RegistersOK, NoDoubleAlloc
  <2>3. heap!Malloc(t)
    BY <2>1, <2>2 DEF Deliver, heap!Malloc
  <2> QED BY <2>3 DEF heap!Next
<1>7. ASSUME NEW b \in live, FreeLocal(t, b) \/ FreeRemote(t, b) \/ FreeUnregistered(t, b)
      PROVE  heap!Next
  <2>1. b \in Block /\ hand[t] = NULL
    BY <1>1, <1>7 DEF FreeLocal, FreeRemote, FreeUnregistered, Holding
  <2>2. heap!Free(t, b)
    BY <1>7, <2>1 DEF FreeLocal, FreeRemote, FreeUnregistered, heap!Free
  <2> QED BY <2>1, <2>2 DEF heap!Next
<1>8. CASE RemotePush(t)
  <2>1. hand[t] # NULL
    BY <1>8, AddressFacts, SentinelAssumption DEF RemotePush, RegistersOK
  <2>2. heap!Recycle(t)
    BY <1>8, <2>1 DEF RemotePush, heap!Recycle
  <2> QED BY <2>2 DEF heap!Next
<1>9. CASE NoMemory(t) \/ LocalUsed(t) \/ RemoteUsed(t)
  <2>1. hand' = [hand EXCEPT ![t] = NULL] /\ hand[t] = NULL /\ live' = live
    BY <1>1, <1>9 DEF NoMemory, LocalUsed, RemoteUsed, Return, Holding
  <2> QED BY <1>1, <2>1
<1>10. CASE \/ AllocBump(t) \/ AllocCollect(t) \/ CollectCount(t) \/ AllocFull(t)
            \/ AllocUncached(t) \/ FastBump(t) \/ SlowBump(t)
  BY <1>10, Zenon DEF AllocBump, AllocCollect, CollectCount, AllocFull, AllocUncached,
    FastBump, SlowBump, BumpStore
<1>11. CASE \/ ArenaGet(t) \/ Lock(t) \/ ScanEnd(t) \/ ScanOwned(t) \/ ScanUnowned(t)
            \/ ScanRoom(t) \/ ScanFull(t) \/ SlowUsed(t) \/ Unlock(t)
            \/ RemoteCount(t) \/ ThreadExit(t)
  BY <1>11, Zenon DEF ArenaGet, Lock, ScanEnd, ScanOwned, ScanUnowned, ScanRoom,
    ScanFull, SlowUsed, Unlock, RemoteCount, ThreadExit
<1> QED BY <1>3, <1>4, <1>5, <1>6, <1>7, <1>8, <1>9, <1>10, <1>11 DEF Call, Step

\* When no claim overtakes the owner check, the allocator implements the contract
\* of malloc and free: a call of malloc settles on a block that neither the program
\* nor any other call has, returns that block, and no other step touches the blocks.
THEOREM SerialRefinesHeap == SerialSpec => HeapSpec
<1>1. Init => heap!Init
  BY DEF Init, heap!Init
<1>2. StructInv /\ ExclusiveInv /\ [Next /\ OwnerCheckHolds']_vars
        => [heap!Next]_<<live, hand>>
  <2> SUFFICES ASSUME StructInv, ExclusiveInv, [Next /\ OwnerCheckHolds']_vars
               PROVE  heap!Next \/ UNCHANGED <<live, hand>>
    OBVIOUS
  <2>1. CASE Next
    <3>1. PICK t \in Threads : Call(t) \/ Step(t)
      BY <2>1 DEF Next
    <3> QED BY <3>1, HeapStep DEF StructInv, ExclusiveInv
  <2>2. CASE UNCHANGED vars
    BY <2>2 DEF vars
  <2> QED BY <2>1, <2>2
<1> QED BY <1>1, <1>2, SerialInv, PTL DEF SerialSpec, HeapSpec, heap!Spec

-----------------------------------------------------------------------------
(* Executions in which no two running threads share an arena.              *)

\* A thread that has its arena to itself sees no claim between the owner check and
\* the store of the bump pointer: a claim is of a page of the claimer's own arena.
LEMMA OwnerCheckStep ==
    ASSUME TypeOK, LocksOK, ArenasOK, PagesOK, ExclusiveArenas,
           OwnerCheckHolds, NEW t \in Threads, Call(t) \/ Step(t)
    PROVE  OwnerCheckHolds'
<1>1. /\ owner \in [Page -> Threads \cup {NoOwner}] /\ pc \in [Threads -> Labels]
      /\ pg \in [Threads -> Page \cup {NULL}]
  BY DEF TypeOK, PageTypes, CallTypes
<1>2. CASE /\ owner' = owner
           /\ pc'[t] \in {"scan_bump", "slow_read", "slow_bump"} =>
                pc[t] \in {"scan_bump", "slow_read", "slow_bump"} /\ pg'[t] = pg[t]
           /\ \A u \in Threads \ {t} : pc'[u] = pc[u] /\ pg'[u] = pg[u]
  BY <1>2 DEF OwnerCheckHolds
<1>3. CASE \/ AllocPop(t) \/ AllocBump(t) \/ AllocCollect(t) \/ CollectCount(t)
           \/ AllocFull(t) \/ AllocUncached(t) \/ FastRead(t) \/ FastBump(t)
           \/ FastUsed(t)
  BY <1>1, <1>2, <1>3, Zenon DEF AllocPop, AllocBump, AllocCollect, CollectCount,
    AllocFull, AllocUncached, FastRead, FastBump, FastUsed, BumpRead, BumpStore,
    Cached, Deliver, Return
<1>4. CASE \/ ArenaGet(t) \/ Lock(t) \/ ScanEnd(t) \/ ScanOwned(t) \/ ScanRoom(t)
           \/ ScanFull(t) \/ SlowRead(t) \/ SlowBump(t) \/ SlowUsed(t)
           \/ NoMemory(t) \/ Unlock(t) \/ ClaimFails(t)
  BY <1>1, <1>2, <1>4, Zenon DEF ArenaGet, Lock, ScanEnd, ScanOwned, ScanRoom,
    ScanFull, SlowRead, SlowBump, SlowUsed, NoMemory, Unlock, ClaimFails, BumpRead,
    BumpStore, Deliver, Return
<1>5. CASE \/ RemotePush(t) \/ RemoteCount(t) \/ LocalUsed(t) \/ RemoteUsed(t)
           \/ ThreadExit(t)
           \/ \E b \in live : FreeLocal(t, b) \/ FreeRemote(t, b) \/ FreeUnregistered(t, b)
  BY <1>1, <1>2, <1>5, Zenon DEF FreeLocal, FreeRemote, FreeUnregistered, RemotePush,
    RemoteCount, LocalUsed, RemoteUsed, ThreadExit, Return
<1>6. CASE ScanUnowned(t)
  <2>1. /\ owner[bins[tldArena[t]][pos[t]]] = NoOwner /\ owner' = owner
        /\ pg' = [pg EXCEPT ![t] = bins[tldArena[t]][pos[t]]]
    BY <1>6, Zenon DEF ScanUnowned
  <2>2. \A u \in Threads \ {t} : pc'[u] = pc[u]
    BY <1>6, <1>1, Zenon DEF ScanUnowned
  <2> QED BY <1>1, <2>1, <2>2, Zenon DEF OwnerCheckHolds
<1>7. ASSUME NEW p \in Page, PageTaken(t, p) PROVE OwnerCheckHolds'
  <2>1. /\ owner' = [owner EXCEPT ![p] = NoOwner] /\ pc'[t] = "unlock"
        /\ \A u \in Threads \ {t} : pc'[u] = pc[u] /\ pg'[u] = pg[u]
    BY <1>7, <1>1 DEF PageTaken, TakePage
  <2> QED BY <1>1, <2>1 DEF OwnerCheckHolds
<1>8. CASE Claim(t)
  <2>1. /\ pc[t] = "claim" /\ owner' = [owner EXCEPT ![pg[t]] = t] /\ pc'[t] = "idle"
        /\ \A u \in Threads \ {t} : pc'[u] = pc[u] /\ pg'[u] = pg[u]
    BY <1>8, <1>1 DEF Claim, Return
  <2>2. ASSUME NEW u \in Threads \ {t}, pg[u] = pg[t],
               pc[u] \in {"scan_bump", "slow_read", "slow_bump"}
        PROVE  FALSE
    <3>1. tldArena[u] = tldArena[t] /\ tldArena[t] \in Arenas
      <4>1. pc[t] \in OnPage /\ pc[u] \in OnPage /\ pc[t] \in Locked \cup {"lock", "claim"}
        BY <2>1, <2>2 DEF OnPage
      <4>2. tldArena[t] \in Arenas
        BY <4>1 DEF LocksOK
      <4>3. /\ segArena[SegmentOf(pg[t])] = tldArena[t]
            /\ segArena[SegmentOf(pg[u])] = tldArena[u]
        BY <4>1, <2>2 DEF ArenasOK
      <4> QED BY <4>2, <4>3, <2>2
    <3> QED BY <3>1, <2>2, SentinelAssumption DEF ExclusiveArenas
  <2> QED BY <1>1, <2>1, <2>2 DEF OwnerCheckHolds
<1>9. CASE \/ \E p \in Page : NewPage(t, p)
           \/ \E s \in Segments : NewSegment(t, s)
  BY <1>7, <1>9, PageTakenFacts
<1> QED BY <1>3, <1>4, <1>5, <1>6, <1>8, <1>9 DEF Call, Step

\* When no two running threads share an arena, the owner check is never overtaken:
\* the lock-free claim of a page races only with threads of the same arena.
THEOREM ExclusiveIsSerial == Spec /\ []ExclusiveArenas => SerialSpec
<1>1. Init => OwnerCheckHolds
  BY DEF Init, OwnerCheckHolds
<1>2. StructInv /\ ExclusiveArenas /\ OwnerCheckHolds /\ [Next]_vars => OwnerCheckHolds'
  <2> SUFFICES ASSUME StructInv, ExclusiveArenas, OwnerCheckHolds, [Next]_vars
               PROVE  OwnerCheckHolds'
    OBVIOUS
  <2>1. CASE Next
    <3>1. PICK t \in Threads : Call(t) \/ Step(t)
      BY <2>1 DEF Next
    <3> QED BY <3>1, OwnerCheckStep DEF StructInv
  <2>2. CASE UNCHANGED vars
    BY <2>2 DEF vars, OwnerCheckHolds
  <2> QED BY <2>1, <2>2
<1>3. [Next]_vars /\ OwnerCheckHolds' => [Next /\ OwnerCheckHolds']_vars
  OBVIOUS
<1> QED BY <1>1, <1>2, <1>3, StructSafety, PTL DEF Spec, SerialSpec

-----------------------------------------------------------------------------
(* Whose pages a call works on.                                            *)

\* The other threads stay where they are.
OthersStay(t) == \A u \in Threads \ {t} : pc'[u] = pc[u] /\ pg'[u] = pg[u]

\* The pages that are counted for stay in use, and the one a thread collects stays its own.
LEMMA WorkOKStep ==
    ASSUME StructInv, WorkOK, NEW t \in Threads, Call(t) \/ Step(t)
    PROVE  WorkOK'
<1>1. CallTypes /\ CallTypes' /\ \A u \in Threads \ {t} : pc'[u] = pc[u] /\ pg'[u] = pg[u]
  BY CallStep, CallMovesFacts DEF StructInv, TypeOK
<1>2. /\ pc \in [Threads -> Labels] /\ pg \in [Threads -> Page \cup {NULL}]
      /\ pstate \in [Page -> {"UNUSED", "ACTIVE"}]
      /\ owner \in [Page -> Threads \cup {NoOwner}]
      /\ binPage \in [Threads -> Page \cup {NULL}]
  BY DEF StructInv, TypeOK, PageTypes, TldTypes, CallTypes
<1>3. \A u \in Threads : pc[u] \in Freed \cup {"collected"} => pg[u] \in Page
  BY DEF StructInv, RegistersOK, Freed
<1>4. CASE UNCHANGED <<pstate, owner>> /\ pc'[t] \notin Freed \cup {"collected"}
  BY <1>1, <1>4 DEF WorkOK
<1>5. CASE \/ AllocPop(t) \/ AllocBump(t) \/ AllocFull(t) \/ AllocUncached(t)
           \/ CollectCount(t) \/ FastRead(t) \/ FastBump(t) \/ FastUsed(t) \/ ArenaGet(t)
           \/ Lock(t) \/ ScanEnd(t) \/ ScanUnowned(t) \/ ScanRoom(t) \/ ScanFull(t)
  BY <1>2, <1>4, <1>5, Zenon DEF AllocPop, AllocBump, AllocFull, AllocUncached, CollectCount,
    FastRead, FastBump, FastUsed, ArenaGet, Lock, ScanEnd, ScanUnowned, ScanRoom,
    ScanFull, BumpRead, BumpStore, Return, Freed
<1>6. CASE \/ SlowRead(t) \/ SlowBump(t) \/ SlowUsed(t) \/ NoMemory(t) \/ Unlock(t)
           \/ ClaimFails(t) \/ LocalUsed(t) \/ RemoteUsed(t) \/ ThreadExit(t)
           \/ \E b \in live : FreeRemote(t, b)
  BY <1>2, <1>4, <1>6, Zenon DEF SlowRead, SlowBump, SlowUsed, NoMemory, Unlock, ClaimFails,
    LocalUsed, RemoteUsed, ThreadExit, FreeRemote, BumpRead, BumpStore, Return, Freed
<1>7. CASE ScanOwned(t) \/ \E b \in live : FreeUnregistered(t, b)
  <2>1. UNCHANGED <<pstate, owner, pc>> /\ pc[t] \in {"scan", "idle"}
    BY <1>7, Zenon DEF ScanOwned, FreeUnregistered
  <2> QED BY <1>4, <2>1, Zenon DEF Freed
<1>8. CASE /\ UNCHANGED <<pstate, owner>> /\ pstate[pg'[t]] = "ACTIVE"
           /\ pc'[t] = "collected" => owner[pg'[t]] = t
  BY <1>1, <1>8 DEF WorkOK
<1>9. CASE AllocCollect(t)
  <2>1. /\ binPage[t] # NULL /\ pstate[binPage[t]] = "ACTIVE" /\ pg'[t] = binPage[t]
        /\ UNCHANGED <<pstate, owner>>
    BY <1>2, <1>9, Zenon DEF AllocCollect, Cached
  <2> QED BY <1>8, <2>1 DEF StructInv, CachesOK
<1>10. ASSUME NEW b \in live, FreeLocal(t, b) PROVE WorkOK'
  <2>1. pg'[t] = PageOf(b) /\ pc'[t] = "local_used" /\ UNCHANGED <<pstate, owner>>
    BY <1>2, <1>10, Zenon DEF FreeLocal
  <2> QED BY <1>8, <2>1 DEF StructInv, PagesOK
<1>11. CASE RemotePush(t) \/ RemoteCount(t)
  <2>1. /\ pc[t] \in {"push", "remote_count"} /\ pc'[t] \in {"remote_count", "remote_used"}
        /\ UNCHANGED <<pstate, owner, pg>>
    BY <1>2, <1>11, Zenon DEF RemotePush, RemoteCount
  <2> QED BY <1>8, <2>1 DEF StructInv, PagesOK, WorkOK, Holding, Freed
<1>12. CASE Claim(t)
  <2>1. /\ owner' = [owner EXCEPT ![pg[t]] = t] /\ owner[pg[t]] \in {NoOwner, t}
        /\ pc[t] = "claim" /\ pc'[t] = "idle" /\ pstate' = pstate
    BY <1>2, <1>12, Zenon DEF Claim, Return
  <2> QED BY <1>1, <1>2, <1>3, <2>1, SentinelAssumption DEF WorkOK, Freed
<1>13. ASSUME NEW p \in Page, PageTaken(t, p) PROVE WorkOK'
  <2>1. /\ pstate[p] = "UNUSED" /\ pstate' = [pstate EXCEPT ![p] = "ACTIVE"]
        /\ owner' = [owner EXCEPT ![p] = NoOwner] /\ pc'[t] = "unlock"
    BY <1>2, <1>13, Zenon DEF PageTaken, TakePage
  <2> QED BY <1>1, <1>2, <1>3, <2>1 DEF WorkOK, Freed
<1>14. CASE \/ \E p \in Page : NewPage(t, p)
            \/ \E s \in Segments : NewSegment(t, s)
  BY <1>13, <1>14, PageTakenFacts DEF StructInv
<1> QED BY <1>5, <1>6, <1>7, <1>9, <1>10, <1>11, <1>12, <1>14, Zenon DEF Call, Step

\* A step of t touches the thread-local data of t alone, and neither gives a mapped
\* segment to another arena nor registers it late.
LEMMA SegmentsStay ==
    ASSUME TypeOK, NEW t \in Threads, Call(t) \/ Step(t)
    PROVE  /\ pc[t] # "exited"
           /\ \A u \in Threads \ {t} : tldArena'[u] = tldArena[u] /\ tldNet'[u] = tldNet[u]
           /\ \A s \in Segments : segArena[s] # NULL =>
                segArena'[s] = segArena[s] /\ (s \in registry' => s \in registry)
<1> DEFINE Tld == /\ tldArena' = tldArena \/ \E x : tldArena' = [tldArena EXCEPT ![t] = x]
                  /\ tldNet' = tldNet \/ \E x : tldNet' = [tldNet EXCEPT ![t] = x]
           Here == pc[t] # "exited"
<1>1. /\ tldArena \in [Threads -> Arenas \cup {NULL}] /\ tldNet \in [Threads -> Int]
      /\ segArena \in [Segments -> Arenas \cup {NULL}]
  BY DEF TypeOK, TldTypes, StatTypes, ArenaTypes
<1>2. CASE \/ AllocPop(t) \/ AllocBump(t) \/ AllocCollect(t) \/ AllocFull(t)
           \/ AllocUncached(t) \/ CollectCount(t) \/ FastRead(t) \/ FastBump(t)
           \/ ArenaGet(t) \/ Lock(t) \/ ScanEnd(t) \/ ScanOwned(t) \/ ScanUnowned(t)
  <2>1. Here /\ UNCHANGED <<segArena, registry>>
    BY <1>2, Zenon DEF AllocPop, AllocBump, AllocCollect, AllocFull, AllocUncached, CollectCount,
      FastRead, FastBump, ArenaGet, Lock, ScanEnd, ScanOwned, ScanUnowned, BumpRead, BumpStore
  <2>2. Tld
    BY <1>2, Zenon DEF AllocPop, AllocBump, AllocCollect, AllocFull, AllocUncached, CollectCount,
      FastRead, FastBump, ArenaGet, Lock, ScanEnd, ScanOwned, ScanUnowned, BumpRead, BumpStore
  <2> QED BY <1>1, <2>1, <2>2, Zenon
<1>3. CASE \/ ScanRoom(t) \/ ScanFull(t) \/ SlowRead(t) \/ SlowBump(t) \/ SlowUsed(t)
           \/ NoMemory(t) \/ Unlock(t) \/ Claim(t) \/ ClaimFails(t) \/ RemotePush(t)
           \/ RemoteCount(t) \/ RemoteUsed(t)
           \/ \E b \in live : FreeLocal(t, b) \/ FreeRemote(t, b) \/ FreeUnregistered(t, b)
  <2>1. Here /\ UNCHANGED <<segArena, registry, tldArena, tldNet>>
    BY <1>3, Zenon DEF ScanRoom, ScanFull, SlowRead, SlowBump, SlowUsed, NoMemory, Unlock,
      Claim, ClaimFails, RemotePush, RemoteCount, RemoteUsed, FreeLocal, FreeRemote,
      FreeUnregistered, BumpRead, BumpStore, Return
  <2> QED BY <2>1, Zenon
<1>4. CASE FastUsed(t) \/ LocalUsed(t) \/ ThreadExit(t)
  <2>1. Here /\ Tld /\ UNCHANGED <<segArena, registry>>
    BY <1>4, Zenon DEF FastUsed, LocalUsed, ThreadExit, StatOp
  <2> QED BY <1>1, <2>1, Zenon
<1>5. ASSUME NEW p \in Page, NewPage(t, p)
      PROVE  Here /\ UNCHANGED <<tldArena, tldNet, segArena, registry>>
  BY <1>5, Zenon DEF NewPage, TakePage
<1>6. ASSUME NEW s \in Segments, NewSegment(t, s)
      PROVE  /\ Here /\ UNCHANGED <<tldArena, tldNet>>
             /\ \A r \in Segments : segArena[r] # NULL =>
                segArena'[r] = segArena[r] /\ (r \in registry' => r \in registry)
  <2>1. /\ Here /\ UNCHANGED <<tldArena, tldNet>> /\ segArena[s] = NULL
        /\ segArena' = [segArena EXCEPT ![s] = tldArena[t]] /\ Register(s)
    BY <1>6, Zenon DEF NewSegment, TakePage
  <2>2. registry' = registry \/ registry' = registry \cup {s}
    BY <2>1, Zenon DEF Register
  <2> QED BY <1>1, <2>1, <2>2
<1> QED BY <1>2, <1>3, <1>4, <1>5, <1>6, Zenon DEF Call, Step

\* A page in use has an arena, and keeps it.
LEMMA ArenaStays ==
    ASSUME TypeOK, PagesOK, NEW t \in Threads, Call(t) \/ Step(t),
           NEW p \in Page, pstate[p] = "ACTIVE"
    PROVE  ArenaOf(p) \in Arenas /\ ArenaOf(p)' = ArenaOf(p)
<1>1. SegmentOf(p) \in Segments /\ segArena \in [Segments -> Arenas \cup {NULL}]
  BY PageFacts DEF TypeOK, ArenaTypes
<1>2. segArena[SegmentOf(p)] # NULL
  BY DEF PagesOK
<1> QED BY <1>1, <1>2, SegmentsStay DEF ArenaOf

\* The page of a call between the program and the lists is in use.
LEMMA BetweenPages ==
    ASSUME StructInv, WorkOK, NEW u \in Threads, pc[u] \in Between
    PROVE  pg[u] \in Page /\ pstate[pg[u]] = "ACTIVE"
<1>1. pc[u] \in Holding \/ pc[u] \in Freed
  BY Zenon DEF Between, Holding, Freed
<1>2. pg[u] \in Page
  BY <1>1, HeldPages DEF StructInv, RegistersOK, Freed
<1> QED BY <1>1, <1>2 DEF StructInv, PagesOK, WorkOK

\* A page that a thread owns is in use, so that a thread without an arena owns none.
LEMMA OwnedPages ==
    ASSUME TypeOK, PagesOK, NEW u \in Threads, NEW p \in Page, owner[p] = u
    PROVE  pstate[p] = "ACTIVE" /\ ArenaOf(p) # NULL
BY SentinelAssumption DEF TypeOK, PageTypes, PagesOK, ArenaOf

\* The pages of a thread stay pages of its arena.
LEMMA HomeOKStep ==
    ASSUME StructInv, WorkOK, HomeOK, NEW t \in Threads, Call(t) \/ Step(t)
    PROVE  HomeOK'
<1>1. OthersStay(t)
  BY CallStep, CallMovesFacts DEF StructInv, TypeOK, OthersStay
<1>2. /\ pc \in [Threads -> Labels] /\ pg \in [Threads -> Page \cup {NULL}]
      /\ owner \in [Page -> Threads \cup {NoOwner}] /\ tldNet \in [Threads -> Int]
      /\ tldArena \in [Threads -> Arenas \cup {NULL}]
  BY DEF StructInv, TypeOK, PageTypes, TldTypes, CallTypes, StatTypes
<1>3. /\ pc[t] # "exited"
      /\ \A u \in Threads \ {t} : tldArena'[u] = tldArena[u] /\ tldNet'[u] = tldNet[u]
  BY SegmentsStay DEF StructInv
<1>4. \A u \in Threads, p \in Page : owner[p] = u => ArenaOf(p)' = ArenaOf(p) /\ ArenaOf(p) # NULL
  BY OwnedPages, ArenaStays DEF StructInv
<1>5. ASSUME \A u \in Threads, p \in Page : owner'[p] = u => owner[p] = u,
             \A u \in Threads, p \in Page : owner[p] = u => owner'[p] = u,
             pc'[t] \in {"fast_used", "local_used"} => owner[pg'[t]] = t /\ pg'[t] \in Page,
             \/ pc'[t] = "exited"
             \/ tldArena'[t] = tldArena[t]
             \/ \A p \in Page : owner[p] # t,
             tldArena'[t] = NULL => tldNet'[t] = 0
      PROVE  HomeOK'
  <2>1. ASSUME NEW u \in Threads, pc'[u] \in {"fast_used", "local_used"}
        PROVE  owner'[pg'[u]] = u
    <3>1. pg'[u] \in Page /\ owner[pg'[u]] = u
      <4>1. u # t => pc[u] \in Holding \cup Freed /\ pg'[u] = pg[u] /\ owner[pg[u]] = u
        BY <1>1, <2>1 DEF OthersStay, HomeOK, Holding, Freed
      <4>2. u # t => pg[u] \in Page
        BY <4>1, HeldPages DEF StructInv, RegistersOK, Freed
      <4> QED BY <1>5, <2>1, <4>1, <4>2
    <3> QED BY <1>5, <3>1
  <2>2. ASSUME NEW u \in Threads, pc'[u] # "exited", NEW p \in Page, owner'[p] = u
        PROVE  ArenaOf(p)' = tldArena'[u]
    <3>1. owner[p] = u /\ ArenaOf(p)' = ArenaOf(p) /\ ArenaOf(p) # NULL
      BY <1>4, <1>5, <2>2
    <3>2. pc[u] # "exited" /\ tldArena'[u] = tldArena[u]
      BY <1>1, <1>3, <1>5, <2>2, <3>1 DEF OthersStay
    <3> QED BY <3>1, <3>2 DEF HomeOK
  <2>3. ASSUME NEW u \in Threads, tldArena'[u] = NULL PROVE tldNet'[u] = 0
    BY <1>3, <1>5, <2>3 DEF HomeOK
  <2> QED BY <2>1, <2>2, <2>3 DEF HomeOK
<1>6. CASE /\ UNCHANGED <<owner, tldArena, tldNet>>
           /\ pc'[t] \in {"fast_used", "local_used"} => owner[pg'[t]] = t /\ pg'[t] \in Page
  BY <1>5, <1>6 DEF HomeOK
<1>7. CASE \/ AllocBump(t) \/ AllocFull(t) \/ AllocUncached(t) \/ AllocCollect(t)
           \/ CollectCount(t) \/ FastRead(t) \/ Lock(t) \/ ScanEnd(t) \/ ScanUnowned(t)
           \/ ScanRoom(t) \/ ScanFull(t)
  BY <1>2, <1>6, <1>7, Zenon DEF AllocBump, AllocFull, AllocUncached, AllocCollect,
    CollectCount, FastRead, Lock, ScanEnd, ScanUnowned, ScanRoom, ScanFull, BumpRead
<1>8. CASE \/ SlowRead(t) \/ SlowBump(t) \/ SlowUsed(t) \/ NoMemory(t) \/ Unlock(t)
           \/ ClaimFails(t) \/ RemotePush(t) \/ RemoteCount(t) \/ RemoteUsed(t)
           \/ \E b \in live : FreeRemote(t, b)
  BY <1>2, <1>6, <1>8, Zenon DEF SlowRead, SlowBump, SlowUsed, NoMemory, Unlock, ClaimFails,
    RemotePush, RemoteCount, RemoteUsed, FreeRemote, BumpRead, BumpStore, Return
<1>9. CASE ScanOwned(t) \/ \E b \in live : FreeUnregistered(t, b)
  <2>1. UNCHANGED <<owner, tldArena, tldNet, pc>> /\ pc[t] \in {"scan", "idle"}
    BY <1>9, Zenon DEF ScanOwned, FreeUnregistered
  <2> QED BY <1>6, <2>1, Zenon
<1>10. CASE AllocPop(t)
  <2>1. /\ UNCHANGED <<owner, tldArena, tldNet>> /\ pg'[t] = binPage[t]
        /\ binPage[t] \in Page /\ binPage[t] # NULL
    BY <1>2, <1>10, Zenon DEF AllocPop, Cached, StructInv, TypeOK, TldTypes
  <2> QED BY <1>6, <2>1 DEF StructInv, CachesOK
<1>11. CASE FastBump(t)
  <2>1. UNCHANGED <<owner, tldArena, tldNet, pg>> /\ pc[t] = "fast_bump"
    BY <1>11, Zenon DEF FastBump, BumpStore
  <2>2. owner[pg[t]] = t /\ pg[t] \in Page
    BY <2>1, HeldPages DEF StructInv, CachesOK, Holding
  <2> QED BY <1>6, <2>1, <2>2
<1>12. ASSUME NEW b \in live, FreeLocal(t, b) PROVE HomeOK'
  <2>1. /\ UNCHANGED <<owner, tldArena, tldNet>> /\ pg'[t] = PageOf(b)
        /\ owner[PageOf(b)] = t
    BY <1>2, <1>12, Zenon DEF FreeLocal
  <2>2. PageOf(b) \in Page
    BY BlockFacts DEF StructInv, TypeOK, ProgTypes
  <2> QED BY <1>6, <2>1, <2>2
<1>13. CASE FastUsed(t) \/ LocalUsed(t)
  <2>1. /\ UNCHANGED <<owner, tldArena>> /\ pc'[t] = "idle"
        /\ pc[t] \in {"fast_used", "local_used"}
    BY <1>2, <1>13, Zenon DEF FastUsed, LocalUsed, Return
  <2>2. owner[pg[t]] = t /\ pg[t] \in Page
    BY <2>1, HeldPages DEF HomeOK, StructInv, RegistersOK, Holding
  <2>3. tldArena[t] # NULL
    BY <1>4, <2>1, <2>2 DEF HomeOK
  <2> QED BY <1>5, <2>1, <2>3
<1>14. CASE ArenaGet(t)
  <2>1. /\ owner' = owner /\ tldNet' = tldNet /\ pc'[t] = "lock"
        /\ tldArena' = [tldArena EXCEPT ![t] = IF @ = NULL THEN arenaNext % NumArenas ELSE @]
    BY <1>2, <1>14, Zenon DEF ArenaGet
  <2>2. arenaNext % NumArenas \in Arenas
    BY ArenaFacts DEF StructInv, TypeOK, ArenaTypes
  <2>3. tldArena'[t] # NULL
    BY <1>2, <2>1, <2>2, SentinelAssumption
  <2>4. CASE tldArena[t] # NULL
    BY <1>2, <1>5, <2>1, <2>3, <2>4
  <2>5. CASE tldArena[t] = NULL
    <3>1. \A p \in Page : owner[p] # t
      BY <1>3, <1>4, <2>5 DEF HomeOK
    <3> QED BY <1>5, <2>1, <2>3, <3>1
  <2> QED BY <2>4, <2>5
<1>15. CASE ThreadExit(t)
  <2>1. owner' = owner /\ tldNet'[t] = 0 /\ pc'[t] = "exited"
    BY <1>2, <1>15, Zenon DEF ThreadExit
  <2> QED BY <1>5, <2>1
<1>16. CASE Claim(t)
  <2>1. /\ owner' = [owner EXCEPT ![pg[t]] = t] /\ owner[pg[t]] \in {NoOwner, t}
        /\ pc[t] = "claim" /\ pc'[t] = "idle"
        /\ UNCHANGED <<tldArena, tldNet, segArena>>
    BY <1>2, <1>16, Zenon DEF Claim, Return
  <2>2. pg[t] \in Page /\ ArenaOf(pg[t]) = tldArena[t]
    BY <2>1, HeldPages DEF StructInv, ArenasOK, OnPage, ArenaOf
  <2>3. ASSUME NEW u \in Threads, pc'[u] \in {"fast_used", "local_used"}
        PROVE  owner'[pg'[u]] = u
    <3>1. u # t /\ owner[pg[u]] = u /\ pg'[u] = pg[u]
      BY <1>1, <2>1, <2>3 DEF OthersStay, HomeOK
    <3>2. pg[u] # pg[t]
      BY <2>1, <3>1, SentinelAssumption
    <3> QED BY <1>2, <2>1, <3>1, <3>2
  <2>4. ASSUME NEW u \in Threads, pc'[u] # "exited", NEW p \in Page, owner'[p] = u
        PROVE  ArenaOf(p)' = tldArena'[u]
    <3>1. pc[u] # "exited" /\ ((p = pg[t] /\ u = t) \/ owner[p] = u)
      BY <1>1, <1>2, <2>1, <2>2, <2>4 DEF OthersStay
    <3> QED BY <2>1, <2>2, <3>1 DEF HomeOK, ArenaOf
  <2> QED BY <2>1, <2>3, <2>4 DEF HomeOK
<1>17. ASSUME NEW q \in Page, PageTaken(t, q) PROVE HomeOK'
  <2>1. /\ owner' = [owner EXCEPT ![q] = NoOwner] /\ pstate[q] = "UNUSED"
        /\ pc'[t] = "unlock" /\ UNCHANGED <<tldArena, tldNet>>
    BY <1>2, <1>17, Zenon DEF PageTaken, TakePage
  <2>2. owner' = owner
    BY <1>2, <2>1 DEF StructInv, PagesOK
  <2> QED BY <1>6, <2>1, <2>2
<1>18. CASE \/ \E q \in Page : NewPage(t, q)
            \/ \E s \in Segments : NewSegment(t, s)
  BY <1>17, <1>18, PageTakenFacts DEF StructInv
<1> QED BY <1>7, <1>8, <1>9, <1>10, <1>11, <1>12, <1>13, <1>14, <1>15, <1>16, <1>18, Zenon
        DEF Call, Step

-----------------------------------------------------------------------------
(* Arenas, in turn.                                                        *)

\* The invariant behind the round robin of arena_get: arena_next counts the threads
\* that have been given an arena, and they were given different ones.
LEMMA ArenaTurnsStep ==
    ASSUME IsFiniteSet(Threads), Cardinality(Threads) <= NumArenas, TypeOK, ArenaTurns,
           NEW t \in Threads, Call(t) \/ Step(t)
    PROVE  ArenaTurns'
<1>1. /\ tldArena \in [Threads -> Arenas \cup {NULL}] /\ arenaNext \in Nat
      /\ pc \in [Threads -> Labels]
  BY DEF TypeOK, ArenaTypes, TldTypes, CallTypes
<1>2. /\ Served \subseteq Threads /\ IsFiniteSet(Served) /\ IsFiniteSet(Served')
      /\ Cardinality(Served) \in Nat /\ Cardinality(Served') \in Nat
  <2>1. Served \subseteq Threads /\ Served' \subseteq Threads
    BY DEF Served
  <2> QED BY <2>1, FS_Subset, FS_CardinalityType
<1>3. CASE /\ UNCHANGED <<tldArena, arenaNext>>
           /\ pc[t] # "exited" /\ pc'[t] # "exited"
           /\ \A u \in Threads \ {t} : pc'[u] = pc[u]
  <2>1. Served' = Served
    BY <1>3 DEF Served
  <2> QED BY <1>3, <2>1 DEF ArenaTurns, ExclusiveArenas
<1>4. CASE \/ AllocPop(t) \/ AllocBump(t) \/ AllocCollect(t) \/ CollectCount(t)
           \/ AllocFull(t) \/ AllocUncached(t) \/ FastRead(t) \/ FastBump(t)
           \/ FastUsed(t)
  BY <1>1, <1>3, <1>4, Zenon DEF AllocPop, AllocBump, AllocCollect, CollectCount,
    AllocFull, AllocUncached, FastRead, FastBump, FastUsed, BumpRead, BumpStore,
    Deliver, Return
<1>5. CASE \/ Lock(t) \/ ScanEnd(t) \/ ScanOwned(t) \/ ScanUnowned(t)
           \/ ScanRoom(t) \/ ScanFull(t) \/ SlowRead(t) \/ SlowBump(t)
           \/ SlowUsed(t) \/ NoMemory(t) \/ Unlock(t) \/ Claim(t) \/ ClaimFails(t)
  BY <1>1, <1>3, <1>5, Zenon DEF Lock, ScanEnd, ScanOwned, ScanUnowned, ScanRoom,
    ScanFull, SlowRead, SlowBump, SlowUsed, NoMemory, Unlock, Claim, ClaimFails,
    BumpRead, BumpStore, Deliver, Return
<1>6. CASE \/ RemotePush(t) \/ RemoteCount(t) \/ LocalUsed(t) \/ RemoteUsed(t)
           \/ \E b \in live : FreeLocal(t, b) \/ FreeRemote(t, b) \/ FreeUnregistered(t, b)
  BY <1>1, <1>3, <1>6, Zenon DEF FreeLocal, FreeRemote, FreeUnregistered,
    RemotePush, RemoteCount, LocalUsed, RemoteUsed, Return
<1>7. CASE (\E p \in Page : NewPage(t, p)) \/ (\E s \in Segments : NewSegment(t, s))
  BY <1>1, <1>3, <1>7, Zenon DEF NewPage, NewSegment, TakePage
<1>8. CASE ThreadExit(t)
  <2>1. /\ tldArena' = [tldArena EXCEPT ![t] = NULL] /\ arenaNext' = arenaNext
        /\ pc' = [pc EXCEPT ![t] = "exited"]
    BY <1>8 DEF ThreadExit
  <2>2. Served \subseteq Served'
    BY <1>1, <2>1 DEF Served
  <2>3. Cardinality(Served) <= Cardinality(Served')
    BY <1>2, <2>2, FS_Subset
  <2> QED BY <1>1, <1>2, <2>1, <2>3 DEF ArenaTurns, ExclusiveArenas
<1>9. CASE ArenaGet(t) /\ tldArena[t] # NULL
  <2>1. UNCHANGED <<tldArena, arenaNext>> /\ pc[t] = "arena_get" /\ pc' = [pc EXCEPT ![t] = "lock"]
    BY <1>1, <1>9 DEF ArenaGet
  <2> QED BY <1>1, <1>3, <2>1
<1>10. CASE ArenaGet(t) /\ tldArena[t] = NULL
  <2>1. /\ tldArena' = [tldArena EXCEPT ![t] = arenaNext % NumArenas]
        /\ arenaNext' = arenaNext + 1
        /\ pc[t] = "arena_get" /\ pc' = [pc EXCEPT ![t] = "lock"]
    BY <1>10, Zenon DEF ArenaGet
  <2>2. arenaNext % NumArenas # NULL
    BY <1>1, ArenaFacts, SentinelAssumption
  <2>3. Served' = Served \cup {t} /\ t \notin Served
    BY <1>1, <1>10, <2>1, <2>2 DEF Served
  <2>4. Cardinality(Served') = Cardinality(Served) + 1
    BY <1>2, <2>3, FS_AddElement
  <2>5. Cardinality(Served') <= Cardinality(Threads) /\ Cardinality(Threads) \in Nat
    BY <1>2, <2>3, FS_Subset, FS_CardinalityType
  <2>6. arenaNext < NumArenas
    BY <1>1, <1>2, <2>4, <2>5, ConstantsAssumption DEF ArenaTurns
  <2>7. arenaNext % NumArenas = arenaNext
    BY <1>1, <2>6, ConstantsAssumption
  <2>8. \A u \in Threads : tldArena[u] # NULL => tldArena[u] \in Int /\ tldArena[u] < arenaNext
    BY <1>1 DEF ArenaTurns, Arenas
  <2> QED BY <1>1, <1>2, <1>10, <2>1, <2>4, <2>7, <2>8, SentinelAssumption
          DEF ArenaTurns, ExclusiveArenas
<1> QED BY <1>4, <1>5, <1>6, <1>7, <1>8, <1>9, <1>10, Zenon DEF Call, Step

\* With at least as many arenas as threads, no two running threads share one.
THEOREM EnoughArenas ==
    ASSUME Cardinality(Threads) <= NumArenas
    PROVE  Spec => []ExclusiveArenas
<1>1. Init => ArenaTurns
  <2> SUFFICES ASSUME Init PROVE ArenaTurns
    OBVIOUS
  <2>1. Served = {}
    BY DEF Init, Served
  <2> QED BY <2>1, FS_EmptySet DEF Init, ArenaTurns, ExclusiveArenas
<1>2. StructInv /\ ArenaTurns /\ [Next]_vars => ArenaTurns'
  <2> SUFFICES ASSUME StructInv, ArenaTurns, [Next]_vars
               PROVE  ArenaTurns'
    OBVIOUS
  <2>1. CASE Next
    <3>1. PICK t \in Threads : Call(t) \/ Step(t)
      BY <2>1 DEF Next
    <3> QED BY <3>1, ArenaTurnsStep, WidthAssumption DEF StructInv
  <2>2. CASE UNCHANGED vars
    BY <2>2 DEF vars, ArenaTurns, Served, ExclusiveArenas
  <2> QED BY <2>1, <2>2
<1>3. ArenaTurns => ExclusiveArenas
  BY DEF ArenaTurns
<1> QED BY <1>1, <1>2, <1>3, StructSafety, PTL DEF Spec

\* With at least as many arenas as threads, every execution of the allocator, with
\* no hypothesis on the scheduling, implements malloc and free.
THEOREM EnoughArenasRefinesHeap ==
    ASSUME Cardinality(Threads) <= NumArenas
    PROVE  Spec => HeapSpec
<1>1. Spec => []ExclusiveArenas
  BY EnoughArenas
<1> QED BY <1>1, ExclusiveIsSerial, SerialRefinesHeap, PTL

\* ... and never hands out a slot twice.
THEOREM EnoughArenasNoDoubleAlloc ==
    ASSUME Cardinality(Threads) <= NumArenas
    PROVE  Spec => []NoDoubleAlloc
<1>1. Spec => []ExclusiveArenas
  BY EnoughArenas
<1> QED BY <1>1, ExclusiveIsSerial, SerialNoDoubleAlloc, PTL
=============================================================================
