--------------------------- MODULE SlabStructure ----------------------------
(***************************************************************************)
(* Proofs about Slab, first part: the facts about pages, slots and         *)
(* counters that the other parts use, and that StructInv holds in every    *)
(* execution, for any number of threads, arenas, segments, pages and       *)
(* slots.                                                                  *)
(***************************************************************************)
EXTENDS SlabInv, TLAPS

USE DEF pageVars, arenaVars, statVars, tldVars, progVars, Goto, PageInit

-----------------------------------------------------------------------------
(* Pages, slots and blocks.                                                *)

\* A block is its page and its slot (ptr_to_page and page_start invert each other).
LEMMA BlockFacts ==
    /\ \A p \in Page, s \in Slot :
         <<p, s>> \in Block /\ PageOf(<<p, s>>) = p /\ SlotOf(<<p, s>>) = s
    /\ \A b \in Block :
         PageOf(b) \in Page /\ SlotOf(b) \in Slot /\ b = <<PageOf(b), SlotOf(b)>>
BY DEF Block, PageOf, SlotOf

\* An address is its page and its offset; it is a block if the offset is a slot.
LEMMA AddressFacts ==
    /\ \A p \in Page, n \in Nat :
         <<p, n>> \in Address /\ PageOf(<<p, n>>) = p /\ SlotOf(<<p, n>>) = n
    /\ \A a \in Address : PageOf(a) \in Page /\ SlotOf(a) \in Nat
    /\ \A a \in Address : SlotOf(a) < Capacity => a \in Block
    /\ Block \subseteq Address
BY ConstantsAssumption DEF Address, Block, PageOf, SlotOf, Slot

\* A page belongs to a segment, and every segment has a first data page.
LEMMA PageFacts ==
    /\ \A p \in Page : SegmentOf(p) \in Segments
    /\ \A s \in Segments : <<s, 1>> \in Page /\ SegmentOf(<<s, 1>>) = s
BY ConstantsAssumption DEF Page, SegmentOf

\* The slots of a page are counted from 0 up to its capacity.
LEMMA SlotFacts ==
    /\ \A s : s \in Slot <=> s \in Nat /\ s < Capacity
    /\ Capacity \in Nat /\ 0 \in Slot
BY ConstantsAssumption DEF Slot

\* A block is not the null pointer.
LEMMA NullFacts == \A p \in Page, s \in Slot : <<p, s>> # NULL
BY BlockFacts, AddressFacts, SentinelAssumption

-----------------------------------------------------------------------------
(* Lists.                                                                  *)

\* What is in a bin list after a page is put at its head.
LEMMA ConcatFacts ==
    ASSUME NEW p \in Page, NEW l \in Seq(Page), NEW k, k = <<p>> \o l
    PROVE  \A i \in 1 .. Len(k) : k[i] = p \/ \E j \in 1 .. Len(l) : k[i] = l[j]
OBVIOUS

\* The elements of a free list are slots.
LEMMA RangeFacts ==
    \A s \in Seq(Slot) : Range(s) \subseteq Slot
BY DEF Range

-----------------------------------------------------------------------------
(* Counters.                                                               *)

\* Counters go up and down by one.
LEMMA OneFacts == 1 \in Int /\ -1 \in Int
OBVIOUS

\* Arithmetic on uint16_t.
LEMMA U16Facts ==
    /\ U16 \in Nat /\ U16 > 1
    /\ \A n \in Int : n % U16 \in 0 .. U16 - 1
<1>1. U16 \in Nat /\ U16 > 1
  BY DEF U16
<1> QED BY <1>1

\* Counting a uint16_t field of a page up or down.
LEMMA U16Except ==
    ASSUME NEW f \in [Page -> 0 .. U16 - 1], NEW p, NEW d \in Int
    PROVE  /\ [f EXCEPT ![p] = (@ + d) % U16] \in [Page -> 0 .. U16 - 1]
           /\ [f EXCEPT ![p] = (@ - d) % U16] \in [Page -> 0 .. U16 - 1]
<1>1. p \in Page => f[p] \in Int
  BY U16Facts
<1>2. p \in Page => f[p] + d \in Int /\ f[p] - d \in Int
  BY <1>1
<1>3. p \in Page => (f[p] + d) % U16 \in 0 .. U16 - 1 /\ (f[p] - d) % U16 \in 0 .. U16 - 1
  BY <1>2, U16Facts
<1> QED BY <1>3, Zenon

\* Counting a statistic up or down.
LEMMA NetExcept ==
    ASSUME NEW S, NEW f \in [S -> Int], NEW i, NEW d \in Int
    PROVE  /\ [f EXCEPT ![i] = @ + d] \in [S -> Int]
           /\ [f EXCEPT ![i] = @ - d] \in [S -> Int]
<1>1. i \in S => f[i] + d \in Int /\ f[i] - d \in Int
  OBVIOUS
<1> QED BY <1>1, Zenon

\* tld_stat_alloc and tld_stat_free keep the types of the counters.
LEMMA StatOpType ==
    ASSUME TypeOK, NEW t \in Threads, NEW d \in Int, StatOp(t, d)
    PROVE  /\ arenaNet' \in [Arenas -> Int]
           /\ tldNet' \in [Threads -> Int]
           /\ statOps' \in [Threads -> Nat]
<1> DEFINE flush == statOps[t] + 1 >= FlushInterval
<1>1. /\ arenaNet \in [Arenas -> Int]
      /\ tldNet \in [Threads -> Int]
      /\ statOps \in [Threads -> Nat]
  BY DEF TypeOK, StatTypes
<1>2. /\ tldNet' = [tldNet EXCEPT ![t] = IF flush THEN 0 ELSE @ + d]
      /\ statOps' = [statOps EXCEPT ![t] = IF flush THEN 0 ELSE @ + 1]
      /\ arenaNet' = [arenaNet EXCEPT
                      ![tldArena[t]] = IF flush THEN @ + tldNet[t] + d ELSE @]
  BY DEF StatOp
<1> HIDE DEF flush
<1>3. tldNet' \in [Threads -> Int] /\ statOps' \in [Threads -> Nat]
  BY <1>1, <1>2
<1>4. tldArena[t] \in Arenas => arenaNet[tldArena[t]] + tldNet[t] + d \in Int
  BY <1>1
<1>5. arenaNet' \in [Arenas -> Int]
  <2>1. CASE flush BY <2>1, <1>1, <1>2, <1>4, Zenon
  <2>2. CASE ~flush BY <2>2, <1>1, <1>2, Zenon
  <2> QED BY <2>1, <2>2
<1> QED BY <1>3, <1>5

\* Round robin stays within the arenas.
LEMMA ArenaFacts ==
    \A n \in Nat : n % NumArenas \in Arenas
BY ConstantsAssumption DEF Arenas

-----------------------------------------------------------------------------
(* The two ways arena_alloc takes a page, in one form.                     *)

PageTaken(t, p) ==
    /\ pc[t] = "new_page"
    /\ pstate[p] = "UNUSED"
    /\ TakePage(t, p)
    /\ registry' \in SUBSET Segments
    /\ segArena' \in [Segments -> Arenas \cup {NULL}]
    /\ segArena'[SegmentOf(p)] = tldArena[t]
    /\ \A s \in Segments : segArena[s] # NULL => segArena'[s] = segArena[s]

\* A page from a mapped segment, and the first page of a new one, are both unused
\* pages of a segment of the thread's arena; no segment changes hands.
LEMMA PageTakenFacts ==
    ASSUME TypeOK, LocksOK, PagesOK, NEW t \in Threads,
           \/ \E p \in Page : NewPage(t, p)
           \/ \E s \in Segments : NewSegment(t, s)
    PROVE  \E p \in Page : PageTaken(t, p)
<1>1. ASSUME NEW p \in Page, NewPage(t, p) PROVE PageTaken(t, p)
  <2>1. /\ pc[t] = "new_page" /\ TakePage(t, p)
        /\ pstate[p] = "UNUSED" /\ segArena[SegmentOf(p)] = tldArena[t]
        /\ segArena' = segArena /\ registry' = registry
    BY <1>1 DEF NewPage, UnusedPages
  <2> QED BY <2>1 DEF PageTaken, TypeOK, ArenaTypes
<1>2. ASSUME NEW s \in Segments, NewSegment(t, s) PROVE PageTaken(t, <<s, 1>>)
  <2>1. /\ pc[t] = "new_page" /\ TakePage(t, <<s, 1>>)
        /\ segArena[s] = NULL
        /\ segArena' = [segArena EXCEPT ![s] = tldArena[t]]
        /\ Register(s)
    BY <1>2 DEF NewSegment
  <2>2. <<s, 1>> \in Page /\ SegmentOf(<<s, 1>>) = s
    BY PageFacts
  <2>3. pstate[<<s, 1>>] = "UNUSED"
    BY <2>1, <2>2 DEF PagesOK
  <2>4. tldArena[t] \in Arenas
    BY <2>1 DEF LocksOK, Locked
  <2>5. segArena \in [Segments -> Arenas \cup {NULL}] /\ registry \in SUBSET Segments
    BY DEF TypeOK, ArenaTypes
  <2>6. registry' \in SUBSET Segments
    BY <2>1, <2>5 DEF Register
  <2>7. /\ segArena' \in [Segments -> Arenas \cup {NULL}]
        /\ segArena'[s] = tldArena[t]
        /\ \A r \in Segments : segArena[r] # NULL => segArena'[r] = segArena[r]
    BY <2>1, <2>4, <2>5
  <2> QED BY <2>1, <2>2, <2>3, <2>6, <2>7 DEF PageTaken
<1> QED BY <1>1, <1>2, PageFacts, Zenon

\* A call in the slow path, or with a slot in hand, works on a page.
LEMMA HeldPages ==
    ASSUME RegistersOK, NEW u \in Threads, pc[u] \in Holding \cup OnPage
    PROVE  pg[u] \in Page
<1>1. pc[u] \in Holding \/ pc[u] \in {"scan_bump", "slow_read"}
  BY Zenon DEF OnPage, Holding
<1> QED BY <1>1, AddressFacts DEF RegistersOK

-----------------------------------------------------------------------------
(* The types.                                                              *)

\* What a step leaves alone keeps its types.
LEMMA TypesKept ==
    /\ PageTypes /\ UNCHANGED pageVars => PageTypes'
    /\ ArenaTypes /\ UNCHANGED arenaVars => ArenaTypes'
    /\ StatTypes /\ UNCHANGED statVars => StatTypes'
    /\ TldTypes /\ UNCHANGED tldVars => TldTypes'
    /\ ProgTypes /\ UNCHANGED progVars => ProgTypes'
BY Zenon DEF PageTypes, ArenaTypes, StatTypes, TldTypes, ProgTypes

\* A step changes the program counter and the local variables of one thread.
CallMoves(t) ==
    /\ pc' = pc \/ \E l \in Labels : pc' = [pc EXCEPT ![t] = l]
    /\ pg' = pg \/ \E p \in Page \cup {NULL} : pg' = [pg EXCEPT ![t] = p]
    /\ hand' = hand \/ \E a \in Address \cup {NULL} : hand' = [hand EXCEPT ![t] = a]
    /\ pos' = pos \/ \E n \in Nat : pos' = [pos EXCEPT ![t] = n]
    /\ zeroed' = zeroed \/ \E z \in BOOLEAN : zeroed' = [zeroed EXCEPT ![t] = z]

\* That keeps their types, and the other threads where they are.
LEMMA CallMovesFacts ==
    ASSUME CallTypes, NEW t \in Threads, CallMoves(t)
    PROVE  /\ CallTypes'
           /\ \A u \in Threads \ {t} :
                /\ pc'[u] = pc[u] /\ pg'[u] = pg[u] /\ hand'[u] = hand[u]
                /\ pos'[u] = pos[u] /\ zeroed'[u] = zeroed[u]
<1>1. pc' \in [Threads -> Labels] /\ pg' \in [Threads -> Page \cup {NULL}]
  BY DEF CallTypes, CallMoves
<1>2. hand' \in [Threads -> Address \cup {NULL}] /\ pos' \in [Threads -> Nat]
  BY DEF CallTypes, CallMoves
<1>3. zeroed' \in [Threads -> BOOLEAN]
  BY Zenon DEF CallTypes, CallMoves
<1>4. \A u \in Threads \ {t} :
        /\ pc'[u] = pc[u] /\ pg'[u] = pg[u] /\ hand'[u] = hand[u]
        /\ pos'[u] = pos[u] /\ zeroed'[u] = zeroed[u]
  BY DEF CallTypes, CallMoves
<1> QED BY <1>1, <1>2, <1>3, <1>4 DEF CallTypes

\* Every step is such a step.
LEMMA CallStep ==
    ASSUME TypeOK, RegistersOK, LocksOK, PagesOK, NEW t \in Threads, Call(t) \/ Step(t)
    PROVE  CallMoves(t)
<1>0. 0 \in Nat /\ 1 \in Nat /\ \A n \in Nat : n + 1 \in Nat
  OBVIOUS
<1>1. CASE \/ FastUsed(t) \/ NoMemory(t) \/ Claim(t) \/ ClaimFails(t)
           \/ LocalUsed(t) \/ RemoteUsed(t)
  BY <1>0, <1>1, Zenon DEF FastUsed, NoMemory, Claim, ClaimFails, LocalUsed,
    RemoteUsed, Return, CallMoves, Labels
<1>2. CASE \/ CollectCount(t) \/ AllocFull(t) \/ AllocUncached(t) \/ FastBump(t)
           \/ SlowBump(t) \/ ArenaGet(t) \/ ScanEnd(t) \/ ScanRoom(t)
           \/ SlowUsed(t) \/ Unlock(t) \/ RemoteCount(t) \/ ThreadExit(t)
           \/ \E b \in live : FreeUnregistered(t, b)
  BY <1>2, Zenon DEF CollectCount, AllocFull, AllocUncached, FastBump, SlowBump,
    ArenaGet, ScanEnd, ScanRoom, SlowUsed, Unlock, RemoteCount, ThreadExit,
    FreeUnregistered, BumpStore, CallMoves, Labels
<1>3. CASE Lock(t) \/ ScanOwned(t) \/ ScanFull(t)
  <2>1. pos[t] + 1 \in Nat
    BY DEF TypeOK, CallTypes
  <2> QED BY <1>0, <1>3, <2>1, Zenon DEF Lock, ScanOwned, ScanFull, CallMoves, Labels
<1>4. CASE AllocPop(t)
  <2>1. /\ binPage[t] \in Page /\ localFree[binPage[t]] \in Seq(Slot)
        /\ localFree[binPage[t]] # <<>>
    BY <1>4 DEF AllocPop, Cached, TypeOK, PageTypes, TldTypes
  <2>2. <<binPage[t], Head(localFree[binPage[t]])>> \in Address
    BY <2>1, BlockFacts, AddressFacts
  <2> QED BY <1>4, <2>1, <2>2, Zenon DEF AllocPop, CallMoves, Labels
<1>5. CASE AllocBump(t) \/ AllocCollect(t)
  <2>1. binPage[t] \in Page
    BY <1>5 DEF AllocBump, AllocCollect, Cached, TypeOK, TldTypes
  <2> QED BY <1>5, <2>1, Zenon DEF AllocBump, AllocCollect, CallMoves, Labels
<1>6. CASE FastRead(t) \/ SlowRead(t)
  <2>1. pg[t] \in Page
    BY <1>6 DEF FastRead, SlowRead, RegistersOK
  <2>2. <<pg[t], bump[pg[t]]>> \in Address
    BY <2>1, AddressFacts DEF TypeOK, PageTypes
  <2> QED BY <1>6, <2>2, Zenon DEF FastRead, SlowRead, BumpRead, CallMoves, Labels
<1>7. CASE ScanUnowned(t)
  <2>1. /\ bins[tldArena[t]] \in Seq(Page) /\ pos[t] \in Nat /\ pos[t] >= 1
        /\ pos[t] <= Len(bins[tldArena[t]])
    BY <1>7 DEF ScanUnowned, RegistersOK, LocksOK, Locked, TypeOK, ArenaTypes, CallTypes
  <2>2. bins[tldArena[t]][pos[t]] \in Page
    BY <2>1
  <2> QED BY <1>7, <2>2, Zenon DEF ScanUnowned, CallMoves, Labels
<1>8. ASSUME NEW p \in Page, PageTaken(t, p) PROVE CallMoves(t)
  <2>1. <<p, 0>> \in Address
    BY AddressFacts
  <2> QED BY <1>8, <2>1, Zenon DEF PageTaken, TakePage, CallMoves, Labels
<1>9. ASSUME NEW b \in live, FreeLocal(t, b) \/ FreeRemote(t, b) PROVE CallMoves(t)
  <2>1. PageOf(b) \in Page /\ b \in Address
    BY BlockFacts, AddressFacts DEF TypeOK, ProgTypes
  <2> QED BY <1>9, <2>1, Zenon DEF FreeLocal, FreeRemote, CallMoves, Labels
<1>10. CASE RemotePush(t)
  BY <1>10, Zenon DEF RemotePush, CallMoves, Labels
<1>11. CASE \/ \E p \in Page : NewPage(t, p)
            \/ \E s \in Segments : NewSegment(t, s)
  BY <1>8, <1>11, PageTakenFacts
<1> QED BY <1>1, <1>2, <1>3, <1>4, <1>5, <1>6, <1>7, <1>9, <1>10, <1>11 DEF Call, Step

\* Every step keeps the types of the pages.
LEMMA PageTypesStep ==
    ASSUME TypeOK, RegistersOK, NEW t \in Threads,
           \/ AllocPop(t) \/ AllocCollect(t) \/ CollectCount(t) \/ FastBump(t)
           \/ SlowBump(t) \/ FastUsed(t) \/ SlowUsed(t) \/ LocalUsed(t)
           \/ RemoteUsed(t) \/ RemotePush(t) \/ RemoteCount(t) \/ Claim(t)
           \/ \E p \in Page : PageTaken(t, p)
           \/ \E b \in live : FreeLocal(t, b)
    PROVE  PageTypes'
<1>1. PageTypes
  BY DEF TypeOK
<1>2. /\ remoteCount \in [Page -> 0 .. U16 - 1] /\ used \in [Page -> 0 .. U16 - 1]
      /\ localFree \in [Page -> Seq(Slot)]
  BY <1>1 DEF PageTypes
<1>3. CASE AllocPop(t)
  <2>1. localFree' = [localFree EXCEPT ![binPage[t]] = Tail(localFree[binPage[t]])]
    BY <1>3, Zenon DEF AllocPop
  <2>2. localFree[binPage[t]] # <<>> /\ binPage[t] \in Page
    BY <1>3 DEF AllocPop, Cached, TypeOK, TldTypes
  <2>3. localFree' \in [Page -> Seq(Slot)]
    BY <1>2, <2>1, <2>2
  <2> QED BY <1>1, <1>3, <2>3, Zenon DEF AllocPop, PageTypes
<1>4. CASE AllocCollect(t)
  <2>1. localFree' \in [Page -> Seq(Slot)] /\ remoteFree' \in [Page -> Seq(Slot)]
    BY <1>1, <1>4 DEF AllocCollect, PageTypes, Cached, TypeOK, TldTypes
  <2> QED BY <1>1, <1>4, <2>1, Zenon DEF AllocCollect, PageTypes
<1>5. CASE CollectCount(t) \/ RemoteCount(t)
  <2>1. CollectCount(t) => Len(localFree[pg[t]]) \in Int
    BY <1>2 DEF CollectCount, RegistersOK
  <2>2. remoteCount' \in [Page -> 0 .. U16 - 1]
    <3>1. CASE CollectCount(t)
      BY <1>2, <2>1, <3>1, U16Except, Zenon DEF CollectCount
    <3>2. CASE RemoteCount(t)
      BY <1>2, <3>2, U16Except, OneFacts, Zenon DEF RemoteCount
    <3> QED BY <1>5, <3>1, <3>2
  <2> QED BY <1>1, <1>5, <2>2, Zenon DEF CollectCount, RemoteCount, PageTypes
<1>6. CASE FastBump(t) \/ SlowBump(t)
  <2>1. BumpStore(t) /\ pc[t] \in Bumping
    BY <1>6, Zenon DEF FastBump, SlowBump, Bumping
  <2>2. hand[t] \in Address /\ pg[t] \in Page
    BY <2>1, AddressFacts DEF RegistersOK, Holding, Bumping
  <2>3. SlotOf(hand[t]) \in Nat /\ bump \in [Page -> Nat]
    BY <1>1, <2>2, AddressFacts DEF PageTypes
  <2>4. bump' \in [Page -> Nat]
    BY <2>1, <2>2, <2>3 DEF BumpStore
  <2> QED BY <1>1, <2>1, <2>4, Zenon DEF BumpStore, PageTypes
<1>7. CASE FastUsed(t) \/ SlowUsed(t) \/ LocalUsed(t) \/ RemoteUsed(t)
  <2>1. used' \in [Page -> 0 .. U16 - 1]
    <3>1. \/ used' = [used EXCEPT ![pg[t]] = (@ + 1) % U16]
          \/ used' = [used EXCEPT ![pg[t]] = (@ - 1) % U16]
      BY <1>7, Zenon DEF FastUsed, SlowUsed, LocalUsed, RemoteUsed
    <3>2. /\ [used EXCEPT ![pg[t]] = (@ + 1) % U16] \in [Page -> 0 .. U16 - 1]
          /\ [used EXCEPT ![pg[t]] = (@ - 1) % U16] \in [Page -> 0 .. U16 - 1]
      BY <1>2, U16Except, OneFacts, Zenon
    <3> QED BY <3>1, <3>2
  <2> QED BY <1>1, <1>7, <2>1, Zenon DEF FastUsed, SlowUsed, LocalUsed, RemoteUsed,
        PageTypes
<1>8. ASSUME NEW p \in Page, PageTaken(t, p) PROVE PageTypes'
  <2>1. TakePage(t, p)
    BY <1>8 DEF PageTaken
  <2>2. 0 \in 0 .. U16 - 1 /\ 1 \in 0 .. U16 - 1 /\ 1 \in Nat /\ <<>> \in Seq(Slot)
    BY U16Facts
  <2> QED BY <1>1, <2>1, <2>2, Zenon DEF TakePage, PageTypes
<1>9. CASE Claim(t)
  BY <1>1, <1>9, Zenon DEF Claim, PageTypes
<1>10. ASSUME NEW b \in live, FreeLocal(t, b) PROVE PageTypes'
  <2>1. PageOf(b) \in Page /\ SlotOf(b) \in Slot
    BY BlockFacts DEF TypeOK, ProgTypes
  <2>2. localFree' \in [Page -> Seq(Slot)]
    BY <1>2, <1>10, <2>1 DEF FreeLocal
  <2> QED BY <1>1, <1>10, <2>2, Zenon DEF FreeLocal, PageTypes
<1>11. CASE RemotePush(t)
  <2>1. SlotOf(hand[t]) \in Slot /\ pg[t] \in Page
    BY <1>11, BlockFacts DEF RemotePush, RegistersOK, Holding
  <2>2. remoteFree' \in [Page -> Seq(Slot)]
    BY <1>1, <1>11, <2>1 DEF RemotePush, PageTypes
  <2> QED BY <1>1, <1>11, <2>2, Zenon DEF RemotePush, PageTypes
<1> QED BY <1>3, <1>4, <1>5, <1>6, <1>7, <1>8, <1>9, <1>10, <1>11

\* Every step keeps the types.
LEMMA TypeOKStep ==
    ASSUME TypeOK, RegistersOK, LocksOK, PagesOK, NEW t \in Threads,
           Call(t) \/ Step(t)
    PROVE  TypeOK'
<1>1. PageTypes /\ ArenaTypes /\ StatTypes /\ TldTypes /\ ProgTypes
  BY DEF TypeOK
<1>2. CallTypes'
  BY CallStep, CallMovesFacts DEF TypeOK
<1>3. CASE \/ AllocBump(t) \/ AllocUncached(t) \/ FastRead(t) \/ SlowRead(t)
           \/ ScanEnd(t) \/ ScanOwned(t) \/ ScanUnowned(t) \/ ScanRoom(t) \/ ScanFull(t)
  <2>1. UNCHANGED <<pageVars, arenaVars, statVars, tldVars, progVars>>
    BY <1>3, Zenon DEF AllocBump, AllocUncached, FastRead, SlowRead, BumpRead,
      ScanEnd, ScanOwned, ScanUnowned, ScanRoom, ScanFull
  <2> QED BY <1>1, <1>2, <2>1, TypesKept DEF TypeOK
<1>4. CASE \/ AllocPop(t) \/ AllocCollect(t) \/ CollectCount(t) \/ FastBump(t)
           \/ SlowBump(t) \/ RemotePush(t) \/ RemoteCount(t)
  <2>1. UNCHANGED <<arenaVars, statVars, tldVars, progVars>>
    BY <1>4, Zenon DEF AllocPop, AllocCollect, CollectCount, FastBump, SlowBump,
      BumpStore, RemotePush, RemoteCount
  <2> QED BY <1>1, <1>2, <1>4, <2>1, TypesKept, PageTypesStep DEF TypeOK
<1>5. CASE Lock(t) \/ NoMemory(t) \/ Unlock(t)
  <2>1. /\ UNCHANGED <<pageVars, statVars, tldVars, progVars>>
        /\ UNCHANGED <<bins, segArena, registry, arenaNext>>
        /\ \E x \in Threads \cup {NULL} : lock' = [lock EXCEPT ![tldArena[t]] = x]
    BY <1>5, Zenon DEF Lock, NoMemory, Unlock
  <2>2. ArenaTypes'
    BY <1>1, <2>1, Zenon DEF ArenaTypes
  <2> QED BY <1>1, <1>2, <2>1, <2>2, TypesKept DEF TypeOK
<1>6. CASE AllocFull(t)
  <2>1. UNCHANGED <<pageVars, arenaVars, statVars, progVars>> /\ TldTypes'
    BY <1>1, <1>6, Zenon DEF AllocFull, TldTypes
  <2> QED BY <1>1, <1>2, <2>1, TypesKept DEF TypeOK
<1>7. CASE ArenaGet(t)
  <2>1. arenaNext % NumArenas \in Arenas /\ arenaNext + 1 \in Nat
    BY <1>1, ArenaFacts DEF ArenaTypes
  <2>2. UNCHANGED <<pageVars, statVars, progVars>> /\ TldTypes' /\ ArenaTypes'
    BY <1>1, <1>7, <2>1, Zenon DEF ArenaGet, TldTypes, ArenaTypes
  <2> QED BY <1>1, <1>2, <2>2, TypesKept DEF TypeOK
<1>8. CASE FastUsed(t) \/ LocalUsed(t)
  <2>1. StatTypes'
    BY <1>8, StatOpType, OneFacts, Zenon DEF FastUsed, LocalUsed, StatTypes
  <2>2. UNCHANGED <<arenaVars, tldVars>> /\ (UNCHANGED progVars \/ Deliver(t))
    BY <1>8, Zenon DEF FastUsed, LocalUsed
  <2>3. ProgTypes'
    BY <1>1, <2>2 DEF ProgTypes, Deliver
  <2> QED BY <1>1, <1>2, <1>8, <2>1, <2>2, <2>3, TypesKept, PageTypesStep DEF TypeOK
<1>9. CASE SlowUsed(t) \/ RemoteUsed(t)
  <2>1. /\ \/ arenaNet' = [arenaNet EXCEPT ![tldArena[t]] = @ + 1]
           \/ arenaNet' = [arenaNet EXCEPT ![segArena[SegmentOf(pg[t])]] = @ - 1]
        /\ UNCHANGED <<arenaVars, tldVars, progVars, tldNet, statOps>>
    BY <1>9, Zenon DEF SlowUsed, RemoteUsed
  <2>2. arenaNet \in [Arenas -> Int]
    BY <1>1 DEF StatTypes
  <2>3. /\ [arenaNet EXCEPT ![tldArena[t]] = @ + 1] \in [Arenas -> Int]
        /\ [arenaNet EXCEPT ![segArena[SegmentOf(pg[t])]] = @ - 1] \in [Arenas -> Int]
    BY <2>2, NetExcept, OneFacts, Zenon
  <2>4. StatTypes'
    BY <1>1, <2>1, <2>3, Zenon DEF StatTypes
  <2> QED BY <1>1, <1>2, <1>9, <2>1, <2>4, TypesKept, PageTypesStep DEF TypeOK
<1>10. ASSUME NEW p \in Page, PageTaken(t, p) PROVE TypeOK'
  <2>1. /\ TakePage(t, p) /\ pc[t] = "new_page" /\ registry' \in SUBSET Segments
        /\ segArena' \in [Segments -> Arenas \cup {NULL}]
    BY <1>10 DEF PageTaken
  <2>2. StatTypes' /\ UNCHANGED <<tldVars, progVars, lock, arenaNext>>
    BY <1>1, <2>1, NetExcept, OneFacts, Zenon DEF TakePage, StatTypes
  <2>3. bins' \in [Arenas -> Seq(Page)]
    BY <1>1, <2>1 DEF TakePage, ArenaTypes, LocksOK, Locked
  <2>4. ArenaTypes'
    BY <1>1, <2>1, <2>2, <2>3, Zenon DEF ArenaTypes
  <2> QED BY <1>1, <1>2, <1>10, <2>2, <2>4, TypesKept, PageTypesStep DEF TypeOK
<1>11. CASE Claim(t) \/ ClaimFails(t)
  <2>1. UNCHANGED <<arenaVars, statVars>> /\ Deliver(t)
    BY <1>11, Zenon DEF Claim, ClaimFails
  <2>2. ProgTypes'
    BY <1>1, <2>1 DEF ProgTypes, Deliver
  <2>3. ClaimFails(t) => UNCHANGED <<pageVars, tldVars>>
    BY Zenon DEF ClaimFails
  <2>4. Claim(t) => TldTypes'
    <3>1. Claim(t) => pg[t] \in Page
      BY AddressFacts DEF Claim, RegistersOK, Holding
    <3> QED BY <1>1, <3>1, Zenon DEF Claim, TldTypes
  <2> QED BY <1>1, <1>2, <1>11, <2>1, <2>2, <2>3, <2>4, TypesKept, PageTypesStep
        DEF TypeOK
<1>12. ASSUME NEW b \in live, FreeLocal(t, b) \/ FreeRemote(t, b)
                              \/ FreeUnregistered(t, b)
       PROVE  TypeOK'
  <2>1. UNCHANGED <<arenaVars, statVars, tldVars>> /\ ProgTypes'
    BY <1>1, <1>12, Zenon DEF FreeLocal, FreeRemote, FreeUnregistered, ProgTypes
  <2>2. FreeLocal(t, b) \/ UNCHANGED pageVars
    BY <1>12, Zenon DEF FreeRemote, FreeUnregistered
  <2> QED BY <1>1, <1>2, <2>1, <2>2, TypesKept, PageTypesStep DEF TypeOK
<1>13. CASE ThreadExit(t)
  <2>1. tldNet[t] \in Int /\ 0 \in Int /\ 0 \in Nat
    BY <1>1 DEF StatTypes
  <2>2. StatTypes' /\ TldTypes' /\ UNCHANGED <<pageVars, arenaVars, progVars>>
    BY <1>1, <1>13, <2>1, NetExcept, Zenon DEF ThreadExit, StatTypes, TldTypes
  <2> QED BY <1>1, <1>2, <2>2, TypesKept DEF TypeOK
<1>14. CASE \/ \E p \in Page : NewPage(t, p)
            \/ \E s \in Segments : NewSegment(t, s)
  BY <1>10, <1>14, PageTakenFacts
<1> QED BY <1>3, <1>4, <1>5, <1>6, <1>7, <1>8, <1>9, <1>11, <1>12, <1>13, <1>14
      DEF Call, Step

-----------------------------------------------------------------------------
(* The other parts of StructInv.                                           *)

\* Every step keeps the slot in hand and the page worked on in agreement.
LEMMA RegistersOKStep ==
    ASSUME TypeOK, RegistersOK, LocksOK, PagesOK, NEW t \in Threads,
           Call(t) \/ Step(t)
    PROVE  RegistersOK'
<1> DEFINE Agree(l, p, h, i, z) ==
      /\ l \in Holding => h \in Address /\ p = PageOf(h)
      /\ l = "push" => h \in Block
      /\ l \notin Holding => h = NULL
      /\ l \in {"collected", "fast_read", "scan_bump", "slow_read",
                "remote_count", "remote_used", "local_used"} => p \in Page
      /\ l \in {"scan", "scan_bump"} => i >= 1
      /\ z => l \in Holding \ {"push"}
<1>1. \A u \in Threads : Agree(pc[u], pg[u], hand[u], pos[u], zeroed[u])
  BY DEF RegistersOK
<1>2. \A u \in Threads \ {t} :
        /\ pc'[u] = pc[u] /\ pg'[u] = pg[u] /\ hand'[u] = hand[u]
        /\ pos'[u] = pos[u] /\ zeroed'[u] = zeroed[u]
  BY CallStep, CallMovesFacts DEF TypeOK
<1> SUFFICES Agree(pc'[t], pg'[t], hand'[t], pos'[t], zeroed'[t])
  BY <1>1, <1>2, Zenon DEF RegistersOK
<1>3. /\ pc \in [Threads -> Labels] /\ pg \in [Threads -> Page \cup {NULL}]
      /\ hand \in [Threads -> Address \cup {NULL}] /\ pos \in [Threads -> Nat]
      /\ zeroed \in [Threads -> BOOLEAN]
  BY DEF TypeOK, CallTypes
<1>4. Agree(pc[t], pg[t], hand[t], pos[t], zeroed[t])
  BY <1>1
<1>5. CASE \/ FastUsed(t) \/ NoMemory(t) \/ Claim(t) \/ ClaimFails(t)
           \/ LocalUsed(t) \/ RemoteUsed(t)
  <2>1. Return(t)
    BY <1>5 DEF FastUsed, NoMemory, Claim, ClaimFails, LocalUsed, RemoteUsed
  <2> QED BY <1>3, <2>1, Zenon DEF Return, Holding
<1>6. CASE \/ CollectCount(t) \/ AllocFull(t) \/ AllocUncached(t) \/ ArenaGet(t)
           \/ ScanEnd(t) \/ ThreadExit(t) \/ \E b \in live : FreeUnregistered(t, b)
  <2>1. /\ pc[t] \in {"idle", "collected", "arena_get", "scan"}
        /\ pc'[t] \in {"idle", "pop", "arena_get", "lock", "new_page", "exited"}
        /\ hand' = hand /\ zeroed' = zeroed
    BY <1>3, <1>6, Zenon DEF CollectCount, AllocFull, AllocUncached, ArenaGet,
      ScanEnd, ThreadExit, FreeUnregistered
  <2> QED BY <1>4, <2>1, Zenon DEF Holding
<1>7. CASE FastBump(t) \/ SlowBump(t) \/ SlowUsed(t) \/ Unlock(t)
  <2>1. /\ pc[t] \in {"fast_bump", "slow_bump", "slow_used", "unlock"}
        /\ pc'[t] \in {"fast_used", "slow_used", "unlock", "claim"}
        /\ UNCHANGED <<pg, hand, zeroed>>
    BY <1>3, <1>7, Zenon DEF FastBump, SlowBump, BumpStore, SlowUsed, Unlock
  <2> QED BY <1>4, <2>1, Zenon DEF Holding
<1>8. CASE AllocPop(t)
  <2>1. /\ binPage[t] \in Page /\ localFree[binPage[t]] \in Seq(Slot)
        /\ localFree[binPage[t]] # <<>>
    BY <1>8 DEF AllocPop, Cached, TypeOK, PageTypes, TldTypes
  <2>2. <<binPage[t], Head(localFree[binPage[t]])>> \in Address
    BY <2>1, BlockFacts, AddressFacts
  <2>3. /\ hand'[t] = <<binPage[t], Head(localFree[binPage[t]])>>
        /\ pg'[t] = binPage[t] /\ pc'[t] = "fast_used"
    BY <1>3, <1>8, Zenon DEF AllocPop
  <2> QED BY AddressFacts, <2>1, <2>2, <2>3, Zenon DEF Holding, PageOf
<1>9. CASE AllocBump(t) \/ AllocCollect(t)
  <2>1. binPage[t] \in Page
    BY <1>9 DEF AllocBump, AllocCollect, Cached, TypeOK, TldTypes
  <2>2. /\ pc[t] = "idle" /\ pc'[t] \in {"fast_read", "collected"}
        /\ pg'[t] = binPage[t] /\ UNCHANGED <<hand, zeroed>>
    BY <1>3, <1>9, Zenon DEF AllocBump, AllocCollect
  <2> QED BY <1>4, <2>1, <2>2, Zenon DEF Holding
<1>10. CASE FastRead(t) \/ SlowRead(t)
  <2>1. pg[t] \in Page
    BY <1>4, <1>10 DEF FastRead, SlowRead
  <2>2. <<pg[t], bump[pg[t]]>> \in Address /\ PageOf(<<pg[t], bump[pg[t]]>>) = pg[t]
    BY <2>1, AddressFacts DEF TypeOK, PageTypes
  <2>3. /\ hand'[t] = <<pg[t], bump[pg[t]]>> /\ pg'[t] = pg[t]
        /\ pc'[t] \in {"fast_bump", "slow_bump"}
    BY <1>3, <1>10, Zenon DEF FastRead, SlowRead, BumpRead
  <2> QED BY <2>2, <2>3, Zenon DEF Holding
<1>11. CASE \/ Lock(t) \/ ScanOwned(t) \/ ScanFull(t)
  <2>1. /\ pc[t] \in {"lock", "scan", "scan_bump"} /\ pc'[t] = "scan"
        /\ pos'[t] >= 1
        /\ UNCHANGED <<hand, zeroed>>
    BY <1>3, <1>4, <1>11 DEF Lock, ScanOwned, ScanFull
  <2> QED BY <1>4, <2>1, Zenon DEF Holding
<1>12. CASE ScanUnowned(t)
  <2>1. /\ bins[tldArena[t]] \in Seq(Page) /\ pos[t] \in Nat /\ pos[t] >= 1
        /\ pos[t] <= Len(bins[tldArena[t]])
    BY <1>4, <1>12 DEF ScanUnowned, LocksOK, Locked, TypeOK, ArenaTypes, CallTypes
  <2>2. bins[tldArena[t]][pos[t]] \in Page
    BY <2>1
  <2>3. /\ pc[t] = "scan" /\ pc'[t] = "scan_bump"
        /\ pg'[t] = bins[tldArena[t]][pos[t]] /\ UNCHANGED <<hand, zeroed, pos>>
    BY <1>3, <1>12, Zenon DEF ScanUnowned
  <2> QED BY <1>4, <2>1, <2>2, <2>3, Zenon DEF Holding
<1>13. CASE ScanRoom(t) \/ RemoteCount(t)
  <2>1. /\ pc[t] \in {"scan_bump", "remote_count"}
        /\ pc'[t] \in {"slow_read", "remote_used"}
        /\ UNCHANGED <<pg, hand, zeroed>>
    BY <1>3, <1>13, Zenon DEF ScanRoom, RemoteCount
  <2> QED BY <1>4, <2>1, Zenon DEF Holding
<1>14. ASSUME NEW p \in Page, PageTaken(t, p)
       PROVE  Agree(pc'[t], pg'[t], hand'[t], pos'[t], zeroed'[t])
  <2>1. pc'[t] = "unlock" /\ hand'[t] = <<p, 0>> /\ pg'[t] = p
    BY <1>3, <1>14, Zenon DEF PageTaken, TakePage
  <2>2. <<p, 0>> \in Address /\ PageOf(<<p, 0>>) = p
    BY AddressFacts
  <2> QED BY <2>1, <2>2, Zenon DEF Holding
<1>15. ASSUME NEW b \in live, FreeLocal(t, b) \/ FreeRemote(t, b)
       PROVE  Agree(pc'[t], pg'[t], hand'[t], pos'[t], zeroed'[t])
  <2>1. PageOf(b) \in Page /\ b \in Address /\ b \in Block
    BY BlockFacts, AddressFacts DEF TypeOK, ProgTypes
  <2>2. /\ pc[t] = "idle" /\ pg'[t] = PageOf(b) /\ zeroed' = zeroed
        /\ \/ pc'[t] = "local_used" /\ hand' = hand
           \/ pc'[t] = "push" /\ hand'[t] = b
    BY <1>3, <1>15, Zenon DEF FreeLocal, FreeRemote
  <2> QED BY <1>4, <2>1, <2>2, Zenon DEF Holding
<1>16. CASE RemotePush(t)
  <2>1. pg[t] \in Page
    BY <1>4, <1>16, BlockFacts DEF RemotePush, Holding
  <2>2. /\ pc[t] = "push" /\ pc'[t] = "remote_count" /\ hand'[t] = NULL
        /\ UNCHANGED <<pg, zeroed>>
    BY <1>3, <1>16, Zenon DEF RemotePush
  <2> QED BY <1>4, <2>1, <2>2, Zenon DEF Holding
<1>17. CASE \/ \E p \in Page : NewPage(t, p)
            \/ \E s \in Segments : NewSegment(t, s)
  BY <1>14, <1>17, PageTakenFacts
<1> QED BY <1>5, <1>6, <1>7, <1>8, <1>9, <1>10, <1>11, <1>12, <1>13, <1>15, <1>16,
      <1>17 DEF Call, Step

\* Every step keeps the mutexes with the threads in the critical sections.
LEMMA LocksOKStep ==
    ASSUME TypeOK, LocksOK, PagesOK, NEW t \in Threads, Call(t) \/ Step(t)
    PROVE  LocksOK'
<1>1. /\ lock \in [Arenas -> Threads \cup {NULL}] /\ arenaNext \in Nat
      /\ tldArena \in [Threads -> Arenas \cup {NULL}] /\ pc \in [Threads -> Labels]
  BY DEF TypeOK, ArenaTypes, TldTypes, CallTypes
<1>2. CASE /\ UNCHANGED <<lock, tldArena>>
           /\ pc'[t] \in Locked \cup {"lock", "claim"} => pc[t] \in Locked
           /\ \A u \in Threads \ {t} : pc'[u] = pc[u]
  BY <1>2 DEF LocksOK
<1>3. CASE \/ AllocPop(t) \/ AllocBump(t) \/ AllocCollect(t) \/ CollectCount(t)
           \/ AllocFull(t) \/ AllocUncached(t) \/ FastRead(t) \/ FastBump(t)
           \/ FastUsed(t)
  BY <1>1, <1>2, <1>3, Zenon DEF AllocPop, AllocBump, AllocCollect, CollectCount,
    AllocFull, AllocUncached, FastRead, FastBump, FastUsed, BumpRead, BumpStore,
    Cached, Deliver, Return, Locked
<1>4. CASE \/ ScanEnd(t) \/ ScanOwned(t) \/ ScanUnowned(t) \/ ScanRoom(t)
           \/ ScanFull(t) \/ SlowRead(t) \/ SlowBump(t) \/ SlowUsed(t)
           \/ Claim(t) \/ ClaimFails(t)
  BY <1>1, <1>2, <1>4 DEF ScanEnd, ScanOwned, ScanUnowned, ScanRoom, ScanFull,
    SlowRead, SlowBump, SlowUsed, Claim, ClaimFails, BumpRead, BumpStore, Deliver,
    Return, Locked
<1>5. CASE \/ RemotePush(t) \/ RemoteCount(t) \/ LocalUsed(t) \/ RemoteUsed(t)
           \/ \E b \in live : FreeLocal(t, b) \/ FreeRemote(t, b) \/ FreeUnregistered(t, b)
  BY <1>1, <1>2, <1>5, Zenon DEF FreeLocal, FreeRemote, FreeUnregistered,
    RemotePush, RemoteCount, LocalUsed, RemoteUsed, Return, Locked
<1>6. CASE ArenaGet(t)
  BY <1>6, <1>1, ArenaFacts DEF ArenaGet, LocksOK, Locked
<1>7. CASE Lock(t)
  BY <1>7, <1>1, SentinelAssumption DEF Lock, LocksOK, Locked
<1>8. ASSUME NEW p \in Page, PageTaken(t, p) PROVE LocksOK'
  BY <1>8, <1>1 DEF PageTaken, TakePage, LocksOK, Locked
<1>9. CASE NoMemory(t)
  BY <1>9, <1>1 DEF NoMemory, Return, LocksOK, Locked
<1>10. CASE Unlock(t)
  BY <1>10, <1>1 DEF Unlock, LocksOK, Locked
<1>11. CASE ThreadExit(t)
  BY <1>11, <1>1 DEF ThreadExit, LocksOK, Locked
<1>12. CASE \/ \E p \in Page : NewPage(t, p)
            \/ \E s \in Segments : NewSegment(t, s)
  BY <1>8, <1>12, PageTakenFacts
<1> QED BY <1>3, <1>4, <1>5, <1>6, <1>7, <1>9, <1>10, <1>11, <1>12 DEF Call, Step

\* Every step keeps the bin lists and the slow paths within their arenas.
LEMMA ArenasOKStep ==
    ASSUME TypeOK, RegistersOK, LocksOK, ArenasOK, PagesOK, NEW t \in
           Threads, Call(t) \/ Step(t)
    PROVE  ArenasOK'
<1>1. /\ pstate \in [Page -> {"UNUSED", "ACTIVE"}]
      /\ bins \in [Arenas -> Seq(Page)]
      /\ segArena \in [Segments -> Arenas \cup {NULL}]
      /\ tldArena \in [Threads -> Arenas \cup {NULL}] /\ pc \in [Threads -> Labels]
      /\ pg \in [Threads -> Page \cup {NULL}] /\ pos \in [Threads -> Nat]
  BY DEF TypeOK, PageTypes, ArenaTypes, TldTypes, CallTypes
<1>2. CASE /\ UNCHANGED <<pstate, bins, segArena>>
           /\ pc'[t] \in OnPage =>
                pc[t] \in OnPage /\ pg'[t] = pg[t] /\ tldArena' = tldArena
           /\ \A u \in Threads \ {t} :
                pc'[u] = pc[u] /\ pg'[u] = pg[u] /\ tldArena'[u] = tldArena[u]
  <2>1. \A u \in Threads : pc'[u] \in OnPage =>
          pc[u] \in OnPage /\ pg'[u] = pg[u] /\ tldArena'[u] = tldArena[u]
    BY <1>2, Zenon
  <2> QED BY <1>2, <2>1, Zenon DEF ArenasOK
<1>3. CASE \/ AllocPop(t) \/ AllocBump(t) \/ AllocCollect(t) \/ CollectCount(t)
           \/ AllocFull(t) \/ AllocUncached(t) \/ FastRead(t) \/ FastBump(t)
           \/ FastUsed(t) \/ ArenaGet(t) \/ ThreadExit(t)
  BY <1>1, <1>2, <1>3, Zenon DEF AllocPop, AllocBump, AllocCollect, CollectCount,
    AllocFull, AllocUncached, FastRead, FastBump, FastUsed, ArenaGet, ThreadExit,
    BumpRead, BumpStore, Return, OnPage
<1>4. CASE \/ Lock(t) \/ ScanEnd(t) \/ ScanOwned(t) \/ ScanRoom(t) \/ ScanFull(t)
           \/ SlowRead(t) \/ SlowBump(t) \/ SlowUsed(t) \/ NoMemory(t) \/ Unlock(t)
           \/ Claim(t) \/ ClaimFails(t)
  BY <1>1, <1>2, <1>4 DEF Lock, ScanEnd, ScanOwned, ScanRoom, ScanFull, SlowRead,
    SlowBump, SlowUsed, NoMemory, Unlock, Claim, ClaimFails, BumpRead, BumpStore,
    Deliver, Return, OnPage
<1>5. CASE \/ RemotePush(t) \/ RemoteCount(t) \/ LocalUsed(t) \/ RemoteUsed(t)
           \/ \E b \in live : FreeLocal(t, b) \/ FreeRemote(t, b) \/ FreeUnregistered(t, b)
  BY <1>1, <1>2, <1>5, Zenon DEF FreeLocal, FreeRemote, FreeUnregistered,
    RemotePush, RemoteCount, LocalUsed, RemoteUsed, Return, OnPage
<1>7. CASE ScanUnowned(t)
  <2>1. /\ pc[t] = "scan" /\ pos[t] \in 1 .. Len(bins[tldArena[t]]) /\ tldArena[t] \in Arenas
        /\ pg' = [pg EXCEPT ![t] = bins[tldArena[t]][pos[t]]]
        /\ UNCHANGED <<pstate, segArena, bins, tldArena>>
    BY <1>7, <1>1 DEF ScanUnowned, RegistersOK, LocksOK, Locked
  <2>2. pc' = [pc EXCEPT ![t] = "scan_bump"]
    BY <1>7 DEF ScanUnowned
  <2> QED BY <1>1, <2>1, <2>2 DEF ArenasOK, OnPage
<1>8. ASSUME NEW p \in Page, PageTaken(t, p) PROVE ArenasOK'
  <2>1. /\ tldArena[t] \in Arenas /\ bins[tldArena[t]] \in Seq(Page)
        /\ bins' = [bins EXCEPT ![tldArena[t]] = <<p>> \o bins[tldArena[t]]]
    BY <1>8, <1>1 DEF PageTaken, TakePage, LocksOK, Locked
  <2>2. \A i \in 1 .. Len(bins'[tldArena[t]]) :
             \/ bins'[tldArena[t]][i] = p
             \/ \E j \in 1 .. Len(bins[tldArena[t]]) : bins'[tldArena[t]][i] = bins[tldArena[t]][j]
    <3>1. PICK l, k : l = bins[tldArena[t]] /\ k = bins'[tldArena[t]]
      OBVIOUS
    <3>2. l \in Seq(Page) /\ k = <<p>> \o l
      BY <1>1, <2>1, <3>1
    <3>3. \A i \in 1 .. Len(k) : k[i] = p \/ \E j \in 1 .. Len(l) : k[i] = l[j]
      BY <3>2, ConcatFacts
    <3> QED BY <3>1, <3>3, Zenon
  <2>3. /\ pstate' = [pstate EXCEPT ![p] = "ACTIVE"] /\ segArena'[SegmentOf(p)] = tldArena[t]
        /\ \A s \in Segments : segArena[s] # NULL => segArena'[s] = segArena[s]
    BY <1>8 DEF PageTaken, TakePage
  <2>4. \A a \in Arenas : \A i \in 1 .. Len(bins'[a]) :
             /\ pstate'[bins'[a][i]] = "ACTIVE"
             /\ segArena'[SegmentOf(bins'[a][i])] = a
    BY <1>1, <2>1, <2>2, <2>3, PageFacts, SentinelAssumption, SMTT(20) DEF ArenasOK
  <2>5. /\ pc' = [pc EXCEPT ![t] = "unlock"] /\ pg' = [pg EXCEPT ![t] = p]
        /\ tldArena' = tldArena /\ segArena' \in [Segments -> Arenas \cup {NULL}]
    BY <1>8 DEF PageTaken, TakePage
  <2>6. \A u \in Threads \ {t} : pc[u] \in OnPage =>
             pg[u] \in Page /\ tldArena[u] \in Arenas
    <3>1. OnPage \subseteq Locked \cup {"lock", "claim"}
      BY Zenon DEF OnPage, Locked
    <3> QED BY <3>1, HeldPages, Zenon DEF LocksOK
  <2>7. \A u \in Threads : pc'[u] \in OnPage =>
             /\ pstate'[pg'[u]] = "ACTIVE"
             /\ segArena'[SegmentOf(pg'[u])] = tldArena'[u]
    BY <1>1, <2>1, <2>3, <2>5, <2>6, PageFacts, SentinelAssumption DEF ArenasOK
  <2> QED BY <2>1, <2>2, <2>3, <2>4, <2>5, <2>6, <2>7 DEF ArenasOK
<1>10. CASE \/ \E p \in Page : NewPage(t, p)
            \/ \E s \in Segments : NewSegment(t, s)
  BY <1>8, <1>10, PageTakenFacts
<1> QED BY <1>3, <1>4, <1>5, <1>7, <1>10 DEF Call, Step

\* Every step keeps unused pages untouched and blocks within pages in use.
LEMMA PagesOKStep ==
    ASSUME TypeOK, RegistersOK, LocksOK, ArenasOK, PagesOK, CachesOK, NEW t
           \in Threads, Call(t) \/ Step(t)
    PROVE  PagesOK'
<1>1. /\ pstate \in [Page -> {"UNUSED", "ACTIVE"}]
      /\ owner \in [Page -> Threads \cup {NoOwner}]
      /\ bump \in [Page -> Nat] /\ localFree \in [Page -> Seq(Slot)]
      /\ remoteFree \in [Page -> Seq(Slot)]
      /\ segArena \in [Segments -> Arenas \cup {NULL}]
      /\ binPage \in [Threads -> Page \cup {NULL}] /\ pc \in [Threads -> Labels]
      /\ pg \in [Threads -> Page \cup {NULL}]
      /\ hand \in [Threads -> Address \cup {NULL}] /\ live \in SUBSET Block
  BY DEF TypeOK, PageTypes, ArenaTypes, TldTypes, CallTypes, ProgTypes
<1>2. CASE /\ UNCHANGED <<pstate, owner, bump, localFree, remoteFree, segArena>>
           /\ live' \subseteq live
           /\ pc'[t] \in Holding => pc[t] \in Holding /\ pg'[t] = pg[t]
           /\ \A u \in Threads \ {t} : pc'[u] = pc[u] /\ pg'[u] = pg[u]
  BY <1>2, SMTT(20) DEF PagesOK
<1>3. CASE \/ CollectCount(t) \/ AllocFull(t) \/ AllocUncached(t) \/ ArenaGet(t)
           \/ Lock(t) \/ ScanEnd(t) \/ ScanOwned(t) \/ ScanUnowned(t)
           \/ ScanRoom(t) \/ ScanFull(t) \/ SlowUsed(t) \/ AllocBump(t)
  BY <1>1, <1>2, <1>3, Zenon DEF CollectCount, AllocFull, AllocUncached, ArenaGet, Lock,
    ScanEnd, ScanOwned, ScanUnowned, ScanRoom, ScanFull, SlowUsed, AllocBump,
    Cached, Holding
<1>4. CASE \/ NoMemory(t) \/ Unlock(t) \/ RemoteCount(t) \/ LocalUsed(t)
           \/ RemoteUsed(t) \/ ThreadExit(t)
           \/ \E b \in live : FreeUnregistered(t, b)
  BY <1>1, <1>2, <1>4, Zenon DEF NoMemory, Unlock, FreeUnregistered, RemoteCount,
    LocalUsed, RemoteUsed, ThreadExit, Return, Holding
<1>5. CASE AllocPop(t)
  BY <1>5, <1>1 DEF AllocPop, Cached, PagesOK, Holding
<1>6. CASE FastRead(t) \/ SlowRead(t)
  <2>1. /\ BumpRead(t) /\ pc[t] \in {"fast_read", "slow_read"}
        /\ \A u \in Threads \ {t} : pc'[u] = pc[u]
    BY <1>6, <1>1 DEF FastRead, SlowRead
  <2>2. pstate[pg[t]] = "ACTIVE"
    <3>1. pg[t] \in Page
      BY <2>1 DEF RegistersOK
    <3>2. CASE pc[t] = "fast_read"
      BY <3>1, <3>2, <1>1, SentinelAssumption DEF CachesOK, PagesOK
    <3>3. CASE pc[t] = "slow_read"
      BY <3>3, Zenon DEF ArenasOK, OnPage
    <3> QED BY <2>1, <3>2, <3>3
  <2>3. UNCHANGED <<pstate, owner, bump, localFree, remoteFree, segArena, pg, live>>
    BY <2>1, Zenon DEF BumpRead
  <2> QED BY <2>1, <2>2, <2>3 DEF PagesOK
<1>7. CASE AllocCollect(t)
  BY <1>7, <1>1 DEF AllocCollect, Cached, PagesOK, Holding
<1>8. CASE FastBump(t) \/ SlowBump(t)
  <2>1. /\ pc[t] \in Holding /\ BumpStore(t)
        /\ \A u \in Threads \ {t} : pc'[u] = pc[u]
    BY <1>8, <1>1 DEF FastBump, SlowBump, Holding
  <2>2. pg[t] \in Page /\ pstate[pg[t]] = "ACTIVE"
    BY <2>1, HeldPages, Zenon DEF PagesOK
  <2>3. /\ \A p \in Page \ {pg[t]} : bump'[p] = bump[p]
        /\ UNCHANGED <<pstate, owner, localFree, remoteFree, segArena, pg, live>>
    BY <2>1, <1>1 DEF BumpStore
  <2> QED BY <2>1, <2>2, <2>3 DEF PagesOK
<1>10. ASSUME NEW p \in Page, PageTaken(t, p) PROVE PagesOK'
  <2>1. /\ pstate[p] = "UNUSED" /\ pstate' = [pstate EXCEPT ![p] = "ACTIVE"]
        /\ pg' = [pg EXCEPT ![t] = p] /\ live' = live
    BY <1>10, Zenon DEF PageTaken, TakePage
  <2>2. /\ segArena'[SegmentOf(p)] # NULL
        /\ \A s \in Segments : segArena'[s] = NULL => segArena[s] = NULL
    <3>1. /\ pc[t] = "new_page" /\ segArena'[SegmentOf(p)] = tldArena[t]
          /\ \A s \in Segments : segArena[s] # NULL => segArena'[s] = segArena[s]
      BY <1>10 DEF PageTaken
    <3>2. tldArena[t] \in Arenas
      BY <3>1 DEF LocksOK, Locked
    <3> QED BY <3>1, <3>2, SentinelAssumption
  <2>3. /\ owner' = [owner EXCEPT ![p] = NoOwner] /\ bump' = [bump EXCEPT ![p] = 1]
        /\ localFree' = [localFree EXCEPT ![p] = <<>>]
        /\ remoteFree' = [remoteFree EXCEPT ![p] = <<>>]
        /\ pc' = [pc EXCEPT ![t] = "unlock"]
    BY <1>10, Zenon DEF PageTaken, TakePage
  <2>4. \A q \in Page \ {p} :
             /\ pstate'[q] = pstate[q] /\ owner'[q] = owner[q] /\ bump'[q] = bump[q]
             /\ localFree'[q] = localFree[q] /\ remoteFree'[q] = remoteFree[q]
    BY <1>1, <2>1, <2>3
  <2>5. pstate'[p] = "ACTIVE" /\ pg'[t] = p /\ \A u \in Threads \ {t} :
          pc'[u] = pc[u] /\ pg'[u] = pg[u]
    BY <1>1, <2>1, <2>3
  <2>6. \A u \in Threads : pc[u] \in Holding => pg[u] \in Page
    BY HeldPages, Zenon
  <2>7. \A b \in live : PageOf(b) \in Page
    BY <1>1, BlockFacts
  <2>8. \A q \in Page : segArena'[SegmentOf(q)] = NULL => pstate'[q] =
          "UNUSED"
    BY PageFacts, <2>2, <2>4 DEF PagesOK
  <2>9. \A q \in Page : pstate'[q] = "UNUSED" =>
             /\ owner'[q] = NoOwner /\ bump'[q] = 0
             /\ localFree'[q] = <<>> /\ remoteFree'[q] = <<>>
    BY <2>4, <2>5 DEF PagesOK
  <2>10. /\ \A u \in Threads : pc'[u] \in Holding => pstate'[pg'[u]] = "ACTIVE"
         /\ \A b \in live' : pstate'[PageOf(b)] = "ACTIVE"
    BY <2>1, <2>4, <2>5, <2>6, <2>7 DEF PagesOK
  <2> QED BY <2>8, <2>9, <2>10 DEF PagesOK
<1>11. CASE FastUsed(t) \/ Claim(t) \/ ClaimFails(t)
  <2>1. /\ pc[t] \in Holding /\ pc'[t] \notin Holding
        /\ \A u \in Threads \ {t} : pc'[u] = pc[u] /\ pg'[u] = pg[u]
    BY <1>11, <1>1 DEF FastUsed, Claim, ClaimFails, Return, Holding
  <2>2. /\ UNCHANGED <<pstate, bump, localFree, remoteFree, segArena>>
        /\ live' = live \cup ({hand[t]} \cap Block)
        /\ owner' = owner \/ owner' = [owner EXCEPT ![pg[t]] = t]
    BY <1>11, Zenon DEF FastUsed, Claim, ClaimFails, Deliver
  <2>3. pg[t] \in Page /\ pg[t] = PageOf(hand[t]) /\ pstate[pg[t]] = "ACTIVE"
    BY <2>1, HeldPages, Zenon DEF RegistersOK, PagesOK
  <2>4. \A q \in Page : pstate[q] = "UNUSED" => owner'[q] = owner[q]
    BY <2>2, <2>3, <1>1
  <2>5. \A u \in Threads : pc'[u] \in Holding => pstate[pg'[u]] = "ACTIVE"
    BY <2>1 DEF PagesOK
  <2>6. \A b \in live' : pstate[PageOf(b)] = "ACTIVE"
    BY <2>2, <2>3 DEF PagesOK
  <2> QED BY <2>2, <2>4, <2>5, <2>6 DEF PagesOK
<1>13. ASSUME NEW b \in live, FreeLocal(t, b) PROVE PagesOK'
  <2>1. /\ pstate[PageOf(b)] = "ACTIVE" /\ pc'[t] \notin Holding
        /\ \A u \in Threads \ {t} : pc'[u] = pc[u] /\ pg'[u] = pg[u]
        /\ \A q \in Page \ {PageOf(b)} : localFree'[q] = localFree[q]
    BY <1>13, <1>1 DEF FreeLocal, PagesOK, Holding
  <2>2. UNCHANGED <<pstate, owner, bump, remoteFree, segArena>> /\ live' = live \ {b}
    BY <1>13, Zenon DEF FreeLocal
  <2> QED BY <2>1, <2>2 DEF PagesOK
<1>14. ASSUME NEW b \in live, FreeRemote(t, b) PROVE PagesOK'
  <2>1. /\ pstate[PageOf(b)] = "ACTIVE" /\ pg'[t] = PageOf(b)
        /\ \A u \in Threads \ {t} : pc'[u] = pc[u] /\ pg'[u] = pg[u]
    BY <1>14, <1>1 DEF FreeRemote, PagesOK
  <2>2. /\ UNCHANGED <<pstate, owner, bump, localFree, remoteFree, segArena>>
        /\ live' = live \ {b}
    BY <1>14, Zenon DEF FreeRemote
  <2> QED BY <2>1, <2>2 DEF PagesOK
<1>15. CASE RemotePush(t)
  <2>1. /\ pc[t] \in Holding /\ pc'[t] \notin Holding /\ pg' = pg
        /\ \A u \in Threads \ {t} : pc'[u] = pc[u]
        /\ \A q \in Page \ {pg[t]} : remoteFree'[q] = remoteFree[q]
    BY <1>15, <1>1 DEF RemotePush, Holding
  <2>2. UNCHANGED <<pstate, owner, bump, localFree, segArena, live>>
    BY <1>15, Zenon DEF RemotePush
  <2> QED BY <2>1, <2>2 DEF PagesOK
<1>16. CASE \/ \E p \in Page : NewPage(t, p)
            \/ \E s \in Segments : NewSegment(t, s)
  BY <1>10, <1>16, PageTakenFacts
<1> QED BY <1>3, <1>4, <1>5, <1>6, <1>7, <1>8, <1>11, <1>13, <1>14,
  <1>15, <1>16 DEF Call, Step

\* Every step keeps cached pages owned by the thread that caches them.
LEMMA CachesOKStep ==
    ASSUME TypeOK, RegistersOK, LocksOK, PagesOK, CachesOK, NEW t \in
           Threads, Call(t) \/ Step(t)
    PROVE  CachesOK'
<1>1. /\ owner \in [Page -> Threads \cup {NoOwner}]
      /\ pstate \in [Page -> {"UNUSED", "ACTIVE"}]
      /\ binPage \in [Threads -> Page \cup {NULL}] /\ pc \in [Threads -> Labels]
      /\ pg \in [Threads -> Page \cup {NULL}]
  BY DEF TypeOK, PageTypes, TldTypes, CallTypes
<1>2. CASE /\ UNCHANGED <<owner, binPage>>
           /\ pc'[t] \in {"fast_read", "fast_bump"} => pc[t] = "fast_read" /\ pg'[t] = pg[t]
           /\ \A u \in Threads \ {t} : pc'[u] = pc[u] /\ pg'[u] = pg[u]
  BY <1>2 DEF CachesOK
<1>3. CASE \/ AllocPop(t) \/ AllocCollect(t) \/ CollectCount(t) \/ AllocUncached(t)
           \/ FastRead(t) \/ FastBump(t) \/ FastUsed(t) \/ ArenaGet(t)
  BY <1>1, <1>2, <1>3, Zenon DEF AllocPop, AllocCollect, CollectCount,
    AllocUncached, FastRead, FastBump, FastUsed, ArenaGet, BumpRead, BumpStore,
    Cached, Deliver, Return
<1>4. CASE \/ Lock(t) \/ ScanEnd(t) \/ ScanOwned(t) \/ ScanUnowned(t)
           \/ ScanRoom(t) \/ ScanFull(t) \/ SlowRead(t) \/ SlowBump(t)
           \/ SlowUsed(t) \/ NoMemory(t) \/ Unlock(t) \/ ClaimFails(t)
  BY <1>1, <1>2, <1>4 DEF Lock, ScanEnd, ScanOwned, ScanUnowned, ScanRoom,
    ScanFull, SlowRead, SlowBump, SlowUsed, NoMemory, Unlock, ClaimFails, BumpRead,
    BumpStore, Deliver, Return
<1>5. CASE \/ RemotePush(t) \/ RemoteCount(t) \/ LocalUsed(t) \/ RemoteUsed(t)
           \/ \E b \in live : FreeLocal(t, b) \/ FreeRemote(t, b) \/ FreeUnregistered(t, b)
  BY <1>1, <1>2, <1>5, Zenon DEF FreeLocal, FreeRemote, FreeUnregistered,
    RemotePush, RemoteCount, LocalUsed, RemoteUsed, Return
<1>6. CASE AllocBump(t)
  BY <1>6, <1>1, Zenon DEF AllocBump, Cached, CachesOK
<1>7. CASE AllocFull(t)
  BY <1>7, <1>1, Zenon DEF AllocFull, Cached, CachesOK
<1>8. ASSUME NEW p \in Page, PageTaken(t, p) PROVE CachesOK'
  <2>1. owner[p] = NoOwner
    BY <1>8, Zenon DEF PageTaken, PagesOK
  <2>2. /\ owner' = [owner EXCEPT ![p] = NoOwner] /\ binPage' = binPage
        /\ pg' = [pg EXCEPT ![t] = p] /\ pc' = [pc EXCEPT ![t] = "unlock"]
    BY <1>8, Zenon DEF PageTaken, TakePage
  <2>3. owner' = owner
    BY <1>1, <2>1, <2>2
  <2> QED BY <1>1, <2>2, <2>3 DEF CachesOK
<1>9. CASE Claim(t)
  <2>1. hand[t] \in Address /\ pg[t] = PageOf(hand[t])
    BY <1>9, Zenon DEF Claim, RegistersOK, Holding
  <2>2. /\ owner[pg[t]] \in {NoOwner, t} /\ owner' = [owner EXCEPT ![pg[t]] = t]
        /\ binPage' = [binPage EXCEPT ![t] = pg[t]]
        /\ pc' = [pc EXCEPT ![t] = "idle"] /\ pg' = [pg EXCEPT ![t] = NULL]
    BY <1>9, Zenon DEF Claim, Return
  <2>3. pg[t] \in Page
    BY <2>1, AddressFacts
  <2>4. \A u \in Threads \ {t} :
          /\ u # NoOwner /\ pc'[u] = pc[u] /\ pg'[u] = pg[u]
          /\ binPage'[u] = binPage[u]
    BY <1>1, <2>2, SentinelAssumption
  <2>5. pc'[t] = "idle" /\ binPage'[t] = pg[t] /\ owner'[pg[t]] = t
    BY <1>1, <2>2, <2>3, Zenon
  <2>6. \A q \in Page : owner[q] \notin {NoOwner, t} => owner'[q] = owner[q]
    BY <1>1, <2>2, Zenon
  <2>7. \A u \in Threads :
          /\ binPage[u] # NULL => binPage[u] \in Page
          /\ pc[u] \in {"fast_read", "fast_bump"} => pg[u] \in Page
    BY <1>1, HeldPages DEF RegistersOK, Holding
  <2> QED BY <2>4, <2>5, <2>6, <2>7 DEF CachesOK
<1>10. CASE ThreadExit(t)
  BY <1>10, <1>1 DEF ThreadExit, CachesOK
<1>11. CASE \/ \E p \in Page : NewPage(t, p)
            \/ \E s \in Segments : NewSegment(t, s)
  BY <1>8, <1>11, PageTakenFacts
<1> QED BY <1>3, <1>4, <1>5, <1>6, <1>7, <1>9, <1>10, <1>11 DEF Call, Step

-----------------------------------------------------------------------------
(* Every execution.                                                        *)

\* malloc_init and segment_create leave everything in order.
LEMMA StructInvInit == Init => StructInv
<1> SUFFICES ASSUME Init PROVE StructInv
  OBVIOUS
<1>1. TypeOK
  <2>1. <<>> \in Seq(Slot) /\ <<>> \in Seq(Page) /\ 0 \in 0 .. U16 - 1
    BY U16Facts
  <2> QED BY <2>1 DEF Init, TypeOK, PageTypes, ArenaTypes, StatTypes, TldTypes,
        CallTypes, ProgTypes, Labels
<1>2. RegistersOK
  BY DEF Init, RegistersOK, Holding
<1>3. LocksOK
  BY DEF Init, LocksOK, Locked
<1>4. ArenasOK
  BY DEF Init, ArenasOK, OnPage
<1>5. PagesOK
  BY DEF Init, PagesOK, Holding
<1>6. CachesOK
  BY DEF Init, CachesOK
<1> QED BY <1>1, <1>2, <1>3, <1>4, <1>5, <1>6 DEF StructInv

\* StructInv is inductive.
LEMMA StructInvStep == StructInv /\ [Next]_vars => StructInv'
<1> SUFFICES ASSUME StructInv, [Next]_vars PROVE StructInv'
  OBVIOUS
<1>1. CASE Next
  <2>1. PICK t \in Threads : Call(t) \/ Step(t)
    BY <1>1, Zenon DEF Next
  <2> QED BY <2>1, TypeOKStep, RegistersOKStep, LocksOKStep, ArenasOKStep, PagesOKStep,
             CachesOKStep DEF StructInv
<1>2. CASE UNCHANGED vars
  <2>1. UNCHANGED <<pageVars, arenaVars, statVars, tldVars, pc, pg, hand, pos, zeroed,
                    progVars>>
    BY <1>2 DEF vars
  <2>2. TypeOK'
    BY <2>1, TypesKept, Zenon DEF StructInv, TypeOK, CallTypes, vars
  <2>3. RegistersOK' /\ LocksOK' /\ CachesOK'
    BY <2>1, Zenon DEF StructInv, RegistersOK, LocksOK, CachesOK
  <2>4. ArenasOK'
    BY <2>1, Zenon DEF StructInv, ArenasOK
  <2>5. PagesOK'
    BY <2>1, Zenon DEF StructInv, PagesOK
  <2> QED BY <2>2, <2>3, <2>4, <2>5 DEF StructInv
<1> QED BY <1>1, <1>2

\* In every execution, whatever the interleaving of the lock-free and the locked
\* paths, the mutexes, the bin lists, the page states and the page caches are in
\* order: a page is in the bin list of its segment's arena, a thread allocates
\* without the lock only from a page it owns, and a block lies in a page in use.
THEOREM StructSafety == Spec => []StructInv
BY StructInvInit, StructInvStep, PTL DEF Spec

\* In every execution each field keeps its type: the free lists of a page hold slots
\* of the page, an owner is a thread, every index stays in the range of its table.
THEOREM TypeSafety == Spec => []TypeOK
<1>1. StructInv => TypeOK
  BY DEF StructInv
<1> QED BY StructSafety, <1>1, PTL
=============================================================================
