----------------------------- MODULE SlabBooks ------------------------------
(***************************************************************************)
(* Proofs about Slab, third part: what is counted.  The counters of a page *)
(* agree with its lists, and the statistics of an arena with the blocks    *)
(* the program holds.                                                      *)
(***************************************************************************)
EXTENDS SlabSafety

USE DEF pageVars, arenaVars, statVars, tldVars, progVars, Goto, PageInit

-----------------------------------------------------------------------------
(* The counters of a page.                                                 *)

\* Whether thread t is at some label of L and works on page p.
Is(L, p, t) == IF pc[t] \in L /\ pg[t] = p THEN 1 ELSE 0

\* In a step of t, at most t comes or goes.
LEMMA AtStep ==
    ASSUME NEW t \in Threads, OthersStay(t), NEW L, NEW p
    PROVE  /\ Cardinality(At(L, p)) \in Nat
           /\ Cardinality(At(L, p))' = Cardinality(At(L, p)) + Is(L, p, t)' - Is(L, p, t)
<1>1. PICK A, B : A = At(L, p) /\ B = At(L, p)'
  OBVIOUS
<1>2. A \subseteq Threads /\ B \subseteq Threads /\ A \ {t} = B \ {t}
  BY <1>1 DEF At, OthersStay
<1>3. IsFiniteSet(A) /\ IsFiniteSet(B)
  BY <1>2, WidthAssumption, FS_Subset
<1>4. /\ Cardinality(A) \in Nat
      /\ Cardinality(B) = Cardinality(A) + (IF t \in B THEN 1 ELSE 0)
                                         - (IF t \in A THEN 1 ELSE 0)
  BY <1>2, <1>3, CardMoves
<1>5. Is(L, p, t) = (IF t \in A THEN 1 ELSE 0) /\ Is(L, p, t)' = IF t \in B THEN 1 ELSE 0
  BY <1>1 DEF At, Is
<1> QED BY <1>1, <1>4, <1>5

\* A uint16_t goes from c to c2 when d is added.
Adds(c, d, c2) == (d = 0 /\ c2 = c) \/ c2 = (c + d) % U16

\* A counter that follows a number through a step still follows it.
LEMMA Follows ==
    ASSUME NEW n \in Int, NEW c, c = n % U16, NEW d \in Int, NEW c2, Adds(c, d, c2)
    PROVE  c2 = (n + d) % U16
<1>1. U16 \in Nat /\ U16 > 0
  BY DEF U16
<1>2. (d + (n % U16)) % U16 = (d + n) % U16
  BY <1>1, ModPlus, Zenon
<1>3. n % U16 \in Int /\ d + (n % U16) = (n % U16) + d /\ d + n = n + d /\ n + 0 = n
  BY <1>1
<1> QED BY <1>2, <1>3, Zenon DEF Adds

\* The part of Out that a step of t can change.
Share(t, p) == OffLists(p) + Is(Freed, p, t) - Is(Taken, p, t)

\* That is all of it.
LEMMA OutStep ==
    ASSUME NEW t \in Threads, OthersStay(t), PageTypes, PageTypes', NEW p \in Page,
           NEW d \in Int, Share(t, p)' = Share(t, p) + d
    PROVE  Out(p) \in Int /\ Out(p)' = Out(p) + d
<1>1. OffLists(p) \in Int /\ OffLists(p)' \in Int
  BY LenFacts DEF PageTypes, OffLists
<1>2. /\ Is(Freed, p, t) \in Int /\ Is(Taken, p, t) \in Int
      /\ Is(Freed, p, t)' \in Int /\ Is(Taken, p, t)' \in Int
  BY DEF Is
<1>3. /\ Cardinality(At(Freed, p)) \in Nat /\ Cardinality(At(Taken, p)) \in Nat
      /\ Cardinality(At(Freed, p))'
           = Cardinality(At(Freed, p)) + Is(Freed, p, t)' - Is(Freed, p, t)
      /\ Cardinality(At(Taken, p))'
           = Cardinality(At(Taken, p)) + Is(Taken, p, t)' - Is(Taken, p, t)
  BY AtStep
<1> QED BY <1>1, <1>2, <1>3 DEF Out, Share

\* used follows Out when it follows the part of it that t can change.
LEMMA UsedFollows ==
    ASSUME NEW t \in Threads, OthersStay(t), PageTypes, PageTypes', NEW p \in Page,
           used[p] = Out(p) % U16, NEW d \in Int, Share(t, p)' = Share(t, p) + d,
           Adds(used[p], d, used'[p])
    PROVE  used'[p] = Out(p)' % U16
<1>1. PICK n : n = Out(p)
  OBVIOUS
<1>2. n \in Int /\ Out(p)' = n + d
  BY <1>1, OutStep
<1>3. used[p] = n % U16
  BY <1>1
<1>4. used'[p] = (n + d) % U16
  BY <1>2, <1>3, Follows, Zenon
<1> QED BY <1>2, <1>4, Zenon

\* used keeps standing for the slots in use.
LEMMA UsedOKStep ==
    ASSUME StructInv, BumpOK, WorkOK, UsedOK, PageTypes',
           NEW t \in Threads, Call(t) \/ Step(t)
    PROVE  UsedOK'
<1> SUFFICES ASSUME NEW p \in Page PROVE used'[p] = Out(p)' % U16
  BY DEF UsedOK
<1>1. CallTypes /\ OthersStay(t)
  BY CallStep, CallMovesFacts DEF StructInv, TypeOK, OthersStay
<1>2. /\ pc \in [Threads -> Labels] /\ pg \in [Threads -> Page \cup {NULL}]
      /\ bump \in [Page -> Nat] /\ used \in [Page -> 0 .. U16 - 1]
      /\ localFree \in [Page -> Seq(Slot)] /\ remoteFree \in [Page -> Seq(Slot)]
  BY DEF StructInv, TypeOK, PageTypes, CallTypes
<1>3. /\ bump[p] \in Nat /\ localFree[p] \in Seq(Slot) /\ Len(localFree[p]) \in Nat
      /\ remoteFree[p] \in Seq(Slot) /\ Len(remoteFree[p]) \in Nat /\ OffLists(p) \in Int
  BY <1>2, LenFacts DEF OffLists
<1>4. ASSUME NEW d \in Int, Share(t, p)' = Share(t, p) + d, Adds(used[p], d, used'[p])
      PROVE  used'[p] = Out(p)' % U16
  <2>1. PageTypes /\ used[p] = Out(p) % U16
    BY DEF StructInv, TypeOK, UsedOK
  <2> QED BY <1>1, <1>4, <2>1, UsedFollows
<1>5. CASE /\ UNCHANGED <<bump, localFree, remoteFree>> /\ used'[p] = used[p]
           /\ Is(Freed, p, t)' = Is(Freed, p, t) /\ Is(Taken, p, t)' = Is(Taken, p, t)
  <2>1. Share(t, p)' = Share(t, p) + 0 /\ Adds(used[p], 0, used'[p])
    BY <1>3, <1>5 DEF Share, Is, OffLists, Adds
  <2> QED BY <1>4, <2>1
<1>6. CASE /\ UNCHANGED <<bump, localFree, remoteFree, used>>
           /\ pc[t] \notin Freed \cup Taken /\ pc'[t] \notin Freed \cup Taken
  BY <1>5, <1>6 DEF Is
<1>7. CASE \/ AllocBump(t) \/ AllocFull(t) \/ AllocUncached(t)
           \/ CollectCount(t) \/ FastRead(t) \/ ArenaGet(t)
           \/ Lock(t) \/ ScanEnd(t) \/ ScanUnowned(t) \/ ScanRoom(t) \/ ScanFull(t)
  BY <1>2, <1>6, <1>7, Zenon DEF AllocBump, AllocFull, AllocUncached, CollectCount,
    FastRead, ArenaGet, Lock, ScanEnd, ScanUnowned, ScanRoom, ScanFull, BumpRead,
    Freed, Taken
<1>8. CASE \/ SlowRead(t) \/ NoMemory(t) \/ Unlock(t) \/ Claim(t) \/ ClaimFails(t)
           \/ ThreadExit(t) \/ \E b \in live : FreeRemote(t, b)
  BY <1>2, <1>6, <1>8, Zenon DEF SlowRead, NoMemory, Unlock, Claim, ClaimFails, ThreadExit,
    FreeRemote, BumpRead, Return, Freed, Taken
<1>9. CASE ScanOwned(t) \/ (\E b \in live : FreeUnregistered(t, b)) \/ RemoteCount(t)
  <2>1. /\ UNCHANGED <<bump, localFree, remoteFree, used, pg>>
        /\ pc' = pc \/ (pc[t] = "remote_count" /\ pc'[t] = "remote_used")
    BY <1>2, <1>9, Zenon DEF ScanOwned, FreeUnregistered, RemoteCount
  <2> QED BY <1>5, <2>1 DEF Is, Freed, Taken
<1>10. CASE AllocPop(t)
  <2>1. PICK q \in Page : /\ localFree[q] # <<>> /\ localFree' = [localFree EXCEPT ![q] = Tail(@)]
                          /\ pg' = [pg EXCEPT ![t] = q] /\ pc' = [pc EXCEPT ![t] = "fast_used"]
                          /\ pc[t] \in {"idle", "pop"}
                          /\ UNCHANGED <<bump, remoteFree, used>>
    BY <1>10, Zenon DEF AllocPop, Cached, StructInv, TypeOK, TldTypes
  <2>2. Share(t, p)' = Share(t, p) + 0 /\ Adds(used[p], 0, used'[p])
    BY <1>2, <1>3, <2>1, LenFacts DEF Share, Is, OffLists, Adds, Freed, Taken
  <2> QED BY <1>4, <2>2
<1>11. CASE AllocCollect(t)
  <2>1. PICK q \in Page : /\ localFree[q] = <<>> /\ remoteFree' = [remoteFree EXCEPT ![q] = <<>>]
                          /\ localFree' = [localFree EXCEPT ![q] = remoteFree[q]]
                          /\ pc[t] = "idle" /\ pc' = [pc EXCEPT ![t] = "collected"]
                          /\ UNCHANGED <<bump, used>>
    BY <1>2, <1>11, LenFacts DEF AllocCollect, Cached, StructInv, TypeOK, TldTypes
  <2>2. Share(t, p)' = Share(t, p) + 0 /\ Adds(used[p], 0, used'[p])
    BY <1>2, <1>3, <2>1, LenFacts DEF Share, Is, OffLists, Adds, Freed, Taken
  <2> QED BY <1>4, <2>2
<1>12. CASE FastBump(t) \/ SlowBump(t)
  <2>1. /\ bump' = [bump EXCEPT ![pg[t]] = bump[pg[t]] + 1] /\ pg[t] \in Page
        /\ UNCHANGED <<localFree, remoteFree, pg>>
    BY <1>12, StorePasses DEF StructInv
  <2>2. pc[t] \in Bumping /\ pc'[t] \in Taken /\ used' = used
    BY <1>2, <1>12, Zenon DEF FastBump, SlowBump, BumpStore, Taken, Bumping
  <2>3. /\ Is(Freed, p, t) = 0 /\ Is(Taken, p, t) = 0 /\ Is(Freed, p, t)' = 0
        /\ Is(Taken, p, t)' = IF pg[t] = p THEN 1 ELSE 0
    BY <2>1, <2>2 DEF Is, Freed, Taken, Bumping
  <2>4. Share(t, p)' = Share(t, p) + 0 /\ Adds(used[p], 0, used'[p])
    BY <1>2, <1>3, <2>1, <2>2, <2>3 DEF Share, OffLists, Adds
  <2> QED BY <1>4, <2>4
<1>13. CASE FastUsed(t) \/ SlowUsed(t)
  <2>1. /\ used' = [used EXCEPT ![pg[t]] = (@ + 1) % U16] /\ pc[t] \in Taken
        /\ pc'[t] \in {"idle", "unlock"} /\ UNCHANGED <<bump, localFree, remoteFree>>
    BY <1>2, <1>13, Zenon DEF FastUsed, SlowUsed, Return, Taken
  <2>2. CASE pg[t] = p
    <3>1. /\ Is(Freed, p, t) = 0 /\ Is(Taken, p, t) = 1
          /\ Is(Freed, p, t)' = 0 /\ Is(Taken, p, t)' = 0
      BY <2>1, <2>2 DEF Is, Freed, Taken
    <3>2. Share(t, p)' = Share(t, p) + 1 /\ Adds(used[p], 1, used'[p])
      BY <1>2, <1>3, <2>1, <2>2, <3>1 DEF Share, OffLists, Adds
    <3> QED BY <1>4, <3>2
  <2>3. CASE pg[t] # p
    BY <1>2, <1>5, <2>1, <2>3 DEF Is, Freed, Taken
  <2> QED BY <2>2, <2>3
<1>14. CASE LocalUsed(t) \/ RemoteUsed(t)
  <2>1. /\ used' = [used EXCEPT ![pg[t]] = (@ - 1) % U16] /\ pc[t] \in Freed
        /\ pc'[t] = "idle" /\ UNCHANGED <<bump, localFree, remoteFree>>
    BY <1>2, <1>14, Zenon DEF LocalUsed, RemoteUsed, Return, Freed
  <2>2. CASE pg[t] = p
    <3>1. Share(t, p)' = Share(t, p) + (-1) /\ Adds(used[p], -1, used'[p])
      BY <1>2, <1>3, <2>1, <2>2 DEF Share, Is, OffLists, Adds, Freed, Taken
    <3> QED BY <1>4, <3>1
  <2>3. CASE pg[t] # p
    BY <1>2, <1>5, <2>1, <2>3 DEF Is, Freed, Taken
  <2> QED BY <2>2, <2>3
<1>15. ASSUME NEW b \in live, FreeLocal(t, b) PROVE used'[p] = Out(p)' % U16
  <2>1. /\ localFree' = [localFree EXCEPT ![PageOf(b)] = <<SlotOf(b)>> \o @]
        /\ pg' = [pg EXCEPT ![t] = PageOf(b)] /\ pc' = [pc EXCEPT ![t] = "local_used"]
        /\ pc[t] = "idle" /\ UNCHANGED <<bump, remoteFree, used>>
    BY <1>15, Zenon DEF FreeLocal
  <2>2. PageOf(b) \in Page /\ SlotOf(b) \in Slot
    BY BlockFacts DEF StructInv, TypeOK, ProgTypes
  <2>3. Share(t, p)' = Share(t, p) + 0 /\ Adds(used[p], 0, used'[p])
    BY <1>2, <1>3, <2>1, <2>2, LenFacts DEF Share, Is, OffLists, Adds, Freed, Taken
  <2> QED BY <1>4, <2>3
<1>16. CASE RemotePush(t)
  <2>1. /\ remoteFree' = [remoteFree EXCEPT ![pg[t]] = <<SlotOf(hand[t])>> \o @]
        /\ pc' = [pc EXCEPT ![t] = "remote_count"] /\ pc[t] = "push"
        /\ UNCHANGED <<bump, localFree, used, pg>>
    BY <1>16, Zenon DEF RemotePush
  <2>2. pg[t] \in Page /\ SlotOf(hand[t]) \in Slot
    BY <2>1, BlockFacts DEF StructInv, RegistersOK, Holding
  <2>3. Share(t, p)' = Share(t, p) + 0 /\ Adds(used[p], 0, used'[p])
    BY <1>2, <1>3, <2>1, <2>2, LenFacts DEF Share, Is, OffLists, Adds, Freed, Taken
  <2> QED BY <1>4, <2>3
<1>17. ASSUME NEW q \in Page, PageTaken(t, q) PROVE used'[p] = Out(p)' % U16
  <2>1. /\ pc[t] = "new_page" /\ pc'[t] = "unlock" /\ pstate[q] = "UNUSED"
        /\ bump' = [bump EXCEPT ![q] = 1] /\ used' = [used EXCEPT ![q] = 1]
        /\ localFree' = [localFree EXCEPT ![q] = <<>>]
        /\ remoteFree' = [remoteFree EXCEPT ![q] = <<>>]
    BY <1>2, <1>17, Zenon DEF PageTaken, TakePage
  <2>2. CASE p # q
    <3>1. Share(t, p)' = Share(t, p) + 0 /\ Adds(used[p], 0, used'[p])
      BY <1>2, <1>3, <2>1, <2>2 DEF Share, Is, OffLists, Adds, Freed, Taken
    <3> QED BY <1>4, <3>1
  <2>3. CASE p = q
    <3>1. At(Freed, p)' = {} /\ At(Taken, p)' = {}
      BY <1>1, <2>1, <2>3 DEF At, OthersStay, WorkOK, StructInv, PagesOK, Freed, Taken, Holding
    <3>2. Out(p)' = 1
      BY <1>2, <2>1, <2>3, <3>1, FS_EmptySet, LenFacts DEF Out, OffLists
    <3>3. U16 \in Nat /\ U16 > 1
      BY DEF U16
    <3>4. 1 % U16 = 1
      BY <3>3, ModWraps
    <3> QED BY <1>2, <2>1, <2>3, <3>2, <3>4
  <2> QED BY <2>2, <2>3
<1>18. CASE \/ \E q \in Page : NewPage(t, q)
            \/ \E s \in Segments : NewSegment(t, s)
  BY <1>17, <1>18, PageTakenFacts DEF StructInv
<1> QED BY <1>7, <1>8, <1>9, <1>10, <1>11, <1>12, <1>13, <1>14, <1>15, <1>16, <1>18, Zenon
        DEF Call, Step

\* Whoever does not collect leaves the collections alone, and nobody collects a page whose
\* owner does something else.
LEMMA Collections ==
    ASSUME WorkOK, NEW t \in Threads, OthersStay(t), NEW p \in Page, pc[t] # "collected"
    PROVE  /\ pc'[t] # "collected" => (Collected(p)' <=> Collected(p))
           /\ owner[p] = t => ~Collected(p)
BY DEF WorkOK, OthersStay, Collected

\* remote_free_count keeps standing for the remote frees counted so far.
LEMMA RemoteCountOKStep ==
    ASSUME StructInv, WorkOK, RemoteCountOK, PageTypes', NEW t \in Threads, Call(t) \/ Step(t)
    PROVE  RemoteCountOK'
<1> DEFINE Net(p) == Remote(p) - Cardinality(At(Pushed, p))
<1> SUFFICES ASSUME NEW p \in Page PROVE remoteCount'[p] = Net(p)' % U16
  BY DEF RemoteCountOK
<1>1. CallTypes /\ OthersStay(t)
  BY CallStep, CallMovesFacts DEF StructInv, TypeOK, OthersStay
<1>2. /\ pc \in [Threads -> Labels] /\ pg \in [Threads -> Page \cup {NULL}]
      /\ remoteCount \in [Page -> 0 .. U16 - 1]
      /\ localFree \in [Page -> Seq(Slot)] /\ remoteFree \in [Page -> Seq(Slot)]
  BY DEF StructInv, TypeOK, PageTypes, CallTypes
<1>3. Remote(p) \in Int /\ Remote(p)' \in Int /\ Len(remoteFree[p]) \in Int
  BY <1>2, LenFacts DEF PageTypes, Remote
<1>4. ASSUME NEW d \in Int, Remote(p)' - Is(Pushed, p, t)' = Remote(p) - Is(Pushed, p, t) + d,
             Adds(remoteCount[p], d, remoteCount'[p])
      PROVE  remoteCount'[p] = Net(p)' % U16
  <2>1. Is(Pushed, p, t) \in Int /\ Is(Pushed, p, t)' \in Int
    BY DEF Is
  <2>2. /\ Cardinality(At(Pushed, p)) \in Nat
        /\ Cardinality(At(Pushed, p))' = Cardinality(At(Pushed, p)) + Is(Pushed, p, t)' - Is(Pushed, p, t)
    BY <1>1, AtStep
  <2>3. PICK n : n = Net(p)
    OBVIOUS
  <2>4. n \in Int /\ Net(p)' = n + d
    BY <1>3, <1>4, <2>1, <2>2, <2>3
  <2>5. remoteCount[p] = n % U16
    BY <2>3 DEF RemoteCountOK
  <2> HIDE DEF Net
  <2>6. remoteCount'[p] = (n + d) % U16
    BY <1>4, <2>4, <2>5, Follows, Zenon
  <2> QED BY <2>4, <2>6, Zenon
<1> HIDE DEF Net
<1>5. CASE Remote(p)' = Remote(p) /\ Is(Pushed, p, t)' = Is(Pushed, p, t) /\ remoteCount'[p] = remoteCount[p]
  <2>1. Is(Pushed, p, t) \in Int
    BY DEF Is
  <2>2. Remote(p)' - Is(Pushed, p, t)' = Remote(p) - Is(Pushed, p, t) + 0
    BY <1>3, <1>5, <2>1
  <2>3. Adds(remoteCount[p], 0, remoteCount'[p])
    BY <1>5 DEF Adds
  <2> QED BY <1>4, <2>2, <2>3
<1>6. CASE /\ UNCHANGED <<localFree, remoteFree, remoteCount>>
           /\ pc[t] \notin {"collected", "remote_count"} /\ pc'[t] \notin {"collected", "remote_count"}
  <2>1. Collected(p)' <=> Collected(p)
    BY <1>1, <1>6, Collections
  <2>2. Remote(p)' = Remote(p)
    BY <1>6, <2>1 DEF Remote
  <2> QED BY <1>5, <1>6, <2>2 DEF Is, Pushed
<1>7. CASE \/ AllocBump(t) \/ AllocFull(t) \/ AllocUncached(t) \/ FastRead(t) \/ FastBump(t)
           \/ FastUsed(t) \/ ArenaGet(t) \/ Lock(t) \/ ScanEnd(t) \/ ScanUnowned(t)
           \/ ScanRoom(t) \/ ScanFull(t)
  BY <1>2, <1>6, <1>7, Zenon DEF AllocBump, AllocFull, AllocUncached, FastRead, FastBump,
    FastUsed, ArenaGet, Lock, ScanEnd, ScanUnowned, ScanRoom, ScanFull, BumpRead,
    BumpStore, Return
<1>8. CASE \/ SlowRead(t) \/ SlowBump(t) \/ SlowUsed(t) \/ NoMemory(t) \/ Unlock(t)
           \/ Claim(t) \/ ClaimFails(t) \/ LocalUsed(t) \/ RemoteUsed(t) \/ ThreadExit(t)
           \/ \E b \in live : FreeRemote(t, b)
  BY <1>2, <1>6, <1>8, Zenon DEF SlowRead, SlowBump, SlowUsed, NoMemory, Unlock, Claim,
    ClaimFails, LocalUsed, RemoteUsed, ThreadExit, FreeRemote, BumpRead, BumpStore, Return
<1>9. CASE ScanOwned(t) \/ \E b \in live : FreeUnregistered(t, b)
  <2>1. UNCHANGED <<localFree, remoteFree, remoteCount, pc>> /\ pc[t] \in {"scan", "idle"}
    BY <1>9, Zenon DEF ScanOwned, FreeUnregistered
  <2> QED BY <1>6, <2>1, Zenon
<1>10. ASSUME NEW q \in Page, owner[q] = t, UNCHANGED <<remoteFree, remoteCount>>,
              \A r \in Page \ {q} : localFree'[r] = localFree[r],
              pc[t] \notin {"collected", "remote_count"}, pc'[t] \notin {"collected", "remote_count"}
       PROVE  remoteCount'[p] = Net(p)' % U16
  <2>1. (Collected(p)' <=> Collected(p)) /\ (p = q => ~Collected(p))
    BY <1>1, <1>10, Collections
  <2>2. Remote(p)' = Remote(p)
    BY <1>10, <2>1 DEF Remote
  <2> QED BY <1>5, <1>10, <2>2 DEF Is, Pushed
<1>11. CASE AllocPop(t)
  <2>1. /\ binPage[t] \in Page /\ owner[binPage[t]] = t
    BY <1>11 DEF AllocPop, Cached, StructInv, TypeOK, TldTypes, CachesOK
  <2>2. /\ localFree' = [localFree EXCEPT ![binPage[t]] = Tail(@)] /\ pc[t] \in {"idle", "pop"}
        /\ pc'[t] = "fast_used" /\ UNCHANGED <<remoteFree, remoteCount>>
    BY <1>2, <1>11, Zenon DEF AllocPop
  <2> QED BY <1>2, <1>10, <2>1, <2>2
<1>12. ASSUME NEW b \in live, FreeLocal(t, b) PROVE remoteCount'[p] = Net(p)' % U16
  <2>1. PageOf(b) \in Page
    BY BlockFacts DEF StructInv, TypeOK, ProgTypes
  <2>2. /\ localFree' = [localFree EXCEPT ![PageOf(b)] = <<SlotOf(b)>> \o @] /\ pc[t] = "idle"
        /\ owner[PageOf(b)] = t /\ pc'[t] = "local_used" /\ UNCHANGED <<remoteFree, remoteCount>>
    BY <1>2, <1>12, Zenon DEF FreeLocal
  <2> QED BY <1>2, <1>10, <2>1, <2>2
<1>13. CASE RemotePush(t)
  <2>1. /\ remoteFree' = [remoteFree EXCEPT ![pg[t]] = <<SlotOf(hand[t])>> \o @]
        /\ pc'[t] = "remote_count" /\ pc[t] = "push"
        /\ UNCHANGED <<remoteCount, localFree, pg>>
    BY <1>2, <1>13, Zenon DEF RemotePush
  <2>2. pg[t] \in Page /\ SlotOf(hand[t]) \in Slot
    BY <2>1, BlockFacts DEF StructInv, RegistersOK, Holding
  <2>3. Remote(p)' - Is(Pushed, p, t)' = Remote(p) - Is(Pushed, p, t) + 0
    <3>1. Collected(p)' <=> Collected(p)
      BY <1>1, <2>1, Collections
    <3>2. PICK n \in Int : n = IF Collected(p) THEN Len(localFree[p]) ELSE 0
      BY <1>2, LenFacts
    <3>3. PICK k \in Int : k = IF pg[t] = p THEN 1 ELSE 0
      OBVIOUS
    <3>4. PICK m \in Int : m = Len(remoteFree[p])
      BY <1>3
    <3>5. Len(remoteFree'[p]) = m + k
      BY <1>2, <2>1, <2>2, <3>3, <3>4, LenFacts
    <3>6. Remote(p) = m + n /\ Remote(p)' = m + k + n
      BY <2>1, <3>1, <3>2, <3>4, <3>5 DEF Remote
    <3>7. Is(Pushed, p, t) = 0 /\ Is(Pushed, p, t)' = k
      BY <2>1, <3>3 DEF Is, Pushed
    <3> QED BY <3>6, <3>7
  <2>4. Adds(remoteCount[p], 0, remoteCount'[p])
    BY <2>1 DEF Adds
  <2> QED BY <1>4, <2>3, <2>4
<1>14. CASE RemoteCount(t)
  <2>1. /\ remoteCount' = [remoteCount EXCEPT ![pg[t]] = (@ + 1) % U16]
        /\ pc'[t] = "remote_used" /\ pc[t] = "remote_count"
        /\ UNCHANGED <<remoteFree, localFree, pg>>
    BY <1>2, <1>14, Zenon DEF RemoteCount
  <2>2. Remote(p)' = Remote(p)
    <3>1. Collected(p)' <=> Collected(p)
      BY <1>1, <2>1, Collections
    <3> QED BY <2>1, <3>1 DEF Remote
  <2>3. CASE pg[t] = p
    <3>1. Remote(p)' - Is(Pushed, p, t)' = Remote(p) - Is(Pushed, p, t) + 1
      BY <1>3, <2>1, <2>2, <2>3 DEF Is, Pushed
    <3>2. Adds(remoteCount[p], 1, remoteCount'[p])
      BY <1>2, <2>1, <2>3 DEF Adds
    <3> QED BY <1>4, <3>1, <3>2
  <2>4. CASE pg[t] # p
    BY <1>2, <1>5, <2>1, <2>2, <2>4 DEF Is, Pushed
  <2> QED BY <2>3, <2>4
<1>15. CASE AllocCollect(t)
  <2>1. PICK q \in Page : /\ localFree[q] = <<>> /\ remoteFree' = [remoteFree EXCEPT ![q] = <<>>]
                          /\ localFree' = [localFree EXCEPT ![q] = remoteFree[q]]
                          /\ pc[t] = "idle" /\ pc'[t] = "collected" /\ pg'[t] = q
                          /\ remoteCount' = remoteCount /\ binPage[t] = q
    BY <1>2, <1>15, LenFacts DEF AllocCollect, Cached, StructInv, TypeOK, TldTypes
  <2>2. Remote(p)' = Remote(p)
    <3>1. p # q => (Collected(p)' <=> Collected(p))
      BY <1>1, <2>1 DEF Collected, OthersStay
    <3>2. ~Collected(q) /\ Collected(q)'
      BY <1>1, <2>1, NullFacts, SentinelAssumption, Collections DEF Collected, StructInv, CachesOK
    <3>3. CASE p = q
      <4>1. Remote(p) = Len(remoteFree[p]) + 0 /\ Remote(p)' = Len(<<>>) + Len(remoteFree[p])
        BY <1>2, <2>1, <3>2, <3>3 DEF Remote
      <4> QED BY <1>3, <4>1, LenFacts
    <3>4. CASE p # q
      BY <1>2, <2>1, <3>1, <3>4 DEF Remote
    <3> QED BY <3>3, <3>4
  <2> QED BY <1>5, <2>1, <2>2 DEF Is, Pushed
<1>16. CASE CollectCount(t)
  <2>1. /\ remoteCount' = [remoteCount EXCEPT ![pg[t]] = (@ - Len(localFree[pg[t]])) % U16]
        /\ pc[t] = "collected" /\ pc'[t] = "pop" /\ UNCHANGED <<pg, localFree, remoteFree>>
    BY <1>2, <1>16, Zenon DEF CollectCount
  <2>2. pg[t] \in Page /\ owner[pg[t]] = t
    BY <2>1 DEF StructInv, RegistersOK, WorkOK
  <2>3. Is(Pushed, p, t)' = 0 /\ Is(Pushed, p, t) = 0
    BY <2>1 DEF Is, Pushed
  <2>4. CASE pg[t] = p
    <3>1. Collected(p) /\ ~Collected(p)'
      BY <1>1, <2>1, <2>2, <2>4 DEF Collected, OthersStay, WorkOK
    <3>2. PICK n \in Int : n = Len(localFree[p])
      BY <1>2, LenFacts
    <3>3. Remote(p) = Len(remoteFree[p]) + n /\ Remote(p)' = Len(remoteFree[p]) + 0
      BY <2>1, <3>1, <3>2 DEF Remote
    <3>4. /\ -n \in Int
          /\ Remote(p)' - Is(Pushed, p, t)' = Remote(p) - Is(Pushed, p, t) + (-n)
      <4>1. PICK r \in Int : r = Len(remoteFree[p])
        BY <1>3
      <4>2. Remote(p) = r + n /\ Remote(p)' = r
        BY <3>3, <4>1
      <4>3. -n \in Int
        OBVIOUS
      <4> QED BY <2>3, <4>2, <4>3
    <3>5. Adds(remoteCount[p], -n, remoteCount'[p])
      BY <1>2, <2>1, <2>4, <3>2 DEF Adds
    <3> QED BY <1>4, <3>4, <3>5
  <2>5. CASE pg[t] # p
    <3>1. Collected(p)' <=> Collected(p)
      BY <1>1, <2>1, <2>5 DEF Collected, OthersStay
    <3> QED BY <1>2, <1>5, <2>1, <2>3, <2>5, <3>1 DEF Remote
  <2> QED BY <2>4, <2>5
<1>17. ASSUME NEW q \in Page, PageTaken(t, q) PROVE remoteCount'[p] = Net(p)' % U16
  <2>1. /\ pc[t] = "new_page" /\ pc'[t] = "unlock" /\ pstate[q] = "UNUSED"
        /\ remoteCount' = [remoteCount EXCEPT ![q] = 0]
        /\ localFree' = [localFree EXCEPT ![q] = <<>>]
        /\ remoteFree' = [remoteFree EXCEPT ![q] = <<>>]
    BY <1>2, <1>17, Zenon DEF PageTaken, TakePage
  <2>2. CASE p # q
    <3>1. Collected(p)' <=> Collected(p)
      BY <1>1, <2>1, Collections
    <3>2. Remote(p)' = Remote(p)
      BY <1>2, <2>1, <2>2, <3>1 DEF Remote
    <3> QED BY <1>2, <1>5, <2>1, <2>2, <3>2 DEF Is, Pushed
  <2>3. CASE p = q
    <3>1. ~Collected(p)' /\ At(Pushed, p)' = {}
      BY <1>1, <2>1, <2>3 DEF Collected, At, OthersStay, WorkOK, Freed, Pushed
    <3>2. Net(p)' = 0
      <4>1. Remote(p)' = Len(<<>>) + 0
        BY <1>2, <2>1, <2>3, <3>1 DEF Remote
      <4> QED BY <3>1, <4>1, FS_EmptySet DEF Net
    <3>3. U16 \in Nat /\ U16 > 0
      BY DEF U16
    <3>4. 0 % U16 = 0
      BY <3>3, ModWraps
    <3> QED BY <1>2, <2>1, <2>3, <3>2, <3>4
  <2> QED BY <2>2, <2>3
<1>18. CASE \/ \E q \in Page : NewPage(t, q)
            \/ \E s \in Segments : NewSegment(t, s)
  BY <1>17, <1>18, PageTakenFacts DEF StructInv
<1> QED BY <1>7, <1>8, <1>9, <1>11, <1>12, <1>13, <1>14, <1>15, <1>16, <1>18, Zenon
        DEF Call, Step

\* The counters start at zero.
LEMMA BooksInit == Init => BooksInv
<1> SUFFICES ASSUME Init PROVE BooksInv
  OBVIOUS
<1>1. /\ pc = [t \in Threads |-> "idle"] /\ bump = [p \in Page |-> 0]
      /\ localFree = [p \in Page |-> <<>>] /\ remoteFree = [p \in Page |-> <<>>]
      /\ remoteCount = [p \in Page |-> 0] /\ used = [p \in Page |-> 0]
  BY DEF Init
<1>2. WorkOK
  BY <1>1 DEF WorkOK, Freed
<1>3. U16 \in Nat /\ U16 > 0
  BY DEF U16
<1>4. 0 % U16 = 0
  BY <1>3, ModWraps
<1>5. ASSUME NEW p \in Page PROVE used[p] = Out(p) % U16 /\ remoteCount[p] =
        (Remote(p) - Cardinality(At(Pushed, p))) % U16
  <2>1. At(Freed, p) = {} /\ At(Taken, p) = {} /\ At(Pushed, p) = {} /\ ~Collected(p)
    BY <1>1 DEF At, Freed, Taken, Pushed, Collected
  <2>2. Len(localFree[p]) = 0 /\ Len(remoteFree[p]) = 0 /\ bump[p] = 0
    BY <1>1
  <2>3. Out(p) = 0 /\ Remote(p) = 0 /\ Cardinality(At(Pushed, p)) = 0
    BY <2>1, <2>2, FS_EmptySet DEF Out, OffLists, Remote
  <2> QED BY <1>1, <1>4, <2>3
<1> QED BY <1>2, <1>5 DEF BooksInv, UsedOK, RemoteCountOK

\* BooksInv is inductive relative to the invariants of a serial execution.
LEMMA BooksStep ==
    StructInv /\ ExclusiveInv /\ BooksInv /\ [Next]_vars => BooksInv'
<1> SUFFICES ASSUME StructInv, ExclusiveInv, BooksInv, [Next]_vars PROVE BooksInv'
  OBVIOUS
<1>1. CASE Next
  <2>1. PICK t \in Threads : Call(t) \/ Step(t)
    BY <1>1 DEF Next
  <2>2. PageTypes'
    BY StructInvStep DEF StructInv, TypeOK
  <2>3. WorkOK /\ UsedOK /\ RemoteCountOK /\ BumpOK
    BY DEF BooksInv, ExclusiveInv
  <2> QED BY <2>1, <2>2, <2>3, WorkOKStep, UsedOKStep, RemoteCountOKStep DEF BooksInv
<1>2. CASE UNCHANGED vars
  <2>1. UNCHANGED <<pageVars, pc, pg>>
    BY <1>2 DEF vars
  <2>2. WorkOK'
    BY <2>1 DEF BooksInv, WorkOK
  <2>3. ASSUME NEW p \in Page PROVE Out(p)' = Out(p) /\ Remote(p)' = Remote(p)
                                    /\ At(Pushed, p)' = At(Pushed, p)
    BY <2>1, Zenon DEF Out, OffLists, Remote, Collected, At
  <2> QED BY <2>1, <2>2, <2>3, Zenon DEF BooksInv, UsedOK, RemoteCountOK
<1> QED BY <1>1, <1>2

\* In a serial execution the counters of a page can be explained at every moment.
LEMMA SerialBooks == SerialSpec => [](StructInv /\ ExclusiveInv /\ BooksInv)
<1>1. StructInv /\ ExclusiveInv /\ BooksInv /\ [Next /\ OwnerCheckHolds']_vars => BooksInv'
  BY BooksStep
<1> QED BY <1>1, BooksInit, SerialInv, PTL DEF SerialSpec

\* OffLists is what its name says, and at most the capacity.
LEMMA OffListsIs ==
    ASSUME StructInv, ExclusiveInv, NEW p \in Page
    PROVE  LET off == (0 .. bump[p] - 1) \ (Range(localFree[p]) \cup Range(remoteFree[p]))
           IN  /\ IsFiniteSet(off) /\ Cardinality(off) = OffLists(p)
               /\ OffLists(p) \in Nat /\ OffLists(p) <= Capacity
<1>1. PICK n, l, r : n = bump[p] /\ l = localFree[p] /\ r = remoteFree[p]
  OBVIOUS
<1>2. n \in Nat /\ n <= Capacity /\ l \in Seq(Slot) /\ r \in Seq(Slot)
  BY <1>1 DEF StructInv, TypeOK, PageTypes, ExclusiveInv, BumpOK
<1>3. IsFiniteSet(Slot)
  BY ConstantsAssumption, FS_Interval DEF Slot
<1>4. /\ IsInjective(l) /\ IsInjective(r) /\ Range(l) \cap Range(r) = {}
      /\ \A s \in Range(l) \cup Range(r) : s < n
  BY <1>1 DEF ExclusiveInv, FreeListsSound
<1>5. Range(l) \cup Range(r) \subseteq 0 .. n - 1
  <2>1. Range(l) \subseteq Slot /\ Range(r) \subseteq Slot
    BY <1>2 DEF Range
  <2> QED BY <1>2, <1>4, <2>1, ConstantsAssumption DEF Slot
<1>6. PICK off : off = (0 .. n - 1) \ (Range(l) \cup Range(r))
  OBVIOUS
<1>7. IsFiniteSet(off) /\ Cardinality(off) = n - Len(l) - Len(r)
  <2>1. /\ IsFiniteSet((0 .. n - 1) \ (Range(l) \cup Range(r)))
        /\ Cardinality((0 .. n - 1) \ (Range(l) \cup Range(r))) = n - Len(l) - Len(r)
    BY <1>2, <1>3, <1>4, <1>5, OffSize
  <2> QED BY <1>6, <2>1, Zenon
<1>8. Cardinality(off) \in Nat
  BY <1>7, FS_CardinalityType
<1>9. n - Len(l) - Len(r) <= Capacity
  <2>1. Len(l) \in Nat /\ Len(r) \in Nat
    BY <1>2
  <2> QED BY <1>2, <2>1, ConstantsAssumption
<1> QED BY <1>1, <1>6, <1>7, <1>8, <1>9 DEF OffLists

\* When no claim overtakes the owner check, a page between calls passes the test of
\* debug_heap_check: used, the free lists and the unused bump space add up to its
\* capacity, and remote_free_count is the length of its list.
THEOREM SerialHeapCheck == SerialSpec => []HeapCheck
<1>1. ASSUME StructInv, ExclusiveInv, BooksInv PROVE HeapCheck
  <2> SUFFICES ASSUME Quiet, NEW p \in Page
               PROVE  /\ used[p] + Len(localFree[p]) + Len(remoteFree[p]) + (Capacity - bump[p])
                           = Capacity
                      /\ remoteCount[p] = Len(remoteFree[p])
    BY DEF HeapCheck
  <2>1. At(Freed, p) = {} /\ At(Taken, p) = {} /\ At(Pushed, p) = {} /\ ~Collected(p)
    BY DEF Quiet, At, Freed, Taken, Pushed, Collected
  <2>2. /\ bump[p] \in Nat /\ Len(localFree[p]) \in Nat /\ Len(remoteFree[p]) \in Nat
        /\ OffLists(p) \in Nat /\ OffLists(p) <= Capacity /\ bump[p] <= Capacity
    BY <1>1, OffListsIs, LenFacts DEF StructInv, TypeOK, PageTypes, ExclusiveInv, BumpOK
  <2>3. U16 \in Nat /\ U16 > 0 /\ Capacity < U16 /\ Capacity \in Nat
    BY WidthAssumption, ConstantsAssumption DEF U16
  <2>4. Out(p) = OffLists(p) /\ Remote(p) - Cardinality(At(Pushed, p)) = Len(remoteFree[p])
    BY <2>1, <2>2, FS_EmptySet DEF Out, Remote
  <2>5. Len(remoteFree[p]) < U16 /\ OffLists(p) < U16
    BY <2>2, <2>3 DEF OffLists
  <2>6. Len(remoteFree[p]) % U16 = Len(remoteFree[p]) /\ OffLists(p) % U16 = OffLists(p)
    <3>1. ASSUME NEW x \in Nat, x < U16 PROVE x % U16 = x
      BY <2>3, <3>1, ModWraps
    <3> QED BY <2>2, <2>5, <3>1
  <2>7. used[p] = OffLists(p) /\ remoteCount[p] = Len(remoteFree[p])
    BY <1>1, <2>4, <2>6 DEF BooksInv, UsedOK, RemoteCountOK
  <2>8. OffLists(p) + Len(localFree[p]) + Len(remoteFree[p]) + (Capacity - bump[p]) = Capacity
    BY <2>2, <2>3 DEF OffLists
  <2> QED BY <2>7, <2>8
<1> QED BY <1>1, SerialBooks, PTL

\* ... and a page with used = 0 holds no block of the program, even while calls are under
\* way, as long as used has not wrapped around.
THEOREM SerialEmptyPage == SerialSpec => [](FewFrees => EmptyPageHasNoBlocks)
<1>1. ASSUME StructInv, ExclusiveInv, BooksInv, FewFrees, NEW b \in live
      PROVE  used[PageOf(b)] # 0
  <2>1. PICK p : p = PageOf(b)
    OBVIOUS
  <2>2. p \in Page /\ b \in Block /\ SlotOf(b) \in Slot /\ b = <<p, SlotOf(b)>>
    BY <1>1, <2>1, BlockFacts DEF StructInv, TypeOK, ProgTypes
  <2>3. PICK off : off = (0 .. bump[p] - 1) \ (Range(localFree[p]) \cup Range(remoteFree[p]))
    OBVIOUS
  <2>4. /\ IsFiniteSet(off) /\ Cardinality(off) = OffLists(p)
        /\ OffLists(p) \in Nat /\ OffLists(p) <= Capacity
    BY <1>1, <2>2, <2>3, OffListsIs
  <2>5. bump[p] \in Nat /\ Capacity \in Nat
    BY <1>1, <2>2, ConstantsAssumption DEF StructInv, TypeOK, PageTypes
  <2>6. SlotOf(b) \in off
    <3>1. SlotOf(b) < bump[p]
      BY <1>1, <2>1 DEF ExclusiveInv, BumpOK
    <3>2. SlotOf(b) \notin Range(localFree[p]) \cup Range(remoteFree[p])
      BY <1>1, <2>2 DEF ExclusiveInv, FreeListsSound
    <3> QED BY <2>2, <2>3, <2>5, <3>1, <3>2 DEF Slot
  <2>7. ASSUME NEW t \in At(Taken, p)
        PROVE  /\ hand[t] # NULL /\ hand[t] = <<p, SlotOf(hand[t])>>
               /\ SlotOf(hand[t]) \in off \ {SlotOf(b)}
    <3>1. t \in Threads /\ pc[t] \in Taken /\ pg[t] = p
      BY <2>7 DEF At
    <3>2. hand[t] \in Address /\ PageOf(hand[t]) = p
      BY <1>1, <3>1 DEF StructInv, RegistersOK, Holding, Taken
    <3>3. hand[t] # NULL /\ hand[t] = <<p, SlotOf(hand[t])>>
      BY <3>2, SentinelAssumption DEF Address, PageOf, SlotOf
    <3>4. hand[t] \in Block /\ hand[t] \notin live
      BY <1>1, <3>1, <3>3 DEF ExclusiveInv, NoDoubleAlloc
    <3>5. SlotOf(hand[t]) \in Slot /\ SlotOf(hand[t]) # SlotOf(b)
      BY <1>1, <2>2, <3>3, <3>4, BlockFacts
    <3>6. SlotOf(hand[t]) < bump[p]
      BY <1>1, <3>1 DEF ExclusiveInv, BumpOK, Taken, Holding, Bumping
    <3>7. SlotOf(hand[t]) \notin Range(localFree[p]) \cup Range(remoteFree[p])
      BY <1>1, <2>2, <3>1, <3>3 DEF ExclusiveInv, FreeListsSound
    <3> QED BY <2>3, <2>5, <3>3, <3>5, <3>6, <3>7 DEF Slot
  <2>8. Cardinality(At(Taken, p)) <= OffLists(p) - 1
    <3>1. PICK T : T = off \ {SlotOf(b)}
      OBVIOUS
    <3>2. IsFiniteSet(T) /\ Cardinality(T) = OffLists(p) - 1
      BY <2>4, <2>6, <3>1, FS_RemoveElement
    <3>3. PICK f : f = [t \in At(Taken, p) |-> SlotOf(hand[t])]
      OBVIOUS
    <3>4. ASSUME NEW t \in At(Taken, p), NEW u \in At(Taken, p), f[t] = f[u] PROVE t = u
      <4>1. SlotOf(hand[t]) = SlotOf(hand[u])
        BY <3>3, <3>4
      <4>2. hand[t] = hand[u] /\ hand[t] # NULL
        BY <2>7, <4>1
      <4>3. t \in Threads /\ u \in Threads
        BY DEF At
      <4> QED BY <1>1, <4>2, <4>3 DEF ExclusiveInv, NoDoubleAlloc
    <3>5. f \in [At(Taken, p) -> T]
      BY <2>7, <3>1, <3>3
    <3>6. f \in Injection(At(Taken, p), T)
      BY <3>4, <3>5 DEF Injection, IsInjective
    <3> QED BY <3>2, <3>6, FS_Injection
  <2>9. /\ Cardinality(At(Freed, p)) \in Nat /\ Cardinality(At(Taken, p)) \in Nat
        /\ Capacity + Cardinality(At(Freed, p)) < U16
    <3>1. At(Freed, p) \subseteq Threads /\ At(Taken, p) \subseteq Threads
      BY DEF At
    <3> QED BY <1>1, <2>2, <3>1, WidthAssumption, FS_Subset, FS_CardinalityType DEF FewFrees
  <2>10. Out(p) \in Nat /\ 0 < Out(p) /\ Out(p) < U16 /\ U16 \in Nat
    BY <2>4, <2>5, <2>8, <2>9 DEF Out, U16
  <2>11. Out(p) % U16 = Out(p)
    BY <2>10, ModWraps
  <2>12. used[p] = Out(p)
    BY <1>1, <2>2, <2>11 DEF BooksInv, UsedOK
  <2> QED BY <2>1, <2>10, <2>12
<1>2. StructInv /\ ExclusiveInv /\ BooksInv => (FewFrees => EmptyPageHasNoBlocks)
  BY <1>1 DEF EmptyPageHasNoBlocks
<1> QED BY <1>2, SerialBooks, PTL

-----------------------------------------------------------------------------
(* The statistics of the arenas.                                           *)

\* What thread t has counted for arena a and not flushed, and whether it is between.
Unflushed(t, a) == IF tldArena[t] = a THEN tldNet[t] ELSE 0
Carries(t, a)   == IF pc[t] \in Between /\ ArenaOf(pg[t]) = a THEN 1 ELSE 0

\* In a step of t, what the threads have not flushed changes by what t has not flushed.
LEMMA UnflushedStep ==
    ASSUME TypeOK, TypeOK', NEW t \in Threads, Call(t) \/ Step(t), NEW a
    PROVE  /\ SumFunctionOnSet(tldNet, Clients(a)) \in Int
           /\ SumFunctionOnSet(tldNet, Clients(a))'
                = SumFunctionOnSet(tldNet, Clients(a)) + Unflushed(t, a)' - Unflushed(t, a)
<1>1. PICK C, D, f, g : C = Clients(a) /\ D = Clients(a)' /\ f = tldNet /\ g = tldNet'
  OBVIOUS
<1>2. f \in [Threads -> Int] /\ g \in [Threads -> Int] /\ C \subseteq Threads /\ D \subseteq Threads
  BY <1>1 DEF TypeOK, StatTypes, Clients
<1>3. IsFiniteSet(C) /\ IsFiniteSet(D)
  BY <1>2, WidthAssumption, FS_Subset
<1>4. C \ {t} = D \ {t} /\ \A x \in C \ {t} : f[x] = g[x]
  BY <1>1, SegmentsStay DEF Clients
<1>5. /\ SumFunctionOnSet(f, C) \in Int
      /\ SumFunctionOnSet(g, D) = SumFunctionOnSet(f, C) + (IF t \in D THEN g[t] ELSE 0)
                                                         - (IF t \in C THEN f[t] ELSE 0)
  BY <1>2, <1>3, <1>4, SumMoves
<1>6. /\ Unflushed(t, a) = (IF t \in C THEN f[t] ELSE 0)
      /\ Unflushed(t, a)' = (IF t \in D THEN g[t] ELSE 0)
  BY <1>1 DEF Unflushed, Clients
<1> QED BY <1>1, <1>5, <1>6, Zenon

\* ... and so do the calls between the program and the lists.
LEMMA BetweenStep ==
    ASSUME StructInv, WorkOK, NEW t \in Threads, Call(t) \/ Step(t), OthersStay(t), NEW a
    PROVE  /\ Cardinality(BetweenIn(a)) \in Nat
           /\ Cardinality(BetweenIn(a))'
                = Cardinality(BetweenIn(a)) + Carries(t, a)' - Carries(t, a)
<1>1. PICK C, D : C = BetweenIn(a) /\ D = BetweenIn(a)'
  OBVIOUS
<1>2. IsFiniteSet(C) /\ IsFiniteSet(D)
  <2>1. C \subseteq Threads /\ D \subseteq Threads
    BY <1>1 DEF BetweenIn
  <2> QED BY <2>1, WidthAssumption, FS_Subset
<1>3. ASSUME NEW u \in Threads \ {t} PROVE u \in C <=> u \in D
  <2>1. pc'[u] = pc[u] /\ pg'[u] = pg[u]
    BY DEF OthersStay
  <2>2. pc[u] \in Between => ArenaOf(pg[u])' = ArenaOf(pg[u])
    BY <2>1, BetweenPages, ArenaStays DEF StructInv, ArenaOf
  <2> QED BY <1>1, <2>1, <2>2 DEF BetweenIn
<1>4. C \ {t} = D \ {t}
  BY <1>1, <1>3 DEF BetweenIn
<1>5. /\ Cardinality(C) \in Nat
      /\ Cardinality(D) = Cardinality(C) + (IF t \in D THEN 1 ELSE 0)
                                         - (IF t \in C THEN 1 ELSE 0)
  BY <1>2, <1>4, CardMoves
<1>6. /\ Carries(t, a) = (IF t \in C THEN 1 ELSE 0)
      /\ Carries(t, a)' = (IF t \in D THEN 1 ELSE 0)
  BY <1>1 DEF Carries, BetweenIn
<1> QED BY <1>1, <1>5, <1>6, Zenon

\* The blocks of an arena change with the one block that is handed out or freed.
LEMMA LiveStep ==
    ASSUME StructInv, IsFiniteSet(live), NEW t \in Threads, Call(t) \/ Step(t), NEW a,
           NEW b \in Block, pstate[PageOf(b)] = "ACTIVE", live' \ {b} = live \ {b}
    PROVE  /\ IsFiniteSet(live') /\ Cardinality(LiveIn(a)) \in Nat
           /\ Cardinality(LiveIn(a))' = Cardinality(LiveIn(a))
                + (IF b \in live' /\ ArenaOf(PageOf(b)) = a THEN 1 ELSE 0)
                - (IF b \in live /\ ArenaOf(PageOf(b)) = a THEN 1 ELSE 0)
<1>1. PICK C, D : C = LiveIn(a) /\ D = LiveIn(a)'
  OBVIOUS
<1>2. IsFiniteSet(live')
  <2>1. IsFiniteSet(live \cup {b}) /\ live' \subseteq live \cup {b}
    BY FS_AddElement
  <2> QED BY <2>1, FS_Subset
<1>3. IsFiniteSet(C) /\ IsFiniteSet(D)
  <2>1. C \subseteq live /\ D \subseteq live'
    BY <1>1 DEF LiveIn
  <2> QED BY <1>2, <2>1, FS_Subset
<1>4. \A c \in live \cup {b} : ArenaOf(PageOf(c))' = ArenaOf(PageOf(c))
  <2>1. ASSUME NEW c \in live \cup {b} PROVE PageOf(c) \in Page /\ pstate[PageOf(c)] = "ACTIVE"
    BY BlockFacts DEF StructInv, TypeOK, ProgTypes, PagesOK
  <2>2. ASSUME NEW p \in Page, pstate[p] = "ACTIVE" PROVE ArenaOf(p)' = ArenaOf(p)
    BY <2>2, ArenaStays DEF StructInv
  <2>3. ASSUME NEW c \in live \cup {b} PROVE ArenaOf(PageOf(c))' = ArenaOf(PageOf(c))
    <3>1. PICK p \in Page : p = PageOf(c) /\ pstate[p] = "ACTIVE"
      BY <2>1
    <3> QED BY <2>2, <3>1 DEF ArenaOf
  <2> QED BY <2>3
<1>5. C \ {b} = D \ {b}
  BY <1>1, <1>4 DEF LiveIn
<1>6. /\ Cardinality(C) \in Nat
      /\ Cardinality(D) = Cardinality(C) + (IF b \in D THEN 1 ELSE 0)
                                         - (IF b \in C THEN 1 ELSE 0)
  BY <1>3, <1>5, CardMoves
<1>7. /\ b \in C <=> b \in live /\ ArenaOf(PageOf(b)) = a
      /\ b \in D <=> b \in live' /\ ArenaOf(PageOf(b)) = a
  BY <1>1, <1>4 DEF LiveIn
<1> QED BY <1>1, <1>2, <1>6, <1>7

\* What the program holds stays where it is.
LEMMA LiveSame ==
    ASSUME StructInv, NEW t \in Threads, Call(t) \/ Step(t), live' = live, NEW a
    PROVE  LiveIn(a)' = LiveIn(a)
<1>1. ASSUME NEW c \in live PROVE ArenaOf(PageOf(c))' = ArenaOf(PageOf(c))
  <2>1. PICK p \in Page : p = PageOf(c) /\ pstate[p] = "ACTIVE"
    BY BlockFacts DEF StructInv, TypeOK, ProgTypes, PagesOK
  <2> QED BY <2>1, ArenaStays DEF StructInv, ArenaOf
<1> QED BY <1>1 DEF LiveIn

\* tld_stat_alloc and tld_stat_free count for the thread's arena, flushed or not.
LEMMA StatOpAdds ==
    ASSUME TypeOK, NEW t \in Threads, tldArena[t] \in Arenas, NEW d \in Int, StatOp(t, d),
           tldArena' = tldArena, NEW a \in Arenas
    PROVE  arenaNet'[a] + Unflushed(t, a)'
             = arenaNet[a] + Unflushed(t, a) + IF tldArena[t] = a THEN d ELSE 0
<1> DEFINE flush == statOps[t] + 1 >= FlushInterval
<1>1. arenaNet \in [Arenas -> Int] /\ tldNet \in [Threads -> Int]
  BY DEF TypeOK, StatTypes
<1>2. PICK n \in Int, m \in Int : n = arenaNet[a] /\ m = tldNet[t]
  BY <1>1
<1>3. /\ tldNet' = [tldNet EXCEPT ![t] = IF flush THEN 0 ELSE @ + d]
      /\ arenaNet' = [arenaNet EXCEPT
                      ![tldArena[t]] = IF flush THEN @ + tldNet[t] + d ELSE @]
  BY DEF StatOp
<1> HIDE DEF flush
<1>4. CASE tldArena[t] = a
  <2>1. /\ tldNet'[t] = (IF flush THEN 0 ELSE m + d)
        /\ arenaNet'[a] = IF flush THEN n + m + d ELSE n
    BY <1>1, <1>2, <1>3, <1>4, Zenon
  <2>2. Unflushed(t, a) = m /\ Unflushed(t, a)' = (IF flush THEN 0 ELSE m + d)
    BY <1>2, <1>4, <2>1 DEF Unflushed
  <2>3. arenaNet'[a] + Unflushed(t, a)' = n + m + d
    BY <2>1, <2>2
  <2> QED BY <1>2, <1>4, <2>2, <2>3
<1>5. CASE tldArena[t] # a
  <2>1. arenaNet'[a] = n
    BY <1>1, <1>2, <1>3, <1>5, Zenon
  <2> QED BY <1>2, <1>5, <2>1 DEF Unflushed
<1> QED BY <1>4, <1>5

\* The statistics of arena a are right.
Balanced(a) ==
    arenaNet[a] + SumFunctionOnSet(tldNet, Clients(a))
      = Cardinality(LiveIn(a)) + Cardinality(BetweenIn(a))

\* They stay right when what t counts is what it does.
LEMMA BalanceFollows ==
    ASSUME StructInv, TypeOK', WorkOK, NEW t \in Threads, Call(t) \/ Step(t), OthersStay(t),
           NEW a \in Arenas, Balanced(a), NEW d \in Int,
           Cardinality(LiveIn(a)) \in Nat
    PROVE  /\ Cardinality(LiveIn(a))' = Cardinality(LiveIn(a)) + d
           /\ arenaNet'[a] + Unflushed(t, a)' - Carries(t, a)'
                = arenaNet[a] + Unflushed(t, a) - Carries(t, a) + d
           => Balanced(a)'
<1>0. SUFFICES ASSUME Cardinality(LiveIn(a))' = Cardinality(LiveIn(a)) + d,
                      arenaNet'[a] + Unflushed(t, a)' - Carries(t, a)'
                        = arenaNet[a] + Unflushed(t, a) - Carries(t, a) + d
               PROVE  Balanced(a)'
  OBVIOUS
<1>1. PICK n \in Int, m \in Int : n = arenaNet[a] /\ m = arenaNet'[a]
  BY DEF StructInv, TypeOK, StatTypes
<1>2. PICK v \in Int, w \in Int : v = Unflushed(t, a) /\ w = Unflushed(t, a)'
  BY DEF StructInv, TypeOK, StatTypes, Unflushed
<1>3. PICK x \in Int, y \in Int : x = Carries(t, a) /\ y = Carries(t, a)'
  BY DEF Carries
<1>4. PICK s \in Int : /\ s = SumFunctionOnSet(tldNet, Clients(a))
                       /\ SumFunctionOnSet(tldNet, Clients(a))' = s + w - v
  BY <1>2, UnflushedStep DEF StructInv
<1>5. PICK k \in Int : /\ k = Cardinality(BetweenIn(a))
                       /\ Cardinality(BetweenIn(a))' = k + y - x
  BY <1>3, BetweenStep
<1>6. PICK l \in Int : l = Cardinality(LiveIn(a)) /\ Cardinality(LiveIn(a))' = l + d
  BY <1>0
<1>7. n + s = l + k /\ m + w - y = n + v - x + d
  BY <1>0, <1>1, <1>2, <1>3, <1>4, <1>5, <1>6 DEF Balanced
<1>8. m + (s + w - v) = (l + d) + (k + y - x)
  BY <1>7
<1> QED BY <1>1, <1>4, <1>5, <1>6, <1>8 DEF Balanced

\* The statistics of an arena stay right.
LEMMA BalanceStep ==
    ASSUME StructInv, TypeOK', NoDoubleAlloc, WorkOK, HomeOK, IsFiniteSet(live),
           NEW t \in Threads, Call(t) \/ Step(t),
           NEW a \in Arenas, Registered(a), Balanced(a)
    PROVE  Balanced(a)'
<1>1. OthersStay(t)
  BY CallStep, CallMovesFacts DEF StructInv, TypeOK, OthersStay
<1>2. /\ pc \in [Threads -> Labels] /\ pg \in [Threads -> Page \cup {NULL}]
      /\ arenaNet \in [Arenas -> Int] /\ tldNet \in [Threads -> Int]
      /\ tldArena \in [Threads -> Arenas \cup {NULL}]
  BY DEF StructInv, TypeOK, TldTypes, CallTypes, StatTypes
<1>3. /\ arenaNet[a] \in Int /\ Unflushed(t, a) \in Int /\ Carries(t, a) \in Int
      /\ a # NULL /\ Cardinality(LiveIn(a)) \in Nat
  <2>1. LiveIn(a) \subseteq live
    BY DEF LiveIn
  <2>2. Cardinality(LiveIn(a)) \in Nat
    BY <2>1, FS_Subset, FS_CardinalityType
  <2> QED BY <1>2, <2>2, SentinelAssumption DEF Unflushed, Carries
<1>3a. PICK n \in Int, m \in Int, v \in Int, w \in Int, x \in Int, y \in Int :
         /\ n = arenaNet[a] /\ m = arenaNet'[a]
         /\ v = Unflushed(t, a) /\ w = Unflushed(t, a)'
         /\ x = Carries(t, a) /\ y = Carries(t, a)'
  <2>1. arenaNet' \in [Arenas -> Int] /\ tldNet' \in [Threads -> Int]
    BY Zenon DEF TypeOK, StatTypes
  <2>2. arenaNet'[a] \in Int /\ tldNet'[t] \in Int /\ 0 \in Int /\ 1 \in Int
    BY <2>1
  <2>3. Unflushed(t, a)' \in Int
    BY <2>2, Zenon DEF Unflushed
  <2>4. Carries(t, a)' \in Int
    BY <2>2, Zenon DEF Carries
  <2> QED BY <1>3, <2>2, <2>3, <2>4, Zenon
<1>4. ASSUME NEW d \in Int, Cardinality(LiveIn(a))' = Cardinality(LiveIn(a)) + d,
             m + w - y = n + v - x + d
      PROVE  Balanced(a)'
  <2>1. arenaNet'[a] + Unflushed(t, a)' - Carries(t, a)'
               = arenaNet[a] + Unflushed(t, a) - Carries(t, a) + d
    BY <1>3a, <1>4, Zenon
  <2> QED BY <1>1, <1>3, <1>4, <2>1, BalanceFollows, Zenon
<1>5. ASSUME LiveIn(a)' = LiveIn(a), m + w - y = n + v - x
      PROVE  Balanced(a)'
  <2>1. Cardinality(LiveIn(a))' = Cardinality(LiveIn(a)) + 0
    BY <1>3, <1>5
  <2>2. 0 \in Int /\ m + w - y = n + v - x + 0
    BY <1>5
  <2> QED BY <1>4, <2>1, <2>2, Zenon
<1>6. ASSUME LiveIn(a)' = LiveIn(a), UNCHANGED <<arenaNet, tldNet, tldArena>>,
             Carries(t, a)' = Carries(t, a)
      PROVE  Balanced(a)'
  <2>1. m = n /\ w = v /\ y = x
    BY <1>3a, <1>6, Zenon DEF Unflushed
  <2> QED BY <1>5, <1>6, <2>1, Zenon
<1>7. CASE /\ UNCHANGED <<arenaNet, tldNet, tldArena, live>>
           /\ pc[t] \notin Between /\ pc'[t] \notin Between
  BY <1>6, <1>7, LiveSame DEF Carries
<1>8. CASE \/ AllocPop(t) \/ AllocBump(t) \/ AllocFull(t) \/ AllocUncached(t)
           \/ AllocCollect(t) \/ CollectCount(t) \/ FastRead(t) \/ FastBump(t) \/ Lock(t)
           \/ ScanEnd(t) \/ ScanUnowned(t) \/ ScanRoom(t) \/ ScanFull(t)
           \/ SlowRead(t) \/ SlowBump(t) \/ NoMemory(t)
  BY <1>2, <1>7, <1>8, Zenon DEF AllocPop, AllocBump, AllocFull, AllocUncached, AllocCollect,
    CollectCount, FastRead, FastBump, Lock, ScanEnd, ScanUnowned, ScanRoom, ScanFull,
    SlowRead, SlowBump, NoMemory, BumpRead, BumpStore, Return, Between
<1>9. CASE ScanOwned(t)
  <2>1. UNCHANGED <<arenaNet, tldNet, tldArena, live, pc>> /\ pc[t] = "scan"
    BY <1>9, Zenon DEF ScanOwned
  <2> QED BY <1>7, <2>1, Zenon DEF Between
<1>10. CASE Unlock(t) \/ RemotePush(t) \/ RemoteCount(t)
  <2>1. /\ pc[t] \in Between /\ pc'[t] \in Between
        /\ UNCHANGED <<arenaNet, tldNet, tldArena, live, pg, segArena>>
    BY <1>2, <1>10, Zenon DEF Unlock, RemotePush, RemoteCount, Between
  <2> QED BY <1>6, <2>1, LiveSame DEF Carries, ArenaOf
<1>11. CASE ArenaGet(t)
  <2>1. /\ pc[t] \notin Between /\ pc'[t] \notin Between /\ UNCHANGED <<arenaNet, tldNet, live>>
        /\ tldArena' = [tldArena EXCEPT ![t] = IF @ = NULL THEN arenaNext % NumArenas ELSE @]
    BY <1>2, <1>11, Zenon DEF ArenaGet, Between
  <2>2. Unflushed(t, a)' = Unflushed(t, a)
    BY <1>2, <1>3, <2>1 DEF Unflushed, HomeOK
  <2>3. Carries(t, a)' = Carries(t, a)
    BY <2>1 DEF Carries
  <2>4. m = n /\ w = v /\ y = x
    BY <1>3a, <2>1, <2>2, <2>3, Zenon
  <2>5. LiveIn(a)' = LiveIn(a)
    BY <2>1, LiveSame
  <2> QED BY <1>5, <2>4, <2>5, Zenon
<1>12. ASSUME arenaNet' = [arenaNet EXCEPT ![tldArena[t]] = @ + 1], tldArena[t] \in Arenas,
              UNCHANGED <<tldNet, tldArena, live>>, pc[t] \notin Between, pc'[t] \in Between,
              ArenaOf(pg[t])' = tldArena[t]
       PROVE  Balanced(a)'
  <2>1. PICK k \in Int : k = IF tldArena[t] = a THEN 1 ELSE 0
    OBVIOUS
  <2>2. arenaNet'[a] = arenaNet[a] + k
    BY <1>2, <1>12, <2>1
  <2>3. Carries(t, a) = 0 /\ Carries(t, a)' = k /\ Unflushed(t, a)' = Unflushed(t, a)
    BY <1>12, <2>1 DEF Carries, Unflushed
  <2>4. m = n + k /\ w = v /\ x = 0 /\ y = k
    BY <1>3a, <2>2, <2>3, Zenon
  <2>5. m + w - y = n + v - x
    BY <2>4
  <2> QED BY <1>5, <1>12, <2>5, LiveSame
<1>13. CASE SlowUsed(t)
  <2>1. /\ arenaNet' = [arenaNet EXCEPT ![tldArena[t]] = @ + 1] /\ pc[t] = "slow_used"
        /\ UNCHANGED <<tldNet, tldArena, live, pg, segArena>> /\ pc'[t] = "unlock"
    BY <1>2, <1>13, Zenon DEF SlowUsed
  <2>2. tldArena[t] \in Arenas /\ ArenaOf(pg[t])' = tldArena[t]
    BY <2>1 DEF StructInv, LocksOK, Locked, ArenasOK, OnPage, ArenaOf
  <2> QED BY <1>12, <2>1, <2>2 DEF Between
<1>14. ASSUME NEW q \in Page, PageTaken(t, q) PROVE Balanced(a)'
  <2>1. /\ arenaNet' = [arenaNet EXCEPT ![tldArena[t]] = @ + 1] /\ pc[t] = "new_page"
        /\ UNCHANGED <<tldNet, tldArena, live>> /\ pc'[t] = "unlock" /\ pg'[t] = q
        /\ segArena'[SegmentOf(q)] = tldArena[t]
    BY <1>2, <1>14, Zenon DEF PageTaken, TakePage
  <2>2. tldArena[t] \in Arenas /\ ArenaOf(pg[t])' = tldArena[t]
    BY <2>1 DEF StructInv, LocksOK, Locked, ArenaOf
  <2> QED BY <1>12, <2>1, <2>2 DEF Between
<1>15. CASE \/ \E q \in Page : NewPage(t, q)
            \/ \E s \in Segments : NewSegment(t, s)
  BY <1>14, <1>15, PageTakenFacts DEF StructInv
<1>16. ASSUME pc[t] \in Holding, Deliver(t)
       PROVE  Cardinality(LiveIn(a))'
                = Cardinality(LiveIn(a)) + IF ArenaOf(pg[t]) = a THEN 1 ELSE 0
  <2>1. hand[t] \in Address /\ pg[t] = PageOf(hand[t]) /\ pstate[pg[t]] = "ACTIVE"
    BY <1>16 DEF StructInv, RegistersOK, PagesOK
  <2>2. hand[t] \in Block /\ hand[t] \notin live
    BY <2>1, SentinelAssumption DEF NoDoubleAlloc
  <2>3. live' \ {hand[t]} = live \ {hand[t]} /\ hand[t] \in live'
    BY <1>16, <2>2 DEF Deliver
  <2>4. PICK b \in Block : b = hand[t]
    BY <2>2
  <2>5. Cardinality(LiveIn(a))' = Cardinality(LiveIn(a))
                + (IF b \in live' /\ ArenaOf(PageOf(b)) = a THEN 1 ELSE 0)
                - (IF b \in live /\ ArenaOf(PageOf(b)) = a THEN 1 ELSE 0)
    BY <2>1, <2>3, <2>4, LiveStep
  <2> QED BY <1>3, <2>1, <2>2, <2>3, <2>4, <2>5
<1>17. CASE Claim(t) \/ ClaimFails(t)
  <2>1. /\ pc[t] = "claim" /\ pc'[t] = "idle" /\ Deliver(t)
        /\ UNCHANGED <<arenaNet, tldNet, tldArena>>
    BY <1>2, <1>17, Zenon DEF Claim, ClaimFails, Return
  <2>2. PICK k \in Int : k = IF ArenaOf(pg[t]) = a THEN 1 ELSE 0
    OBVIOUS
  <2>3. Carries(t, a) = k /\ Carries(t, a)' = 0 /\ Unflushed(t, a)' = Unflushed(t, a)
    BY <2>1, <2>2 DEF Carries, Unflushed, Between
  <2>4. Cardinality(LiveIn(a))' = Cardinality(LiveIn(a)) + k
    BY <1>16, <2>1, <2>2 DEF Holding
  <2>5. m = n /\ w = v /\ x = k /\ y = 0
    BY <1>3a, <2>1, <2>3, Zenon
  <2>6. m + w - y = n + v - x + k
    BY <2>5
  <2> QED BY <1>4, <2>4, <2>6, Zenon
<1>18. ASSUME pc[t] \in {"fast_used", "local_used"}
       PROVE  tldArena[t] \in Arenas /\ ArenaOf(pg[t]) = tldArena[t]
  <2>1. owner[pg[t]] = t /\ pg[t] \in Page
    BY <1>18, HeldPages DEF HomeOK, StructInv, RegistersOK, Holding
  <2>2. ArenaOf(pg[t]) = tldArena[t] /\ ArenaOf(pg[t]) # NULL
    BY <1>18, <2>1, OwnedPages DEF HomeOK, StructInv
  <2> QED BY <1>2, <2>2
<1>19. CASE FastUsed(t)
  <2>1. /\ pc[t] = "fast_used" /\ pc'[t] = "idle" /\ Deliver(t)
        /\ StatOp(t, 1) /\ tldArena' = tldArena
    BY <1>2, <1>19, Zenon DEF FastUsed, Return
  <2>2. PICK k \in Int : k = IF tldArena[t] = a THEN 1 ELSE 0
    OBVIOUS
  <2>3. arenaNet'[a] + Unflushed(t, a)'
          = arenaNet[a] + Unflushed(t, a) + IF tldArena[t] = a THEN 1 ELSE 0
    BY <1>18, <2>1, OneFacts, StatOpAdds DEF StructInv
  <2>4. Carries(t, a) = 0 /\ Carries(t, a)' = 0
    BY <2>1 DEF Carries, Between
  <2>5. Cardinality(LiveIn(a))' = Cardinality(LiveIn(a)) + k
    BY <1>16, <1>18, <2>1, <2>2 DEF Holding
  <2>6. m + w = n + v + k /\ x = 0 /\ y = 0
    BY <1>3a, <2>2, <2>3, <2>4, Zenon
  <2>7. m + w - y = n + v - x + k
    BY <2>6
  <2> QED BY <1>4, <2>5, <2>7, Zenon
<1>20. CASE LocalUsed(t)
  <2>1. /\ pc[t] = "local_used" /\ pc'[t] = "idle" /\ live' = live
        /\ StatOp(t, -1) /\ tldArena' = tldArena
    BY <1>2, <1>20, Zenon DEF LocalUsed, Return
  <2>2. arenaNet'[a] + Unflushed(t, a)'
          = arenaNet[a] + Unflushed(t, a) + IF tldArena[t] = a THEN -1 ELSE 0
    BY <1>18, <2>1, OneFacts, StatOpAdds DEF StructInv
  <2>3. Carries(t, a) = (IF tldArena[t] = a THEN 1 ELSE 0) /\ Carries(t, a)' = 0
    BY <1>18, <2>1, Zenon DEF Carries, Between
  <2>4. /\ m + w = n + v + IF tldArena[t] = a THEN -1 ELSE 0
        /\ x = (IF tldArena[t] = a THEN 1 ELSE 0) /\ y = 0
    BY <1>3a, <2>2, <2>3, Zenon
  <2>5. m + w - y = n + v - x
    BY <2>4
  <2> QED BY <1>5, <2>1, <2>5, LiveSame
<1>21. CASE RemoteUsed(t)
  <2>1. /\ pc[t] = "remote_used" /\ pc'[t] = "idle"
        /\ arenaNet' = [arenaNet EXCEPT ![ArenaOf(pg[t])] = @ - 1]
        /\ UNCHANGED <<tldNet, tldArena, live>>
    BY <1>2, <1>21, Zenon DEF RemoteUsed, Return, ArenaOf
  <2>2. PICK k \in Int : k = IF ArenaOf(pg[t]) = a THEN 1 ELSE 0
    OBVIOUS
  <2>3. arenaNet'[a] = arenaNet[a] - k
    BY <1>2, <2>1, <2>2
  <2>4. Carries(t, a) = k /\ Carries(t, a)' = 0 /\ Unflushed(t, a)' = Unflushed(t, a)
    BY <2>1, <2>2 DEF Carries, Unflushed, Between
  <2>5. m = n - k /\ w = v /\ x = k /\ y = 0
    BY <1>3a, <2>3, <2>4, Zenon
  <2>6. m + w - y = n + v - x
    BY <2>5
  <2> QED BY <1>5, <2>1, <2>6, LiveSame
<1>22. ASSUME NEW b \in live, FreeLocal(t, b) \/ FreeRemote(t, b) PROVE Balanced(a)'
  <2>1. /\ pc[t] = "idle" /\ pc'[t] \in Between /\ pg'[t] = PageOf(b) /\ live' = live \ {b}
        /\ UNCHANGED <<arenaNet, tldNet, tldArena, segArena>>
    BY <1>2, <1>22, Zenon DEF FreeLocal, FreeRemote, Between
  <2>2. b \in Block /\ pstate[PageOf(b)] = "ACTIVE"
    BY DEF StructInv, TypeOK, ProgTypes, PagesOK
  <2>3. PICK k \in Int : k = IF ArenaOf(PageOf(b)) = a THEN 1 ELSE 0
    OBVIOUS
  <2>4. Cardinality(LiveIn(a))' = Cardinality(LiveIn(a)) + (-k)
    <3>1. live' \ {b} = live \ {b} /\ b \notin live'
      BY <2>1
    <3>2. Cardinality(LiveIn(a))' = Cardinality(LiveIn(a))
                + (IF b \in live' /\ ArenaOf(PageOf(b)) = a THEN 1 ELSE 0)
                - (IF b \in live /\ ArenaOf(PageOf(b)) = a THEN 1 ELSE 0)
      BY <2>2, <3>1, LiveStep
    <3> QED BY <1>3, <2>3, <3>1, <3>2
  <2>5. Carries(t, a) = 0 /\ Carries(t, a)' = k /\ Unflushed(t, a)' = Unflushed(t, a)
    BY <2>1, <2>3 DEF Carries, Unflushed, Between, ArenaOf
  <2>6. m = n /\ w = v /\ x = 0 /\ y = k
    BY <1>3a, <2>1, <2>5, Zenon
  <2>7. -k \in Int /\ m + w - y = n + v - x + (-k)
    BY <2>6
  <2> QED BY <1>4, <2>4, <2>7, Zenon
<1>23. ASSUME NEW b \in live, FreeUnregistered(t, b) PROVE Balanced(a)'
  <2>1. /\ SegmentOf(PageOf(b)) \notin registry /\ live' = live \ {b}
        /\ UNCHANGED <<arenaNet, tldNet, tldArena, segArena, pc, pg>>
    BY <1>23, Zenon DEF FreeUnregistered
  <2>2. ArenaOf(PageOf(b)) # a
    BY <2>1, BlockFacts, PageFacts DEF Registered, ArenaOf, StructInv, TypeOK, ProgTypes
  <2>3. LiveIn(a)' = LiveIn(a)
    BY <2>1, <2>2 DEF LiveIn, ArenaOf
  <2>4. Carries(t, a)' = Carries(t, a)
    BY <2>1 DEF Carries, ArenaOf
  <2> QED BY <1>6, <2>1, <2>3, <2>4
<1>24. CASE ThreadExit(t)
  <2>1. /\ arenaNet' = [arenaNet EXCEPT ![tldArena[t]] = @ + tldNet[t]] /\ live' = live
        /\ tldArena'[t] = NULL /\ pc[t] \notin Between /\ pc'[t] \notin Between
    BY <1>2, <1>24, Zenon DEF ThreadExit, Between
  <2>2. Unflushed(t, a)' = 0
    BY <1>3, <2>1 DEF Unflushed
  <2>3. arenaNet'[a] = IF tldArena[t] = a THEN arenaNet[a] + tldNet[t] ELSE arenaNet[a]
    BY <1>2, <2>1, Zenon
  <2>4. PICK k \in Int : k = tldNet[t]
    BY <1>2
  <2>5. Carries(t, a)' = 0 /\ Carries(t, a) = 0
    BY <2>1 DEF Carries
  <2>6. /\ m = (IF tldArena[t] = a THEN n + k ELSE n)
        /\ v = (IF tldArena[t] = a THEN k ELSE 0)
        /\ w = 0 /\ x = 0 /\ y = 0
    BY <1>3a, <2>2, <2>3, <2>4, <2>5, Zenon DEF Unflushed
  <2>7. m + w - y = n + v - x
    BY <2>6
  <2> QED BY <1>5, <2>1, <2>7, LiveSame
<1> QED BY <1>8, <1>9, <1>10, <1>11, <1>13, <1>15, <1>17, <1>19, <1>20, <1>21, <1>22, <1>23,
           <1>24, Zenon DEF Call, Step

\* The program holds finitely many blocks.
LEMMA LiveFinite ==
    ASSUME IsFiniteSet(live), NEW t \in Threads, Call(t) \/ Step(t)
    PROVE  IsFiniteSet(live')
<1>1. CASE \/ AllocPop(t) \/ AllocBump(t) \/ AllocFull(t) \/ AllocUncached(t)
           \/ AllocCollect(t) \/ CollectCount(t) \/ FastRead(t) \/ FastBump(t) \/ ArenaGet(t)
           \/ Lock(t) \/ ScanEnd(t) \/ ScanOwned(t) \/ ScanUnowned(t) \/ ScanRoom(t)
           \/ ScanFull(t) \/ SlowRead(t)
  BY <1>1, Zenon DEF AllocPop, AllocBump, AllocFull, AllocUncached, AllocCollect, CollectCount,
    FastRead, FastBump, ArenaGet, Lock, ScanEnd, ScanOwned, ScanUnowned, ScanRoom, ScanFull,
    SlowRead, BumpRead, BumpStore
<1>2. CASE \/ SlowBump(t) \/ SlowUsed(t) \/ NoMemory(t) \/ Unlock(t) \/ RemotePush(t)
           \/ RemoteCount(t) \/ LocalUsed(t) \/ RemoteUsed(t) \/ ThreadExit(t)
           \/ (\E p \in Page : NewPage(t, p)) \/ \E s \in Segments : NewSegment(t, s)
  BY <1>2, Zenon DEF SlowBump, SlowUsed, NoMemory, Unlock, RemotePush, RemoteCount, LocalUsed,
    RemoteUsed, ThreadExit, NewPage, NewSegment, TakePage, BumpStore
<1>3. CASE FastUsed(t) \/ Claim(t) \/ ClaimFails(t)
  <2>1. live' = live \cup ({hand[t]} \cap Block)
    BY <1>3, Zenon DEF FastUsed, Claim, ClaimFails, Deliver
  <2>2. IsFiniteSet(live \cup {hand[t]}) /\ live' \subseteq live \cup {hand[t]}
    BY <2>1, FS_AddElement
  <2> QED BY <2>2, FS_Subset
<1>4. ASSUME NEW b \in live, FreeLocal(t, b) \/ FreeRemote(t, b) \/ FreeUnregistered(t, b)
      PROVE  IsFiniteSet(live')
  <2>1. live' \subseteq live
    BY <1>4 DEF FreeLocal, FreeRemote, FreeUnregistered
  <2> QED BY <2>1, FS_Subset
<1> QED BY <1>1, <1>2, <1>3, <1>4, Zenon DEF Call, Step

\* What is counted is right at every moment of a serial execution.
THEOREM SerialCounts == SerialSpec => [](StructInv /\ ExclusiveInv /\ CountInv)
<1>1. Init => CountInv
  <2> SUFFICES ASSUME Init PROVE HomeOK /\ StatsOK
    BY BooksInit DEF CountInv
  <2>1. /\ live = {} /\ tldNet = [t \in Threads |-> 0] /\ arenaNet = [a \in Arenas |-> 0]
        /\ tldArena = [t \in Threads |-> NULL] /\ pc = [t \in Threads |-> "idle"]
        /\ owner = [p \in Page |-> NoOwner]
    BY DEF Init
  <2>2. HomeOK
    BY <2>1, SentinelAssumption DEF HomeOK
  <2>3. ASSUME NEW a \in Arenas
        PROVE  Clients(a) = {} /\ LiveIn(a) = {} /\ BetweenIn(a) = {} /\ arenaNet[a] = 0
    BY <2>1, SentinelAssumption DEF Clients, LiveIn, BetweenIn, Between
  <2>4. ASSUME NEW a \in Arenas PROVE Balanced(a)
    <3>1. SumFunctionOnSet(tldNet, {}) = 0
      BY SumFacts, FS_EmptySet
    <3> QED BY <2>3, <3>1, FS_EmptySet DEF Balanced
  <2> QED BY <2>1, <2>2, <2>4, FS_EmptySet DEF StatsOK, Balanced
<1>2. StructInv /\ ExclusiveInv /\ CountInv /\ [Next]_vars => CountInv'
  <2> SUFFICES ASSUME StructInv, ExclusiveInv, CountInv, [Next]_vars PROVE CountInv'
    OBVIOUS
  <2>1. /\ BooksInv' /\ TypeOK' /\ WorkOK /\ HomeOK /\ StatsOK /\ NoDoubleAlloc
        /\ IsFiniteSet(live)
    BY BooksStep, StructInvStep DEF CountInv, StructInv, ExclusiveInv, BooksInv, StatsOK
  <2>2. CASE Next
    <3>1. PICK t \in Threads : Call(t) \/ Step(t)
      BY <2>2 DEF Next
    <3>2. HomeOK' /\ IsFiniteSet(live')
      BY <2>1, <3>1, HomeOKStep, LiveFinite
    <3>3. ASSUME NEW a \in Arenas, Registered(a)' PROVE Balanced(a)'
      <4>1. Registered(a)
        BY <2>1, <3>1, <3>3, SegmentsStay, SentinelAssumption DEF Registered, StructInv
      <4>2. Balanced(a)
        BY <2>1, <4>1 DEF StatsOK, Balanced
      <4> QED BY <2>1, <3>1, <4>1, <4>2, BalanceStep
    <3> QED BY <2>1, <3>2, <3>3 DEF CountInv, StatsOK, Balanced
  <2>3. CASE UNCHANGED vars
    <3>1. UNCHANGED <<owner, segArena, registry, arenaNet, tldNet, tldArena, pc, pg, live>>
      BY <2>3 DEF vars
    <3>2. HomeOK'
      BY <2>1, <3>1, Zenon DEF HomeOK, ArenaOf
    <3>3. StatsOK'
      BY <2>1, <3>1, Zenon DEF StatsOK, Registered, Clients, LiveIn, BetweenIn, ArenaOf
    <3> QED BY <2>1, <3>2, <3>3 DEF CountInv
  <2> QED BY <2>2, <2>3
<1> QED BY <1>1, <1>2, SerialInv, PTL DEF SerialSpec

\* Between calls, the statistics of an arena all of whose segments are registered, with what
\* its threads have not flushed, add up to the blocks of the arena the program holds.
THEOREM SerialStats == SerialSpec => []StatsBalance
<1>1. ASSUME CountInv PROVE StatsBalance
  <2> SUFFICES ASSUME Quiet, NEW a \in Arenas, Registered(a)
               PROVE  arenaNet[a] + SumFunctionOnSet(tldNet, Clients(a)) = Cardinality(LiveIn(a))
    BY DEF StatsBalance, Registered, Clients, LiveIn, ArenaOf
  <2>1. BetweenIn(a) = {}
    BY DEF Quiet, BetweenIn, Between
  <2>2. Cardinality(LiveIn(a)) \in Nat
    <3>1. LiveIn(a) \subseteq live /\ IsFiniteSet(live)
      BY <1>1 DEF LiveIn, CountInv, StatsOK
    <3> QED BY <3>1, FS_Subset, FS_CardinalityType
  <2> QED BY <1>1, <2>1, <2>2, FS_EmptySet DEF CountInv, StatsOK
<1> QED BY <1>1, SerialCounts, PTL

-----------------------------------------------------------------------------
(* Without the hypotheses on the scheduling.                               *)

\* With fewer than 65536 threads and slots of a page together, used cannot wrap around: a
\* page with used = 0 holds no block of the program.
THEOREM FewThreadsEmptyPage ==
    ASSUME Capacity + Cardinality(Threads) < U16
    PROVE  SerialSpec => []EmptyPageHasNoBlocks
<1>1. FewFrees
  <2>1. ASSUME NEW p \in Page PROVE Capacity + Cardinality(At(Freed, p)) < U16
    <3>1. PICK A : A = At(Freed, p)
      OBVIOUS
    <3>2. A \subseteq Threads
      BY <3>1 DEF At
    <3>3. /\ Cardinality(A) \in Nat /\ Cardinality(Threads) \in Nat
          /\ Cardinality(A) <= Cardinality(Threads)
      BY <3>2, WidthAssumption, FS_Subset, FS_CardinalityType
    <3>4. Capacity \in Nat /\ U16 \in Nat
      BY ConstantsAssumption DEF U16
    <3> QED BY <3>1, <3>3, <3>4
  <2> QED BY <2>1 DEF FewFrees
<1> QED BY <1>1, SerialEmptyPage, PTL

\* With at least as many arenas as threads, every execution passes the test of
\* debug_heap_check between calls, and the statistics of every arena add up.
THEOREM EnoughArenasHeapCheck ==
    ASSUME Cardinality(Threads) <= NumArenas
    PROVE  Spec => [](HeapCheck /\ StatsBalance)
<1>1. Spec => []ExclusiveArenas
  BY EnoughArenas, PTL
<1> QED BY <1>1, ExclusiveIsSerial, SerialHeapCheck, SerialStats, PTL
=============================================================================
