------------------------------ MODULE SlabInv -------------------------------
(***************************************************************************)
(* The invariants of Slab that make its properties inductive.              *)
(***************************************************************************)
EXTENDS Slab

\* Labels at which a call holds a slot, and at which it holds its arena's mutex.
Holding == {"fast_bump", "fast_used", "slow_bump", "slow_used", "unlock", "claim",
            "push"}
Bumping == {"fast_bump", "slow_bump"}
Locked  == {"scan", "scan_bump", "slow_read", "slow_bump", "slow_used", "new_page",
            "unlock"}
OnPage  == {"scan_bump", "slow_read", "slow_bump", "slow_used", "unlock", "claim"}

\* A call that holds a slot works on the slot's page, and only such a call holds
\* one.
RegistersOK ==
    \A t \in Threads :
        /\ pc[t] \in Holding => hand[t] \in Address /\ pg[t] = PageOf(hand[t])
        /\ pc[t] = "push" => hand[t] \in Block
        /\ pc[t] \notin Holding => hand[t] = NULL
        /\ pc[t] \in {"collected", "fast_read", "scan_bump", "slow_read",
                      "remote_count", "remote_used", "local_used"} => pg[t] \in Page
        /\ pc[t] \in {"scan", "scan_bump"} => pos[t] >= 1
        /\ zeroed[t] => pc[t] \in Holding \ {"push"}

\* A thread in a critical section holds the mutex of its arena.
LocksOK ==
    \A t \in Threads :
        /\ pc[t] \in Locked \cup {"lock", "claim"} => tldArena[t] \in Arenas
        /\ pc[t] \in Locked => lock[tldArena[t]] = t

\* The bin list of an arena holds pages in use, of the arena's own segments; a
\* thread in the slow path works on such a page of its own arena.
ArenasOK ==
    /\ \A a \in Arenas : \A i \in 1 .. Len(bins[a]) :
         /\ pstate[bins[a][i]] = "ACTIVE"
         /\ segArena[SegmentOf(bins[a][i])] = a
    /\ \A t \in Threads : pc[t] \in OnPage =>
         /\ pstate[pg[t]] = "ACTIVE"
         /\ segArena[SegmentOf(pg[t])] = tldArena[t]

\* A page not in use has no owner and no slot that was ever handed out; every block
\* that is out is in a page in use.
PagesOK ==
    /\ \A p \in Page : pstate[p] = "UNUSED" =>
         /\ owner[p] = NoOwner
         /\ bump[p] = 0
         /\ localFree[p] = <<>>
         /\ remoteFree[p] = <<>>
    /\ \A p \in Page : segArena[SegmentOf(p)] = NULL => pstate[p] = "UNUSED"
    /\ \A t \in Threads : pc[t] \in Holding => pstate[pg[t]] = "ACTIVE"
    /\ \A b \in live : pstate[PageOf(b)] = "ACTIVE"

\* A thread caches, and allocates without the lock from, only a page it owns.
CachesOK ==
    \A t \in Threads :
        /\ binPage[t] # NULL => owner[binPage[t]] = t
        /\ pc[t] \in {"fast_read", "fast_bump"} => owner[pg[t]] = t

\* The page a thread works on in the slow path is never its own: the compare-and-swap
\* of slab_alloc never finds the thread's own identifier.
NeverOwn == \A t \in Threads : pc[t] \in OnPage => owner[pg[t]] # t

\* What holds in every execution.
StructInv ==
    /\ TypeOK
    /\ RegistersOK
    /\ LocksOK
    /\ ArenasOK
    /\ PagesOK
    /\ CachesOK

\* The bump pointer separates the slots that have been handed out from the others.
\* A call that has tested or read it and not yet stored it has seen its present
\* value.
BumpOK ==
    /\ \A p \in Page : bump[p] <= Capacity
    /\ \A b \in live \cup dirty : SlotOf(b) < bump[PageOf(b)]
    /\ \A t \in Threads :
         /\ pc[t] \in {"fast_read", "slow_read"} => bump[pg[t]] < Capacity
         /\ pc[t] \in Bumping => SlotOf(hand[t]) < Capacity
         /\ pc[t] \in Bumping => SlotOf(hand[t]) = bump[pg[t]]
         /\ pc[t] \in Holding \ Bumping => SlotOf(hand[t]) < bump[pg[t]]

\* What holds when the owner check of arena_alloc is not overtaken by a claim.
ExclusiveInv ==
    /\ OwnerCheckHolds
    /\ BumpOK
    /\ NoDoubleAlloc
    /\ FreeListsSound
    /\ ZeroedIsVirgin

\* The threads that will ask for no arena any more: they have one, or are gone.
Served == {t \in Threads : tldArena[t] # NULL \/ pc[t] = "exited"}

\* Arenas are handed out in turn.  Before the turn comes round again, the threads
\* that run have different ones.
ArenaTurns ==
    /\ arenaNext <= Cardinality(Served)
    /\ \A t \in Threads : tldArena[t] # NULL => tldArena[t] < arenaNext
    /\ ExclusiveArenas

-----------------------------------------------------------------------------
(* What is counted.                                                        *)

\* Labels of calls that have taken a slot and not counted it in used yet, and of calls
\* that have put theirs on a free list and not taken it off used yet.
Taken == {"fast_used", "slow_used"}
Freed == {"remote_count", "remote_used", "local_used"}

\* Labels of calls that have put their slot on remote_free and not counted it there yet.
Pushed == {"remote_count"}

\* The calls that are at some label of L and work on page p.
At(L, p) == {t \in Threads : pc[t] \in L /\ pg[t] = p}

\* A page that a call counts for is in use, and only its owner collects.
WorkOK ==
    \A t \in Threads :
        /\ pc[t] \in Freed \cup {"collected"} => pstate[pg[t]] = "ACTIVE"
        /\ pc[t] = "collected" => owner[pg[t]] = t

\* The slots that were handed out and are on no list.
OffLists(p) == bump[p] - Len(localFree[p]) - Len(remoteFree[p])

\* The number that used stands for: every call that has not counted its slot yet makes
\* a difference of one.
Out(p) == OffLists(p) + Cardinality(At(Freed, p)) - Cardinality(At(Taken, p))

UsedOK == \A p \in Page : used[p] = Out(p) % U16

\* The slots on remote_free, and those a collection has moved to local_free and not taken
\* off remote_free_count yet.
Collected(p) == \E t \in Threads : pc[t] = "collected" /\ pg[t] = p

Remote(p) == Len(remoteFree[p]) + IF Collected(p) THEN Len(localFree[p]) ELSE 0

RemoteCountOK ==
    \A p \in Page :
        remoteCount[p] = (Remote(p) - Cardinality(At(Pushed, p))) % U16

\* The counters of a page can be explained at every moment.
BooksInv == WorkOK /\ UsedOK /\ RemoteCountOK

\* Not so many frees of one page are between the list and the counter that used, which
\* counts them all, could wrap around.
FewFrees == \A p \in Page : Capacity + Cardinality(At(Freed, p)) < U16

-----------------------------------------------------------------------------
(* Statistics.                                                             *)

\* Labels of calls with a block that is counted and that the program does not hold: not
\* yet, after arena_alloc, or no longer, in a free.
Between == {"unlock", "claim", "push", "remote_count", "remote_used", "local_used"}

ArenaOf(p) == segArena[SegmentOf(p)]

\* A thread owns pages of its own arena only, and a thread that frees locally, or
\* allocates on the fast path, does so in such a page.
HomeOK ==
    \A t \in Threads :
        /\ pc[t] \in {"fast_used", "local_used"} => owner[pg[t]] = t
        /\ pc[t] # "exited" =>
             \A p \in Page : owner[p] = t => ArenaOf(p) = tldArena[t]
        /\ tldArena[t] = NULL => tldNet[t] = 0

\* The threads, the blocks and the calls of an arena.
Clients(a)   == {t \in Threads : tldArena[t] = a}
LiveIn(a)    == {b \in live : ArenaOf(PageOf(b)) = a}
BetweenIn(a) == {t \in Threads : pc[t] \in Between /\ ArenaOf(pg[t]) = a}

Registered(a) == \A s \in Segments : segArena[s] = a => s \in registry

\* The statistics of an arena, flushed and not, are right for the blocks counted so far.
StatsOK ==
    /\ IsFiniteSet(live)
    /\ \A a \in Arenas : Registered(a) =>
         arenaNet[a] + SumFunctionOnSet(tldNet, Clients(a))
           = Cardinality(LiveIn(a)) + Cardinality(BetweenIn(a))

\* What is counted is right at every moment.
CountInv == BooksInv /\ HomeOK /\ StatsOK
=============================================================================
