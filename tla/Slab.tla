-------------------------------- MODULE Slab --------------------------------
(***************************************************************************)
(* The slab allocator for one size class: the thread-cached fast path and  *)
(* the two free paths of slab.c, the locked slow path of arena.c, pages    *)
(* (page.c), segments (segment.c) and thread-local data (tld.c).           *)
(*                                                                         *)
(* Every structure the code indexes by size class is independent of the    *)
(* other classes, so one class is modelled.  An offset into a page is      *)
(* counted in slots.  Every access to memory that another thread may touch *)
(* at the same time is a step of its own; what only one thread can reach   *)
(* between two such accesses is part of the same step.                     *)
(***************************************************************************)
EXTENDS Integers, Sequences, FiniteSets, Functions

CONSTANTS
    Threads,        \* values of tld->thread_id; the counter never reuses one
    NumArenas,      \* g_state.arena_count
    Segments,       \* addresses os_mmap_aligned may return to segment_create
    DataPages,      \* PAGES_PER_SEGMENT - PAGES_DATA_START
    Capacity,       \* page->capacity: slots in a page
    RegistrySize,   \* SEGMENT_REGISTRY_SIZE
    FlushInterval,  \* STAT_FLUSH_INTERVAL
    NoOwner,        \* UINT32_MAX in page->owner_tid
    NULL

Arenas == 0 .. NumArenas - 1
Page   == Segments \X (1 .. DataPages)
Slot   == 0 .. Capacity - 1
Block  == Page \X Slot
Address == Page \X Nat   \* what base + bump_offset can be: a slot, or past the last

U16 == 256 * 256      \* a uint16_t counts modulo this

PageOf(b)  == b[1]
SlotOf(b)  == b[2]
SegmentOf(p) == p[1]

ASSUME ConstantsAssumption ==
    /\ NumArenas \in Nat \ {0}
    /\ DataPages \in Nat \ {0}
    /\ Capacity \in Nat \ {0}
    /\ RegistrySize \in Nat
    /\ FlushInterval \in Nat \ {0}

\* thread_id is a uint32_t, and the capacity of a page a uint16_t.
ASSUME WidthAssumption == IsFiniteSet(Threads) /\ Capacity < U16

ASSUME SentinelAssumption ==
    /\ NoOwner \notin Threads
    /\ NULL \notin Threads
    /\ NULL \notin Arenas
    /\ NULL \notin Page
    /\ NULL \notin Address

VARIABLES
    \* page_meta_t
    pstate,      \* page -> "UNUSED" or "ACTIVE"
    owner,       \* page -> owner_tid
    bump,        \* page -> bump_offset / slot_size
    localFree,   \* page -> local_free, head first; its length is local_free_count
    remoteFree,  \* page -> remote_free, head first
    remoteCount, \* page -> remote_free_count (uint16_t)
    used,        \* page -> used (uint16_t)
    \* arena_t, segment_t and the global state
    lock,        \* arena -> the thread in the arena's critical section
    bins,        \* arena -> its list of pages of this class, head first
    segArena,    \* segment -> seg->arena, NULL while it is not mapped
    registry,    \* the segments segment_is_registered finds
    arenaNext,   \* g_state.arena_next
    arenaNet,    \* arena -> alloc_count - free_count
    \* tld_t
    tldArena,    \* thread -> tld->arena
    binPage,     \* thread -> tld->bin_page for this class
    tldNet,      \* thread -> stat_alloc_count - stat_free_count
    statOps,     \* thread -> stat_ops
    \* what each thread is executing
    pc, pg, hand, pos, zeroed,
    \* the program that calls malloc and free
    live,        \* blocks it holds
    dirty        \* blocks it has ever held, hence may have written

pageVars  == <<pstate, owner, bump, localFree, remoteFree, remoteCount, used>>
arenaVars == <<lock, bins, segArena, registry, arenaNext>>
statVars  == <<arenaNet, tldNet, statOps>>
tldVars   == <<tldArena, binPage>>
progVars  == <<live, dirty>>
vars == <<pageVars, arenaVars, statVars, tldVars, pc, pg, hand, pos,
          zeroed, progVars>>

\* The state malloc_init leaves.  Nothing reads the fields of a page before
\* page_init has set them.
Init ==
    /\ pstate = [p \in Page |-> "UNUSED"]
    /\ owner = [p \in Page |-> NoOwner]
    /\ bump = [p \in Page |-> 0]
    /\ localFree = [p \in Page |-> <<>>]
    /\ remoteFree = [p \in Page |-> <<>>]
    /\ remoteCount = [p \in Page |-> 0]
    /\ used = [p \in Page |-> 0]
    /\ lock = [a \in Arenas |-> NULL]
    /\ bins = [a \in Arenas |-> <<>>]
    /\ segArena = [s \in Segments |-> NULL]
    /\ registry = {}
    /\ arenaNext = 0
    /\ arenaNet = [a \in Arenas |-> 0]
    /\ tldArena = [t \in Threads |-> NULL]
    /\ binPage = [t \in Threads |-> NULL]
    /\ tldNet = [t \in Threads |-> 0]
    /\ statOps = [t \in Threads |-> 0]
    /\ pc = [t \in Threads |-> "idle"]
    /\ pg = [t \in Threads |-> NULL]
    /\ hand = [t \in Threads |-> NULL]
    /\ pos = [t \in Threads |-> 0]
    /\ zeroed = [t \in Threads |-> FALSE]
    /\ live = {}
    /\ dirty = {}

Goto(t, label) == pc' = [pc EXCEPT ![t] = label]

\* The call returns to the program; its local variables are gone.
Return(t) ==
    /\ Goto(t, "idle")
    /\ pg' = [pg EXCEPT ![t] = NULL]
    /\ hand' = [hand EXCEPT ![t] = NULL]
    /\ pos' = [pos EXCEPT ![t] = 0]
    /\ zeroed' = [zeroed EXCEPT ![t] = FALSE]

\* malloc returns what is in hand; from here on the program may write it.  An
\* address past the last slot of its page is no block, and is not followed further.
Deliver(t) ==
    /\ live' = live \cup ({hand[t]} \cap Block)
    /\ dirty' = dirty \cup ({hand[t]} \cap Block)

-----------------------------------------------------------------------------
(* Statistics, batched in the thread and flushed to its arena.             *)

\* tld_stat_alloc (d = 1) and tld_stat_free (d = -1), with tld_stat_flush.
StatOp(t, d) ==
    LET flush == statOps[t] + 1 >= FlushInterval IN
    /\ tldNet' = [tldNet EXCEPT ![t] = IF flush THEN 0 ELSE @ + d]
    /\ statOps' = [statOps EXCEPT ![t] = IF flush THEN 0 ELSE @ + 1]
    /\ arenaNet' = [arenaNet EXCEPT
                      ![tldArena[t]] = IF flush THEN @ + tldNet[t] + d ELSE @]

-----------------------------------------------------------------------------
(* slab_alloc, fast path: the thread's cached page, no lock.               *)

Cached(t) == binPage[t] # NULL /\ pstate[binPage[t]] = "ACTIVE"

\* Mutant of AllocPop: a recycled slot is reported as zeroed.
AllocPopZeroed(t) ==
    /\ pc[t] \in {"idle", "pop"}
    /\ Cached(t)
    /\ localFree[binPage[t]] # <<>>
    /\ LET p == binPage[t] IN
         /\ localFree' = [localFree EXCEPT ![p] = Tail(@)]
         /\ hand' = [hand EXCEPT ![t] = <<p, Head(localFree[p])>>]
         /\ pg' = [pg EXCEPT ![t] = p]
    /\ zeroed' = [zeroed EXCEPT ![t] = TRUE]
    /\ Goto(t, "fast_used")
    /\ UNCHANGED <<pstate, owner, bump, remoteFree, remoteCount, used, arenaVars,
                   statVars, tldVars, pos, progVars>>

\* Pop local_free; at "pop" after a collection that found something.
AllocPop(t) ==
    /\ pc[t] \in {"idle", "pop"}
    /\ Cached(t)
    /\ localFree[binPage[t]] # <<>>
    /\ LET p == binPage[t] IN
         /\ localFree' = [localFree EXCEPT ![p] = Tail(@)]
         /\ hand' = [hand EXCEPT ![t] = <<p, Head(localFree[p])>>]
         /\ pg' = [pg EXCEPT ![t] = p]
    /\ Goto(t, "fast_used")
    /\ UNCHANGED <<pstate, owner, bump, remoteFree, remoteCount, used, arenaVars,
                   statVars, tldVars, pos, zeroed, progVars>>

\* local_free is empty, and bump_offset is below bump_end.
AllocBump(t) ==
    /\ pc[t] = "idle"
    /\ Cached(t)
    /\ LET p == binPage[t] IN
         /\ localFree[p] = <<>>
         /\ bump[p] < Capacity
         /\ pg' = [pg EXCEPT ![t] = p]
    /\ Goto(t, "fast_read")
    /\ UNCHANGED <<pageVars, arenaVars, statVars, tldVars, hand, pos, zeroed,
                   progVars>>

\* Mutant of AllocCollect: the remote list is copied and not detached.
AllocCollectKeeps(t) ==
    /\ pc[t] = "idle"
    /\ Cached(t)
    /\ LET p == binPage[t] IN
         /\ localFree[p] = <<>>
         /\ bump[p] >= Capacity
         /\ remoteFree[p] # <<>>
         /\ localFree' = [localFree EXCEPT ![p] = remoteFree[p] \o @]
         /\ pg' = [pg EXCEPT ![t] = p]
    /\ Goto(t, "collected")
    /\ UNCHANGED <<pstate, owner, bump, remoteFree, remoteCount, used, arenaVars,
                   statVars, tldVars, hand, pos, zeroed, progVars>>

\* page_collect_remote takes the whole remote list and splices it in front of
\* local_free.
AllocCollect(t) ==
    /\ pc[t] = "idle"
    /\ Cached(t)
    /\ LET p == binPage[t] IN
         /\ localFree[p] = <<>>
         /\ bump[p] >= Capacity
         /\ remoteFree[p] # <<>>
         /\ localFree' = [localFree EXCEPT ![p] = remoteFree[p] \o @]
         /\ remoteFree' = [remoteFree EXCEPT ![p] = <<>>]
         /\ pg' = [pg EXCEPT ![t] = p]
    /\ Goto(t, "collected")
    /\ UNCHANGED <<pstate, owner, bump, remoteCount, used, arenaVars, statVars,
                   tldVars, hand, pos, zeroed, progVars>>

\* Mutants of CollectCount: remote_free_count is not a uint16_t, or is left alone.
CollectCountSigned(t) ==
    /\ pc[t] = "collected"
    /\ remoteCount' = [remoteCount EXCEPT
                         ![pg[t]] = @ - Len(localFree[pg[t]])]
    /\ Goto(t, "pop")
    /\ UNCHANGED <<pstate, owner, bump, localFree, remoteFree, used, arenaVars,
                   statVars, tldVars, pg, hand, pos, zeroed, progVars>>

CollectCountForgets(t) ==
    /\ pc[t] = "collected"
    /\ Goto(t, "pop")
    /\ UNCHANGED <<pstate, owner, bump, localFree, remoteFree, remoteCount, used, arenaVars,
                   statVars, tldVars, pg, hand, pos, zeroed, progVars>>

\* ... and then takes what it moved off remote_free_count.  local_free was empty
\* and is this thread's alone, so its length is the number of slots moved.
CollectCount(t) ==
    /\ pc[t] = "collected"
    /\ remoteCount' = [remoteCount EXCEPT
                         ![pg[t]] = (@ - Len(localFree[pg[t]])) % U16]
    /\ Goto(t, "pop")
    /\ UNCHANGED <<pstate, owner, bump, localFree, remoteFree, used, arenaVars,
                   statVars, tldVars, pg, hand, pos, zeroed, progVars>>

\* The cached page is full and nothing was freed remotely: drop it.
AllocFull(t) ==
    /\ pc[t] = "idle"
    /\ Cached(t)
    /\ LET p == binPage[t] IN
         /\ localFree[p] = <<>>
         /\ bump[p] >= Capacity
         /\ remoteFree[p] = <<>>
    /\ binPage' = [binPage EXCEPT ![t] = NULL]
    /\ Goto(t, "arena_get")
    /\ UNCHANGED <<pageVars, arenaVars, statVars, tldArena, pg, hand, pos, zeroed,
                   progVars>>

AllocUncached(t) ==
    /\ pc[t] = "idle"
    /\ ~Cached(t)
    /\ Goto(t, "arena_get")
    /\ UNCHANGED <<pageVars, arenaVars, statVars, tldVars, pg, hand, pos,
                   zeroed, progVars>>

\* Mutant of FastUsed: the fast path does not count the slot as used.
FastUsedForgets(t) ==
    /\ pc[t] = "fast_used"
    /\ StatOp(t, 1)
    /\ Deliver(t)
    /\ Return(t)
    /\ UNCHANGED <<pstate, owner, bump, localFree, remoteFree, remoteCount,
                   used, arenaVars, tldVars>>

\* page->used++ and the thread's statistics; the fast path returns.
FastUsed(t) ==
    /\ pc[t] = "fast_used"
    /\ used' = [used EXCEPT ![pg[t]] = (@ + 1) % U16]
    /\ StatOp(t, 1)
    /\ Deliver(t)
    /\ Return(t)
    /\ UNCHANGED <<pstate, owner, bump, localFree, remoteFree, remoteCount,
                   arenaVars, tldVars>>

\* bump_offset is a plain field, and page_start is called between the test and its
\* use: the slot is taken from a second load ...
BumpRead(t) ==
    /\ hand' = [hand EXCEPT ![t] = <<pg[t], bump[pg[t]]>>]
    /\ zeroed' = [zeroed EXCEPT ![t] = TRUE]
    /\ UNCHANGED <<pageVars, arenaVars, statVars, tldVars, pg, pos, progVars>>

\* Mutant of BumpStore: the store is lost.
BumpStoreLost(t) ==
    UNCHANGED <<pageVars, arenaVars, statVars, tldVars, pg, hand, pos, zeroed,
                progVars>>

\* ... and the += stores one slot more than that load or, unoptimized, a third one.
BumpStore(t) ==
    /\ \E old \in {SlotOf(hand[t]), bump[pg[t]]} :
         bump' = [bump EXCEPT ![pg[t]] = old + 1]
    /\ UNCHANGED <<pstate, owner, localFree, remoteFree, remoteCount, used,
                   arenaVars, statVars, tldVars, pg, hand, pos, zeroed, progVars>>

FastRead(t) == pc[t] = "fast_read" /\ BumpRead(t) /\ Goto(t, "fast_bump")
FastBump(t) == pc[t] = "fast_bump" /\ BumpStore(t) /\ Goto(t, "fast_used")
SlowRead(t) == pc[t] = "slow_read" /\ BumpRead(t) /\ Goto(t, "slow_bump")
SlowBump(t) == pc[t] = "slow_bump" /\ BumpStore(t) /\ Goto(t, "slow_used")

-----------------------------------------------------------------------------
(* slab_alloc, slow path: arena_get, arena_alloc, then the ownership CAS.  *)

\* Mutant of ArenaGet: the turn does not move on.
ArenaGetFirst(t) ==
    /\ pc[t] = "arena_get"
    /\ tldArena' = [tldArena EXCEPT ![t] = IF @ = NULL THEN arenaNext % NumArenas ELSE @]
    /\ Goto(t, "lock")
    /\ UNCHANGED <<pageVars, arenaVars, statVars, binPage, pg, hand, pos, zeroed, progVars>>

\* The thread's arena, the next one in turn if it has none yet.
ArenaGet(t) ==
    /\ pc[t] = "arena_get"
    /\ tldArena' = [tldArena EXCEPT ![t] = IF @ = NULL THEN arenaNext % NumArenas ELSE @]
    /\ arenaNext' = IF tldArena[t] = NULL THEN arenaNext + 1 ELSE arenaNext
    /\ Goto(t, "lock")
    /\ UNCHANGED <<pageVars, lock, bins, segArena, registry, statVars, binPage,
                   pg, hand, pos, zeroed, progVars>>

\* Mutant of Lock: the thread does not wait for the mutex.
LockBarges(t) ==
    /\ pc[t] = "lock"
    /\ lock' = [lock EXCEPT ![tldArena[t]] = t]
    /\ pos' = [pos EXCEPT ![t] = 1]
    /\ Goto(t, "scan")
    /\ UNCHANGED <<pageVars, bins, segArena, registry, arenaNext, statVars,
                   tldVars, pg, hand, zeroed, progVars>>

Lock(t) ==
    /\ pc[t] = "lock"
    /\ lock[tldArena[t]] = NULL
    /\ lock' = [lock EXCEPT ![tldArena[t]] = t]
    /\ pos' = [pos EXCEPT ![t] = 1]
    /\ Goto(t, "scan")
    /\ UNCHANGED <<pageVars, bins, segArena, registry, arenaNext, statVars,
                   tldVars, pg, hand, zeroed, progVars>>

\* The scan of the bin list loads the owner of each page in turn.
ScanEnd(t) ==
    /\ pc[t] = "scan"
    /\ pos[t] > Len(bins[tldArena[t]])
    /\ Goto(t, "new_page")
    /\ UNCHANGED <<pageVars, arenaVars, statVars, tldVars, pg, hand, pos, zeroed,
                   progVars>>

ScanOwned(t) ==
    /\ pc[t] = "scan"
    /\ pos[t] <= Len(bins[tldArena[t]])
    /\ owner[bins[tldArena[t]][pos[t]]] # NoOwner
    /\ pos' = [pos EXCEPT ![t] = @ + 1]
    /\ UNCHANGED <<pageVars, arenaVars, statVars, tldVars, pc, pg, hand, zeroed,
                   progVars>>

ScanUnowned(t) ==
    /\ pc[t] = "scan"
    /\ pos[t] <= Len(bins[tldArena[t]])
    /\ owner[bins[tldArena[t]][pos[t]]] = NoOwner
    /\ pg' = [pg EXCEPT ![t] = bins[tldArena[t]][pos[t]]]
    /\ Goto(t, "scan_bump")
    /\ UNCHANGED <<pageVars, arenaVars, statVars, tldVars, hand, pos, zeroed,
                   progVars>>

\* The owner having been UINT32_MAX, test bump_offset: the page has room ...
ScanRoom(t) ==
    /\ pc[t] = "scan_bump"
    /\ bump[pg[t]] < Capacity
    /\ Goto(t, "slow_read")
    /\ UNCHANGED <<pageVars, arenaVars, statVars, tldVars, pg, hand, pos, zeroed,
                   progVars>>

\* ... or it has none and the scan goes on.
ScanFull(t) ==
    /\ pc[t] = "scan_bump"
    /\ bump[pg[t]] >= Capacity
    /\ pg' = [pg EXCEPT ![t] = NULL]
    /\ pos' = [pos EXCEPT ![t] = @ + 1]
    /\ Goto(t, "scan")
    /\ UNCHANGED <<pageVars, arenaVars, statVars, tldVars, hand, zeroed, progVars>>

SlowUsed(t) ==
    /\ pc[t] = "slow_used"
    /\ used' = [used EXCEPT ![pg[t]] = (@ + 1) % U16]
    /\ arenaNet' = [arenaNet EXCEPT ![tldArena[t]] = @ + 1]
    /\ Goto(t, "unlock")
    /\ UNCHANGED <<pstate, owner, bump, localFree, remoteFree, remoteCount,
                   arenaVars, tldNet, statOps, tldVars, pg, hand, pos,
                   zeroed, progVars>>

\* page_init; TakePage has its used and bump_offset, which arena_alloc goes on to
\* change.
PageInit(p) ==
    /\ pstate' = [pstate EXCEPT ![p] = "ACTIVE"]
    /\ owner' = [owner EXCEPT ![p] = NoOwner]
    /\ localFree' = [localFree EXCEPT ![p] = <<>>]
    /\ remoteFree' = [remoteFree EXCEPT ![p] = <<>>]
    /\ remoteCount' = [remoteCount EXCEPT ![p] = 0]

\* segment_alloc_page, bin_insert_page and the first slot of page p.  Nothing can
\* reach the page before the lock is released.
TakePage(t, p) ==
    LET a == tldArena[t] IN
    /\ PageInit(p)
    /\ bump' = [bump EXCEPT ![p] = 1]
    /\ used' = [used EXCEPT ![p] = 1]
    /\ bins' = [bins EXCEPT ![a] = <<p>> \o @]
    /\ arenaNet' = [arenaNet EXCEPT ![a] = @ + 1]
    /\ pg' = [pg EXCEPT ![t] = p]
    /\ hand' = [hand EXCEPT ![t] = <<p, 0>>]
    /\ zeroed' = [zeroed EXCEPT ![t] = TRUE]
    /\ Goto(t, "unlock")
    /\ UNCHANGED <<lock, arenaNext, tldNet, statOps, tldVars, pos,
                   progVars>>

UnusedPages(a) ==
    {p \in Page : segArena[SegmentOf(p)] = a /\ pstate[p] = "UNUSED"}

\* p is the lowest unused page of one of the arena's segments.
NewPage(t, p) ==
    /\ pc[t] = "new_page"
    /\ p \in UnusedPages(tldArena[t])
    /\ \A q \in UnusedPages(tldArena[t]) :
         SegmentOf(q) = SegmentOf(p) => p[2] <= q[2]
    /\ TakePage(t, p)
    /\ UNCHANGED <<segArena, registry>>

\* segment_register gives up without a word when the table is full.
Register(s) ==
    registry' = IF Cardinality(registry) < RegistrySize
                THEN registry \cup {s} ELSE registry

\* segment_create maps and registers segment s; its first data page is taken.
NewSegment(t, s) ==
    /\ pc[t] = "new_page"
    /\ UnusedPages(tldArena[t]) = {}
    /\ segArena[s] = NULL
    /\ segArena' = [segArena EXCEPT ![s] = tldArena[t]]
    /\ Register(s)
    /\ TakePage(t, <<s, 1>>)

\* Mutant of NoMemory: the error path returns with the mutex held.
NoMemoryLocked(t) ==
    /\ pc[t] = "new_page"
    /\ UnusedPages(tldArena[t]) = {}
    /\ Return(t)
    /\ UNCHANGED <<pageVars, arenaVars, statVars, tldVars, progVars>>

\* segment_create cannot map a segment: arena_alloc unlocks and returns NULL.
NoMemory(t) ==
    /\ pc[t] = "new_page"
    /\ UnusedPages(tldArena[t]) = {}
    /\ lock' = [lock EXCEPT ![tldArena[t]] = NULL]
    /\ Return(t)
    /\ UNCHANGED <<pageVars, bins, segArena, registry, arenaNext, statVars,
                   tldVars, progVars>>

Unlock(t) ==
    /\ pc[t] = "unlock"
    /\ lock' = [lock EXCEPT ![tldArena[t]] = NULL]
    /\ Goto(t, "claim")
    /\ UNCHANGED <<pageVars, bins, segArena, registry, arenaNext, statVars,
                   tldVars, pg, hand, pos, zeroed, progVars>>

\* Mutant of Claim: owner_tid is stored without being compared.
ClaimBlind(t) ==
    /\ pc[t] = "claim"
    /\ SegmentOf(pg[t]) \in registry
    /\ owner' = [owner EXCEPT ![pg[t]] = t]
    /\ binPage' = [binPage EXCEPT ![t] = pg[t]]
    /\ Deliver(t)
    /\ Return(t)
    /\ UNCHANGED <<pstate, bump, localFree, remoteFree, remoteCount, used,
                   arenaVars, statVars, tldArena>>

\* Compare-and-swap owner_tid from UINT32_MAX; on success, or if the thread owns
\* the page already, cache it.  Then slab_alloc returns.
Claim(t) ==
    /\ pc[t] = "claim"
    /\ SegmentOf(pg[t]) \in registry
    /\ owner[pg[t]] \in {NoOwner, t}
    /\ owner' = [owner EXCEPT ![pg[t]] = t]
    /\ binPage' = [binPage EXCEPT ![t] = pg[t]]
    /\ Deliver(t)
    /\ Return(t)
    /\ UNCHANGED <<pstate, bump, localFree, remoteFree, remoteCount, used,
                   arenaVars, statVars, tldArena>>

\* Another thread owns the page, or its segment did not fit in the registry and
\* ptr_to_page does not find it.
ClaimFails(t) ==
    /\ pc[t] = "claim"
    /\ SegmentOf(pg[t]) \notin registry \/ owner[pg[t]] \notin {NoOwner, t}
    /\ Deliver(t)
    /\ Return(t)
    /\ UNCHANGED <<pageVars, arenaVars, statVars, tldVars>>

-----------------------------------------------------------------------------
(* my_free and slab_free, by any thread, of a block the program holds.     *)

\* The owner pushes onto local_free.
FreeLocal(t, b) ==
    /\ pc[t] = "idle"
    /\ SegmentOf(PageOf(b)) \in registry
    /\ owner[PageOf(b)] = t
    /\ live' = live \ {b}
    /\ localFree' = [localFree EXCEPT ![PageOf(b)] = <<SlotOf(b)>> \o @]
    /\ pg' = [pg EXCEPT ![t] = PageOf(b)]
    /\ Goto(t, "local_used")
    /\ UNCHANGED <<pstate, owner, bump, remoteFree, remoteCount, used, arenaVars,
                   statVars, tldVars, hand, pos, zeroed, dirty>>

\* Any other thread goes through page_free_slot_remote.
FreeRemote(t, b) ==
    /\ pc[t] = "idle"
    /\ SegmentOf(PageOf(b)) \in registry
    /\ owner[PageOf(b)] # t
    /\ live' = live \ {b}
    /\ hand' = [hand EXCEPT ![t] = b]
    /\ pg' = [pg EXCEPT ![t] = PageOf(b)]
    /\ Goto(t, "push")
    /\ UNCHANGED <<pageVars, arenaVars, statVars, tldVars, pos, zeroed,
                   dirty>>

\* The segment is not registered: large_free searches its list in vain.
FreeUnregistered(t, b) ==
    /\ pc[t] = "idle"
    /\ SegmentOf(PageOf(b)) \notin registry
    /\ live' = live \ {b}
    /\ UNCHANGED <<pageVars, arenaVars, statVars, tldVars, pc, pg, hand,
                   pos, zeroed, dirty>>

\* treiber_push takes effect at its successful compare-and-swap.
RemotePush(t) ==
    /\ pc[t] = "push"
    /\ remoteFree' = [remoteFree EXCEPT ![pg[t]] = <<SlotOf(hand[t])>> \o @]
    /\ hand' = [hand EXCEPT ![t] = NULL]
    /\ Goto(t, "remote_count")
    /\ UNCHANGED <<pstate, owner, bump, localFree, remoteCount, used, arenaVars,
                   statVars, tldVars, pg, pos, zeroed, progVars>>

RemoteCount(t) ==
    /\ pc[t] = "remote_count"
    /\ remoteCount' = [remoteCount EXCEPT ![pg[t]] = (@ + 1) % U16]
    /\ Goto(t, "remote_used")
    /\ UNCHANGED <<pstate, owner, bump, localFree, remoteFree, used, arenaVars,
                   statVars, tldVars, pg, hand, pos, zeroed, progVars>>

\* page->used--, after a local free, which the thread counts ...
LocalUsed(t) ==
    /\ pc[t] = "local_used"
    /\ used' = [used EXCEPT ![pg[t]] = (@ - 1) % U16]
    /\ StatOp(t, -1)
    /\ Return(t)
    /\ UNCHANGED <<pstate, owner, bump, localFree, remoteFree, remoteCount,
                   arenaVars, tldVars, progVars>>

\* Mutant of RemoteUsed: the arena of the thread counts the free.
RemoteUsedOwnArena(t) ==
    /\ pc[t] = "remote_used"
    /\ used' = [used EXCEPT ![pg[t]] = (@ - 1) % U16]
    /\ arenaNet' = [arenaNet EXCEPT ![tldArena[t]] = @ - 1]
    /\ Return(t)
    /\ UNCHANGED <<pstate, owner, bump, localFree, remoteFree, remoteCount,
                   arenaVars, tldNet, statOps, tldVars, progVars>>

\* ... and after a remote one, which the page's arena counts.
RemoteUsed(t) ==
    /\ pc[t] = "remote_used"
    /\ used' = [used EXCEPT ![pg[t]] = (@ - 1) % U16]
    /\ arenaNet' = [arenaNet EXCEPT ![segArena[SegmentOf(pg[t])]] = @ - 1]
    /\ Return(t)
    /\ UNCHANGED <<pstate, owner, bump, localFree, remoteFree, remoteCount,
                   arenaVars, tldNet, statOps, tldVars, progVars>>

-----------------------------------------------------------------------------
\* tld_cleanup flushes the statistics and drops the thread's data.  The pages the
\* thread owns keep its owner_tid.
ThreadExit(t) ==
    /\ pc[t] = "idle"
    /\ arenaNet' = [arenaNet EXCEPT ![tldArena[t]] = @ + tldNet[t]]
    /\ tldNet' = [tldNet EXCEPT ![t] = 0]
    /\ statOps' = [statOps EXCEPT ![t] = 0]
    /\ tldArena' = [tldArena EXCEPT ![t] = NULL]
    /\ binPage' = [binPage EXCEPT ![t] = NULL]
    /\ Goto(t, "exited")
    /\ UNCHANGED <<pageVars, arenaVars, pg, hand, pos, zeroed, progVars>>

\* A thread starts a call, or ends.
Call(t) ==
    \/ pc[t] = "idle" /\ AllocPop(t)
    \/ AllocBump(t)
    \/ AllocCollect(t)
    \/ AllocFull(t)
    \/ AllocUncached(t)
    \/ \E b \in live : FreeLocal(t, b) \/ FreeRemote(t, b) \/ FreeUnregistered(t, b)
    \/ ThreadExit(t)

\* A thread goes on with the call it is in.
Step(t) ==
    \/ pc[t] = "pop" /\ AllocPop(t)
    \/ CollectCount(t)
    \/ FastRead(t)
    \/ FastBump(t)
    \/ FastUsed(t)
    \/ ArenaGet(t)
    \/ Lock(t)
    \/ ScanEnd(t)
    \/ ScanOwned(t)
    \/ ScanUnowned(t)
    \/ ScanRoom(t)
    \/ ScanFull(t)
    \/ SlowRead(t)
    \/ SlowBump(t)
    \/ SlowUsed(t)
    \/ \E p \in Page : NewPage(t, p)
    \/ \E s \in Segments : NewSegment(t, s)
    \/ NoMemory(t)
    \/ Unlock(t)
    \/ Claim(t)
    \/ ClaimFails(t)
    \/ RemotePush(t)
    \/ RemoteCount(t)
    \/ LocalUsed(t)
    \/ RemoteUsed(t)

Next == \E t \in Threads : Call(t) \/ Step(t)

Spec == Init /\ [][Next]_vars
-----------------------------------------------------------------------------
(* Hypotheses on the scheduling.                                           *)

\* What arena_alloc takes for granted when it finds a page without an owner: that
\* the page still has none when bump_offset is read and stored.  The lock does
\* not give it, because slab_alloc claims a page after the lock is released.
OwnerCheckHolds ==
    \A t \in Threads :
        pc[t] \in {"scan_bump", "slow_read", "slow_bump"} => owner[pg[t]] = NoOwner

\* The allocator in the executions in which the check and the claim never cross.
SerialSpec == Init /\ [][Next /\ OwnerCheckHolds']_vars

\* No two running threads share an arena.
ExclusiveArenas ==
    \A t, u \in Threads : t # u /\ tldArena[t] # NULL => tldArena[t] # tldArena[u]

\* A thread in a call keeps running, and a thread waiting for a mutex that is
\* released again and again gets it.
Fairness == \A t \in Threads : WF_vars(Step(t)) /\ SF_vars(Lock(t))

FairSpec == Spec /\ Fairness

-----------------------------------------------------------------------------
(* Properties.                                                             *)

Labels ==
    {"idle", "pop", "collected", "fast_read", "fast_bump", "fast_used", "arena_get",
     "lock", "scan", "scan_bump", "slow_read", "slow_bump", "slow_used", "new_page",
     "unlock", "claim", "push", "remote_count", "remote_used", "local_used",
     "exited"}

PageTypes ==
    /\ pstate \in [Page -> {"UNUSED", "ACTIVE"}]
    /\ owner \in [Page -> Threads \cup {NoOwner}]
    /\ bump \in [Page -> Nat]
    /\ localFree \in [Page -> Seq(Slot)]
    /\ remoteFree \in [Page -> Seq(Slot)]
    /\ remoteCount \in [Page -> 0 .. U16 - 1]
    /\ used \in [Page -> 0 .. U16 - 1]

ArenaTypes ==
    /\ lock \in [Arenas -> Threads \cup {NULL}]
    /\ bins \in [Arenas -> Seq(Page)]
    /\ segArena \in [Segments -> Arenas \cup {NULL}]
    /\ registry \in SUBSET Segments
    /\ arenaNext \in Nat

StatTypes ==
    /\ arenaNet \in [Arenas -> Int]
    /\ tldNet \in [Threads -> Int]
    /\ statOps \in [Threads -> Nat]

TldTypes ==
    /\ tldArena \in [Threads -> Arenas \cup {NULL}]
    /\ binPage \in [Threads -> Page \cup {NULL}]

CallTypes ==
    /\ pc \in [Threads -> Labels]
    /\ pg \in [Threads -> Page \cup {NULL}]
    /\ hand \in [Threads -> Address \cup {NULL}]
    /\ pos \in [Threads -> Nat]
    /\ zeroed \in [Threads -> BOOLEAN]

ProgTypes == live \in SUBSET Block /\ dirty \in SUBSET Block

\* Every variable keeps the type of the field it models.
TypeOK ==
    /\ PageTypes
    /\ ArenaTypes
    /\ StatTypes
    /\ TldTypes
    /\ CallTypes
    /\ ProgTypes

\* No block is handed out twice, and nothing but blocks is: what one call is about
\* to return, or to put on a free list, lies in its page and is held neither by the
\* program nor by another call.  Handing a slot out twice is what
\* debug_mark_allocated aborts on ("slot already marked allocated").
NoDoubleAlloc ==
    \A t \in Threads : hand[t] # NULL =>
        /\ hand[t] \in Block
        /\ hand[t] \notin live
        /\ \A u \in Threads \ {t} : hand[u] # hand[t]

\* The free lists of a page hold only slots that were handed out and freed: none
\* that the program holds, none in the middle of a call, none twice, none that
\* the bump pointer has not passed.
FreeListsSound ==
    \A p \in Page :
        /\ IsInjective(localFree[p])
        /\ IsInjective(remoteFree[p])
        /\ Range(localFree[p]) \cap Range(remoteFree[p]) = {}
        /\ \A s \in Range(localFree[p]) \cup Range(remoteFree[p]) :
              /\ s < bump[p]
              /\ <<p, s>> \notin live
              /\ \A t \in Threads : hand[t] # <<p, s>>

\* A page with used = 0 holds no block of the program, although used is counted up
\* after a slot is taken and down after it is on a list.  page_is_empty, and so
\* zone_pressure_relief, discards the page's memory on the strength of this.
EmptyPageHasNoBlocks ==
    \A b \in live : used[PageOf(b)] # 0

\* When slab_alloc reports *zeroed, which lets my_calloc skip its memset, the
\* program has never held the slot.
ZeroedIsVirgin ==
    \A t \in Threads : zeroed[t] /\ hand[t] # NULL => hand[t] \notin dirty

Quiet == \A t \in Threads : pc[t] \in {"idle", "exited"}

\* Between calls the books of every page balance: debug_heap_check's test that
\* used, the two free lists and the unused bump space add up to the capacity, and
\* remote_free_count is the length of its list.
HeapCheck ==
    Quiet => \A p \in Page :
        pstate[p] = "ACTIVE" =>
            /\ used[p] + Len(localFree[p]) + Len(remoteFree[p]) + (Capacity - bump[p])
                 = Capacity
            /\ remoteCount[p] = Len(remoteFree[p])

\* Between calls, what an arena has counted and what its threads have not flushed
\* yet add up to the blocks of the arena the program holds, whoever freed the
\* others and whether or not the threads are gone.
StatsBalance ==
    Quiet => \A a \in Arenas :
        (\A s \in Segments : segArena[s] = a => s \in registry) =>
            arenaNet[a]
              + SumFunctionOnSet(tldNet, {t \in Threads : tldArena[t] = a})
            = Cardinality({b \in live : segArena[SegmentOf(PageOf(b))] = a})

\* While every thread is running and between calls, a page all of whose blocks are
\* free can serve an allocation again: it has been given back, or a thread caches
\* it, or the scan of arena_alloc can use it.
EmptyPageReusable ==
    (\A t \in Threads : pc[t] = "idle") => \A p \in Page :
        pstate[p] = "ACTIVE" /\ used[p] = 0 =>
            \/ \E t \in Threads : binPage[t] = p
            \/ owner[p] = NoOwner /\ bump[p] < Capacity

\* The owner of the page has dropped it from its cache, or is gone.
Abandoned(p) == owner[p] # NoOwner /\ binPage[owner[p]] # p

\* That is for ever: arena_alloc skips pages with an owner and slab_alloc claims only
\* pages without one, so no thread, not even the owner, caches the page again, and
\* what is freed into it serves no lock-free allocation any more.
AbandonedForever ==
    [][\A p \in Page : Abandoned(p) => Abandoned(p)' /\ owner'[p] = owner[p]]_vars

\* Every call of malloc or free returns.
CallsReturn ==
    \A t \in Threads : pc[t] \notin {"idle", "exited"} ~> pc[t] = "idle"

\* The allocator keeps the promise of malloc and free.
heap == INSTANCE Heap

HeapSpec == heap!Spec
=============================================================================
