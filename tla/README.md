# A verification of the malloc allocator in TLA+

This project models the allocator in `src/`: TLA+ specifications translated from the C
code, TLC runs on small instances, and theorems with proofs that TLAPS checks. Line
references are to the repository.

## 1. The system

A call of `my_malloc` goes to `slab_alloc`, which first tries the page that the
calling thread has cached for the size class, with no lock. If that fails it goes
to `arena_alloc`, under the mutex of the thread's arena, and tries afterwards to
become the owner of the page it got a slot from. `my_free` finds the page of a
block through the segment registry. The owner of the page puts the slot on
`local_free`; any other thread pushes it on the lock-free `remote_free`, which the
owner collects when it runs dry. Sizes above 32464 bytes are mapped directly, and kept
on one list under `large_lock`. The first call initializes everything; the callbacks of
the zone look at all of it from outside.

| Component | State | Operations | What makes it correct | Model |
|---|---|---|---|---|
| slab paths (`slab.c`) | none of its own; moves slots between bump space, lists and program | `slab_alloc_inner`, `slab_free` | no slot in two hands; zeroed slots are virgin; calls return | `Slab` |
| arenas (`arena.c`) | mutex, list of pages per class, segments, statistics | `arena_get`, `arena_alloc` | lists hold pages in use of the arena; lock always released; only pages without an owner are bumped here | `Slab` |
| pages (`page.c`) | owner, bump offset, two free lists, counts | `page_init`, `page_collect_remote`, `page_free_slot_remote` | single writer of `bump_offset` and `local_free`; counts add up to the capacity | `Slab`, `FreeLists` |
| Treiber stack (`malloc_atomic.h`) | tagged head, links in the slots | `treiber_push`, `treiber_collect` | behaves as a sequence under ABA | `FreeLists`, `PageLists` |
| segments and registry (`segment.c`) | page table per segment, hash set of bases | `segment_create`, `segment_alloc_page`, `segment_is_registered` | a registered base is always found; nothing else is | `Slab`, `SegmentRegistry`, `Startup` |
| thread-local data (`tld.c`) | cached pages, arena, batched statistics | `tld_get`, `tld_cleanup` | a cached page is owned; no count is lost at exit | `Slab`, `Startup` |
| size classes (`size_class.c`) | table of 75 sizes | `size_class_init`, `size_to_bin` | smallest class that fits | `SizeClass` |
| entry points (`malloc.c`) | none | malloc, calloc, realloc, memalign, free | the contract of the C library | `Heap`, `Slab`, `SizeClass`, `LargeAlloc` (partly) |
| large blocks (`large.c`) | list under a mutex, two statistics | `large_alloc_aligned`, `large_free`, `large_find` | every block is found, no header is used after it is unmapped, statistics are those of the blocks | `LargeAlloc`; layout of a block in `SizeClass` |
| start (`init.c`) | `initialized`, bootstrap buffer | `malloc_init`, bootstrap allocation | one initialization, nobody runs before it ends | `Startup`, `EarlyMalloc` |
| zone (`zone.c`) | peak statistic | pressure relief, statistics, fork locks, forwarding | locks taken in one order, the child of a fork can go on; relief discards nothing in use | `Zone`, `PressureRelief` (partly) |
| debug (`debug.c`) | bitmap per page | mark, unmark, heap check | its assertions never fire | `FreeLists` for a page; its tests are properties of `Slab` too |
| OS layer (`os.c`) | `mmap_bytes` | map, unmap, advise | aligned, trimmed mappings | trimming in `SizeClass`; elsewhere a fresh mapping, or failure |

Hard to get right, and hard to test: the hand-over of a page between the locked and
the lock-free path; counters that are updated after the list they count; remote
frees against collection; links kept in memory that the program has written; probe
sequences read while they are written; segments that do not fit the registry;
threads that exit owning pages; headers used after the lock that protected them; a fork
in the middle of everything; first calls that race. `PROJECT.json` lists each of these
at its line.

## 2. The modules

| Module | Role |
|---|---|
| `Heap` | The contract of malloc and free: a call settles on a block that nobody has, returns it, and nothing else touches the blocks. |
| `Slab` | Slab paths, arenas, pages, segments and thread-local data, one step per shared access. |
| `SlabInv` | The inductive invariants of `Slab`. |
| `MCSlab` | Symmetry for TLC. |
| `Basics` | Lemmas about numbers, finite sets, sums and sequences that the proofs share. |
| `SlabStructure`, `SlabSafety`, `SlabBooks` | Proofs about `Slab`, each extending the one before: what holds under every race; single writer, no slot twice, refinement of `Heap`; what is counted. |
| `PageLists` | Abstract free lists of a page: two sequences, four atomic operations. |
| `FreeLists`, `MCFreeLists` | The same lists link by link, with the compare-and-swap loops, the counters and the debug bitmap. |
| `FreeListsProofs` | Proofs about them. |
| `PressureRelief` | `FreeLists` with `zone_pressure_relief` and a system that takes memory back. |
| `SegmentRegistry` | The hash set of segments, probe by probe. |
| `Startup`, `MCStartup` | `malloc_init`, thread-local data and `arena_get`, composed with `SegmentRegistry`. |
| `EarlyMalloc`, `MCEarlyMalloc` | `Startup`, where a function that `malloc_init` calls allocates. |
| `StartupProofs` | Proofs about `SegmentRegistry`, `Startup` and `SizeClass`. |
| `LargeAlloc` | Large blocks: their list, lock and counters, and the calls that use them. |
| `Zone`, `MCZone` | The callbacks that meet other calls, and fork, composed with `LargeAlloc`. |
| `ZoneProofs`, `ZoneStats` | Proofs about both: the list, the locks and the refinement of `Heap`; the walks and the counters. |
| `SizeClass`, `MCSizeClass` | The table of classes, the binary search, the routing of requests, the layout of blocks and what `my_realloc` copies. |

**Slab.** `pc[t]` is the place of thread `t` in `slab_alloc_inner`, `arena_alloc` or
`slab_free`; `pg`, `hand`, `pos` and `zeroed` are its local variables. Page fields,
arena fields and `tld_t` fields are functions with the names of the C fields. `live`
and `dirty` describe the program: the blocks it holds, and has ever held. `Call(t)`
starts a call (or ends the thread), `Step(t)` continues one. What differs from the
code, and why it loses nothing:

- *One size class.* Everything indexed by class is independent, except that classes
  take pages from the same segments. `DataPages` is what this class can get.
- *Slots instead of bytes.* `bump_offset` counts slots. A slot past the last is an
  `Address` that is not a `Block`.
- *The plain field `bump_offset`.* When two threads bump one page this is a data race.
  It is tested, loaded for the slot and stored in three separate steps. `page_start`,
  a call into another file, keeps the test and the load apart. The store adds one slot
  to the value loaded for the slot (optimized builds) or to a fresh load (unoptimized
  ones); the model chooses either.
- *The Treiber stack and the registry are atomic*, which `FreeLists` and
  `SegmentRegistry` justify.
- *Any segment.* `arena_alloc` takes a page from the first segment that has one;
  the model from any.
- *Memory is sequentially consistent.* Weaker orderings are not modelled.
- *Threads have a `tld`* and identifiers are not reused. Failure of `tld_get` is in
  `Startup` only.
- `bin_remove_page`, `arena_free`, `page_retire`, `page_alloc_slot`, `treiber_pop`,
  `segment_destroy` and `segment_free_page` are not modelled: the program does not
  call them. The branch of `slab.c:145-148` ("We already own it") is part of `Claim`, and
  no execution takes it: `NeverOwn` in `SlabInv` is proved.

**FreeLists.** The page's slots have all been handed out. The first word of a slot is
`link`; while the program holds the slot it holds an arbitrary value. Refinement
mapping to `PageLists`: `localFree` is the chain of a detached list that is not yet
spliced in, followed by the chain of `local_free`; `remoteFree` is the chain of the
head; a push takes effect at its compare-and-swap, a collection at its own. The count
of a remote free and its `used` are steps of their own after the push
(`page.c:90-92`), so `remote_free_count` passes below zero and `used` above the
capacity for a while. `DebugHeapCheck` is `debug_heap_check` for one page whose slots
have all been bumped. `debug_mark_allocated` and `debug_check_and_mark_freed` only set
and clear a bit here; where the code would abort, the bits no longer add up to `used`.

**PressureRelief.** `zone_pressure_relief` holds the arena lock, which neither the owner
nor a remote free takes. `ReliefTest` and `ReliefAdvise` are separate steps for that
reason. `lazy` is the set of slots that the system may replace by zeros; a write to a
slot takes it out, and `Reclaim` may happen at any time before (external: this is what
`MADV_FREE` permits). The contents of a block that the program holds are not modelled;
that they may be lost shows in a block that is in `lazy`, as one is that was handed out
between the test and the `madvise`.

**SegmentRegistry.** Threads register each new segment once and look up any base. A
segment is never unregistered, as in the program.

**Startup.** `at[t]` is the place of a thread, next to the `pc` of the registry. Calls
of `my_malloc` go through `malloc_ensure_init`, the election, the steps of `malloc_init`
one shared write at a time (each slot of the registry, each arena), `tld_get` and
`arena_get`; `my_free` looks up a base without `malloc_ensure_init`, so it may run while
the registry is zeroed. Threads exit and start again. `tld_get` may fail, which leaves
a call without an arena of its own; `MaxFailures` bounds how often at the first try.
Sizes in the bootstrap buffer are counted in `tld_t`s. `CreateSegment` holds the lock of
its arena until the registration ends. In `Startup` the functions of the system which
`malloc_init` calls do not themselves allocate. A call whose `tld_get` failed has raised
the `thread_count` of an arena that it cannot remember. The history variable `lost` counts
these, and `ThreadCountRight` allows for them; the comment at `malloc_types.h:95`, "threads
attached to this arena", does not mention them.

**EarlyMalloc.** Here `pthread_key_create`, called from `tld_init` in `malloc_init`, may
call malloc, which is what the bootstrap buffer is for in `DESIGN.md:409`. `InnerMalloc`
starts a second activation of `my_malloc` in the initializing thread; it takes the steps
of `Startup`, and `malloc_init` goes on when it has returned (`InnerReturns`).

**LargeAlloc** and **Zone.** Each critical section of `large_lock` is split into the
lock, the turns of the walk, and the write that ends in the unlock; mapping, counting
and unmapping are steps outside. `la[t]` is the header in the hands of a thread, `got[t]`
the block it has mapped. `my_realloc` keeps its header from `large_find` across the
unlock (`malloc.c:122-129`). A block is identified with its base, since mappings do not
overlap. `Zone` adds `zone_statistics` (a sum that may be anything, then the load and the
one compare-and-swap of the peak), the arena locks as `arena_alloc` and
`zone_pressure_relief` take them, and `zone_force_lock` with `zone_force_unlock`. A fork
is `ForceUnlock` with the thread alone in `alive`: the others stay where they were for
ever. The program is correct in that it frees and reallocates what it holds, one thread
at a time for each block; `zone_claimed_address` asks about any address. `linked` is a
history variable. Sizes are of type `size_t` and wrap at `SizeMod`, in `Total`, `Room` and
the statistics; a mapping of length 0 is refused. All blocks have the `HeaderSpace` of one
alignment (`SizeClass` has the others). A `my_realloc` that does not fit its mapping goes to
`my_malloc`: to a new large block (`Grow`), or, for sizes up to `SlabMax`, to a slot
(`GrowSlab`), which may happen because `my_memalign` makes large blocks of small sizes. The
slot itself is not in this model. Refinement of `Heap`: a large block is live from the
return of its call (in a moving realloc, from the copy) to the call of `free`, and in a
hand before and after.

**SizeClass.** `stage` is the place in `malloc_init` or in a call, `request` what was asked
for, `old` the block that `my_realloc` is given. `size_class_init` multiplies a double by 1.125. The model keeps it in
units of 2^-12; the resulting 75 sizes were compared with those of the C loop in
IEEE double arithmetic and are equal. `MmapAligned` follows `os_mmap_aligned` on page
numbers: what is mapped, what is cut off in front and behind. The sums of
`large_alloc_aligned` and `os_mmap_aligned` wrap at `SizeMod`, as a `size_t` does: neither
function tests for it. `mmap` may fail, and does when it is asked for no bytes or for more
than there are addresses (external). `InRange` describes the requests for which no sum
wraps. `Realloc` starts from a slot of any class.

## 3. The runs

| Run | Instance | Shows |
|---|---|---|
| `slab_exclusive` | 2 threads, 2 arenas, 2 segments of 2 pages of 2 slots, 2 pages taken | With an arena each, threads that free each other's blocks never get a slot twice; lists, counts and statistics are right, and can be explained at every moment (`CountInv`), not only at rest; `Slab` implements `Heap`. |
| `slab_race` | 2 threads, 1 arena, 2 segments of 1 page of 2 slots, registry of 1, all interleavings | Locks, lists and caches stay in order in spite of the race, an abandoned page is never cached again, and every call returns. One page cannot be owned (its segment is not registered), so locked and lock-free allocation alternate. |
| `free_lists` | 4 slots, an owner, 2 pushers | The links implement `PageLists`; at rest the page passes `debug_heap_check`; the walk ends. |
| `startup` | 2 threads, 2 arenas, 3 bases in 2 slots, 2 of them colliding, one early failure of `tld_get` | One initialization, complete before any call goes on; lookups are atomic, during `malloc_init` too, and a base is dropped only from a full table; thread counts are right; waiters get through. |
| `zone` | 2 threads, 2 large blocks, 2 arenas, forks | No call touches a mapping that is gone; every block is found; `large_alloc_count` is right, and `large_allocated` drifts from the blocks only by what a `my_realloc` in place changes (`OnlyReallocDrifts`); the peak never falls; `Heap` is implemented; calls return, in the child too. |
| `size_class` | every size from 0 to 128 KB + 1, edges of memalign, sizes next to the largest `size_t`, realloc from every class to 173 sizes | `size_to_bin` finds the smallest class that fits; slots fit their page and a large block has exactly its mapping after trimming; `my_realloc` keeps the contents. |
| `slab_shared` | 2 threads, 1 arena, all interleavings | **Violated**: a slot is handed out twice. |
| `slab_strand` | 1 thread | **Violated**: an empty page is not reused. |
| `memalign` | edges of memalign | **Violated**: a block is not aligned. |
| `pressure_relief` | 2 slots, an owner, 1 pusher | **Violated**: a live block may be discarded, or a page at rest fails `debug_heap_check`. |
| `early_malloc` | 2 threads, 1 arena, 1 base | **Violated**: a malloc from inside `malloc_init` never returns. |
| `large_stats` | as `zone` | **Violated**: at rest, `large_allocated` is not the size of the blocks. |

*Why the bounds are enough.* The hazards of `Slab` are between two threads on one
page: two suffice for owner and remote, winner and loser of a claim, holder of the
lock and claimant. Two slots let a page be full, empty and in between. In
`slab_exclusive` there are four pages, and `TwoPages` ends an execution that takes a third:
one thread moves from page to page, or two have one each. What follows a malloc that finds
no memory is in `slab_race`. With two segments and
a registry of one, a segment is dropped. `FlushInterval = 2` lets a thread exit with
and without unflushed statistics. In `FreeLists`, four slots allow a head to be
collected, handed out and pushed back while a push waits. `TagMod = 1` makes all tags
equal: a compare-and-swap then succeeds whenever it would with a real tag, and more
often, so the run covers every tag width. Counts are modulo `CountMod`, above the
number of slots as 2^16 is above 4096. In `Startup` two threads suffice for winner and
waiter of the election, two arenas for turns that wrap around, and three bases for
collisions that wrap around the end of a table and fill it; the registry itself is
proved for every size. In `Zone` two blocks make a list with a head and a tail, so
every case of the unlinking occurs, and two arenas a `force_lock` that is between its
locks. Blocks are made of 1 byte, in a mapping of 4 with a header of 2. `my_realloc` to 3
goes to a slot from there, and shrinks in place from 11; 11 moves to a larger mapping; 13,
with `SizeMod = 16`, wraps to a mapping of length 0, which fails. The counters wrap too.
`MaxBytes = 2` gives three values of the sum, enough for one query to overtake another. In
`SizeClass` the sizes are those of the code, but for `SizeMod = 2^20`, which stands for 2^64
and leaves room for every size and alignment below the limit.

*Deadlock* is not checked for `Slab`, because all threads may exit; `CallsReturn`
covers it for calls. It is checked in the other runs that pass.

*Fairness.* In `FairSpec` of `Slab` a thread inside a call keeps running (weak fairness
of `Step`), and a thread that waits for a mutex which is free again and again gets it
(strong fairness of `Lock`). The first is preemptive scheduling; the second is what
the system's mutex is relied on for, and POSIX alone does not promise it. In
`FreeLists` only the owner, once it has detached a list, must keep running. `Startup`
has weak fairness of each thread in a call and no more: the spin loop of `malloc_init`
waits for a thread that is never blocked. `Zone` has weak fairness of `Step` and strong
fairness of the steps that take a lock, for the reasons given for `Slab`. Threads that a
fork has cut off take no steps. No fairness is assumed of a compare-and-swap, and
nothing is claimed about how often it is retried. Nothing has to start a call.

## 4. Findings

1. **A slot can be handed out twice** (`slab_shared`). `arena_alloc` checks `owner_tid`
   and then bumps the page under the lock (`arena.c:63-66`), but `slab_alloc_inner`
   claims the page after the lock is released (`slab.c:140`) and bumps it without the
   lock. A claim between the two gives one page two writers. The comment at
   `arena.c:57-59` states the single-writer invariant that this breaks. It needs two
   threads on one arena, that is, more than four threads over the life of the process.
2. **Empty pages are stranded** (`slab_strand`). A full page leaves the cache and keeps
   its owner (`slab.c:124`). `arena_alloc` skips it from then on, even when it is empty.
   `DESIGN.md:439-444` says that it becomes available again.
3. **`my_memalign` may return a misaligned block** (`memalign`). It rounds the size, not
   the class (`malloc.c:167`): `my_memalign(64, 1024)` is served from slots of 1072 bytes.
   The comment at `malloc.c:161` says that a class is found "where slot_size is a multiple
   of alignment".
4. **Pressure relief discards what is in use** (`pressure_relief`). The test of
   `page_is_empty` and the `madvise` (`zone.c:123-125`) are under a lock that the owner of
   the page does not take. A block that is handed out between the two may lose its
   contents. And an empty page that is still active has its free slots linked through their
   first words: when the system takes one back, its link reads as NULL, and the page no
   longer has the `local_free_count` and capacity that `debug.c:69-70` checks.
   `DESIGN.md:664` speaks of "empty active pages" only.
5. **A malloc from inside `malloc_init` never returns** (`early_malloc`). `DESIGN.md:409`
   says that the bootstrap buffer serves such calls and "avoids recursion when
   `pthread_key_create` or other initialization functions call `malloc`", and `SPEC.md:120`
   lists it "for pre-init mallocs". But every entry that allocates goes through
   `malloc_ensure_init` first, and there the call spins (`init.c:22`) until `initialized` is
   2, which its own thread would have to set. From then on `tld_get` maps pages, so that the
   buffer serves nothing.
6. **`large_allocated` drifts** (`large_stats`). `my_realloc` in place stores a new
   `user_size` (`malloc.c:127`) and leaves the statistic alone, and `large_free` then
   subtracts the new size. `malloc_types.h:161` calls it "bytes currently in large allocs",
   `DESIGN.md:577` "active large allocation bytes (user-requested)". `OnlyReallocDrifts`, in
   the run `zone` and proved as `ZoneCounts`, shows that nothing else lets it drift.

One more observation, without a violated run: of two overlapping queries the higher peak
may be lost (`zone.c:180`); the peak is then too low, but never falls.

## 5. The proofs

All theorems hold for any number of threads, arenas, segments, pages, slots and blocks,
and any sizes. They assume only the named assumptions on the constants, which TLC
evaluates in the runs:

- numbers are positive (the registry of `Slab` may even have size 0), and the sentinels
  are distinct from what they stand beside;
- `WidthAssumption`: there are finitely many threads, and a page has fewer than 2^16
  slots, which is what a `uint16_t` counts (`page.c:20-23` give at most 4096);
- `ListsAssumption`: the counters of a page are wide enough for its slots and for the
  frees in progress;
- `AddressAssumption`: there are fewer mappings than bytes in the address space;
- `LargeAssumption`, `WordAssumption`: sizes are below `SizeMod`, which in `SizeClass` is a
  multiple of a page and leaves room for two blocks of `MEDIUM_MAX`;
- `PageAssumption`, `RequestAssumption`: a page is a multiple of 16, an alignment above 16
  is one too, and an alignment above a page is a multiple of a page. This is less than the
  power of two that `malloc.c:145` insists on. An alignment is at most half of `SizeMod`,
  as every power of two below 2^64 is.

**Method.** Every safety theorem rests on an inductive invariant. `StructInv`, `CountInv`,
`ListsInv`, `StartInv`, `RegistryInv` and `LargeInv` are properties of runs. `ClassInv` is
not, because it makes the run of `SizeClass` too long; TLC found no violation on the
instance of `size_class`.
What the invariant says of lists and sums is proved by taking the least number for
which it fails (`LeastNat` in `Basics`), since the library's induction theorems cannot be
instantiated here. `Iterates` in the same way gives the recursive functions of the models
(the chain of a free list, the headers a walk meets) their values.

**Slab, in every execution** (`Spec`):

- `StructSafety`: `StructInv` holds, races included. It is the conjunction of `TypeOK`,
  `RegistersOK` (a call works on the page of its slot), `LocksOK`, `ArenasOK` (bin lists
  hold active pages of the arena), `PagesOK` (an unused page is empty) and `CachesOK` (a
  thread allocates without the lock only from a page it owns). `TypeOK` is not inductive
  alone: that a list holds slots of its page needs `RegistersOK`. `TypeSafety` follows.
- `AbandonedSafety`: a page that its owner dropped is never cached again. It needs
  `NeverOwn`: the scan never works on a page of the thread's own.

**Slab, in the executions in which no claim crosses the owner check** (`SerialSpec`):

- `SerialNoDoubleAlloc`, `SerialBump`, `SerialFreeLists`, `SerialZeroed`,
  `SerialRefinesHeap`. The invariant is `StructInv /\ ExclusiveInv`. Its core is `BumpOK`:
  the bump pointer separates slots that were handed out from the others, and a call that
  has read it and not yet stored it has seen its present value. This is the single-writer
  invariant of `arena.c:57-59`, made precise.
- `SerialCounts`: with `CountInv` added, everything that is counted is right at every
  moment. `UsedOK` says that `used` is, modulo 2^16, the number of slots that are off the
  lists, corrected by one for each call that has moved a slot and not counted it yet.
  `RemoteCountOK` says the same of `remote_free_count`, which wraps below zero while a push
  is not counted. `WorkOK` is needed because a collection changes both lists at once: only
  the owner collects. `StatsOK` says that the statistics of an arena and of its threads are
  the blocks the program holds and those that calls are between counting and handing over.
  It needs `HomeOK`: a thread owns pages of its own arena only, so that what it counts
  without the lock goes to the arena of the page.
- `SerialHeapCheck` and `SerialStats` are what `CountInv` says at rest.
- `SerialEmptyPage`: a page with `used = 0` has no block in the hands of the program,
  while `FewFrees` holds. `used` is taken down after the slot is on its list, so it counts
  too many in the meantime, and a slot may be reused before. If 65536 - capacity threads
  were stopped at that point in one page, `used` would wrap around to 0. `FewFrees` excludes
  this. `FewThreadsEmptyPage` does without it when there are fewer threads than that.

**Slab, when arenas are not shared**:

- `ExclusiveIsSerial`: if no two running threads share an arena, the claim and the check
  never cross, because both happen on pages of one arena.
- `EnoughArenas`: with at least as many arenas as threads, none is shared. The invariant
  `ArenaTurns` bounds `arena_next` by the number of threads that were served.
- Hence `EnoughArenasNoDoubleAlloc` and `EnoughArenasRefinesHeap`: while the
  process has started at most four threads (`init.c:44` creates four arenas), the
  allocator implements malloc and free with no hypothesis on the scheduling.
  `EnoughArenasHeapCheck` says the same of `HeapCheck` and `StatsBalance`.

**Free lists**, for any number of slots, threads and tags:

- `ListsSafety`: `ListsInv` is inductive. The chains from `local_free`, from the head of
  `remote_free` and from a detached list have no repetition, and every slot is on exactly
  one of them or in one pair of hands (`PlacesOK`); a pusher has its own slot and nobody
  else's (`RemotesOK`); the cursor of a collection is on the detached list (`OwnerOK`); and
  the counters can be explained (`CountsOK`). Nothing depends on the tag: a push whose head
  went away and came back links to a head that is right again.
- `ListsRefinement`: the links implement `PageLists`, so `Slab` may treat them as sequences.
- `HeapCheckSafety`: a page at rest passes `debug_heap_check`.

**The registry**, for every size and hash function: `RegistrySafety` (a base sits where
its probe sequence first met a free slot, and what a call has passed stays taken),
`RegistryLookup` (lookups are atomic) and `RegistryDrops` (a base is dropped only from a
full table). The argument is that slots are never emptied.

**The start**, for any number of threads and arenas and any registry:

- `StartSafety`: `StartInv` is inductive. `OneInitializer` (whoever is in `malloc_init` is
  alone, and `initialized` is 1 meanwhile) carries `BuiltInOrder` and `NothingBefore`
  (no thread is past `malloc_ensure_init`, and the table is empty, until it is 2).
- `StartRegistry`: the registry of `Startup` implements `SegmentRegistry`. The steps that
  zero the table are stutters because of `NothingBefore`. `StartLookups` follows from
  this and `RegistryLookup`.
- `StartCounts`: `thread_count` is the number of attached threads and of the calls in
  `lost`, by cardinality of the set of attached threads.

**Size classes**, for every size, alignment and size of a page:

- `ClassInvariant`: `ClassInv` is inductive. While `size_class_init` runs, the value of the
  double is the one that belongs to the bin (`Doubles`, a table of the 60 values; each
  follows from the one before) and the bins so far grow (`Growing`). From then on the table
  is sorted and ends with the largest size (`Sorted`). The loop invariant of the binary
  search is `Searching`: bins below `lo` are too small, and `hi` is large enough.
- `ClassBestFit`: `size_to_bin` finds the smallest class that holds the size.
- `ClassBlocksFit`: slots hold the request and lie within their page, for every request. A
  large block lies within its mapping, and what `os_mmap_aligned` cuts off leaves exactly
  that mapping, for the requests that are `InRange`: header, size, a page and twice the
  alignment together do not exceed `SizeMod`. The proof shows that then no sum wraps.
- `ClassReallocKeeps`: `my_realloc` of a slot keeps its contents and stays inside both
  blocks, with the same bound where the new block is large.

**Large blocks and the zone**, for any numbers of threads, blocks and arenas, with forks:

- `ZoneSafety`: `ZoneInv` is inductive. It joins who holds which lock at which label
  (`LocksOK`), the doubly linked list (`ListOK`), one owner for each block (`OwnersOK`)
  and what calls have found (`CallsOK`). No part is inductive alone: unlinking keeps
  the list only because the lock keeps others out, and the header used after the
  unlock is valid only because nobody else may free its block.
- `ZoneMemory`: no call touches a mapping that has been given back.
- `ZonePeak`: the peak never falls.
- `ZoneImplementsHeap`: large blocks implement `Heap`.
- `ZoneFinds`: a walk finds every block the program holds. The invariant `Ranked` gives
  every linked header a number that falls along the list; a walk has not passed what it
  looks for.
- `LargeSafety`: `large_alloc_count` is at every moment the number of blocks counted so far.
- `ZoneCounts`: the difference between `large_allocated` and the sizes of these blocks,
  `Drift`, is changed by no step but a `my_realloc` in place, and then by what it changes.
  That it is always 0, as the comments have it, is refuted by `large_stats`.

**Only model-checked**: `CallsReturn` (of `Slab` and of `Zone`), `WalkEnds` and
`InitReturns`. They are liveness under fairness, which is out of the prover's reach.
Every safety property of a run that passes is stated by a theorem. Those of
`slab_exclusive` that are proved for `SerialSpec` hold there because of
`ExclusiveIsSerial`. `SerialSpec` on a shared arena has no run of its own.

## 6. Not modelled

- Weak memory orderings. Every shared access is sequentially consistent.
- Overflow of `arena_next` after 2^31 attachments and of thread identifiers after 2^32
  threads. That of `size_t` in `large.c:20-24` and `os.c:21` is modelled, but nothing is
  claimed of the blocks it leads to.
- `my_free`, `my_malloc_usable_size` and `zone_claimed_address` on large blocks while
  `malloc_init` initializes `large_lock` (`init.c:30`): POSIX leaves open what that does.
- The slab side of a `my_realloc` that goes from a large block to a slot, and the large side
  of one that goes the other way. Each is a `my_malloc`, a copy and a `my_free`, which are
  modelled; the two models are not composed.
  `large_alloc_aligned` with an alignment above a page is in `SizeClass` only.
- The memset of `my_calloc`; `ZeroedIsVirgin` covers when it may be left out.
- `zone_good_size`, which returns the class that `BestFit` is about, `zone_enumerator`,
  which returns at once, and the callbacks that only forward.
- What a fork leaves in the child of threads that are gone: blocks in their hands are
  never freed, and their unflushed statistics are lost. `OnlyReallocDrifts` goes on counting
  what they had counted.
- `mmap_bytes`, messages, and the functions that nothing calls (section 2).
