----------------------------- MODULE LargeAlloc -----------------------------
(***************************************************************************)
(* large.c and the way to it in malloc.c: blocks that have a mapping of    *)
(* their own, linked into one list under large_lock.  A block is found by  *)
(* walking the list, so the walk must never meet a header whose mapping is *)
(* gone; the counters of the blocks are kept outside the lock.             *)
(*                                                                         *)
(* The calls are those of a correct program: it frees and reallocates the  *)
(* blocks it holds, from one thread at a time.  claimed_address may be     *)
(* asked about any address at any time.                                    *)
(***************************************************************************)
EXTENDS Integers, FiniteSets, Functions

CONSTANTS
    Threads,
    Bases,          \* addresses at which a mapping may start
    Sizes,          \* the sizes that large_alloc_aligned is called with; those of
                    \*   my_memalign may be small
    NewSizes,       \* the sizes that my_realloc is called with
    HeaderSpace,    \* LARGE_HEADER_SIZE
    PageSize,       \* os_page_size()
    SlabMax,        \* the largest size that my_malloc serves from a slab
    SizeMod,        \* 2^64: size_t and addresses are below this
    NULL

ASSUME LargeAssumption ==
    /\ NULL \notin Bases /\ NULL \notin Threads
    /\ HeaderSpace \in Nat /\ PageSize \in Nat \ {0} /\ SizeMod \in Nat \ {0}
    /\ SlabMax \in Nat
    /\ Sizes \cup NewSizes \subseteq 0 .. SizeMod - 1

\* There are fewer mappings than addresses.
ASSUME AddressAssumption == IsFiniteSet(Bases) /\ Cardinality(Bases) < SizeMod

\* The length of the mapping for n bytes; the sum wraps around, as a size_t does.
Total(n) == (((HeaderSpace + n + PageSize - 1) % SizeMod) \div PageSize) * PageSize

VARIABLES
    largeLock,      \* g_state.large_lock: the thread that holds it, or NULL
    largeList,      \* g_state.large_list
    next, prev,     \* base -> the links of its header
    linked,         \* history: the bases whose headers are on the list
    mapped,         \* the bases that are mapped
    size, userSize, \* base -> la->size and la->user_size
    largeAllocated, largeCount,
    live,           \* the blocks the program holds
    alive,          \* the threads of the process: fork leaves one of them
    \* thread -> where it is, the call it is in and its arguments
    pc, op, ptr, want,
    la,             \* thread -> its cursor, or the header it has found
    got             \* thread -> the block it has mapped and not yet returned

memVars  == <<mapped, size, userSize>>
listVars == <<largeList, next, prev, linked>>
statVars == <<largeAllocated, largeCount>>
argVars  == <<op, ptr, want>>
callVars == <<pc, argVars, la, got>>
largeVars == <<largeLock, listVars, memVars, statVars, live, alive, callVars>>

LargeInit ==
    /\ largeLock = NULL
    /\ largeList = NULL
    /\ next = [b \in Bases |-> NULL] /\ prev = [b \in Bases |-> NULL]
    /\ linked = {} /\ mapped = {}
    /\ size = [b \in Bases |-> 0] /\ userSize = [b \in Bases |-> 0]
    /\ largeAllocated = 0 /\ largeCount = 0
    /\ live = {}
    /\ alive = Threads
    /\ pc = [t \in Threads |-> "idle"]
    /\ op = [t \in Threads |-> "none"]
    /\ ptr = [t \in Threads |-> NULL]
    /\ want = [t \in Threads |-> 0]
    /\ la = [t \in Threads |-> NULL]
    /\ got = [t \in Threads |-> NULL]

Goto(t, l) == pc' = [pc EXCEPT ![t] = l]

\* The thread starts a call of f with the block b and the size n.
Enter(t, f, b, n, l) ==
    /\ t \in alive
    /\ pc[t] = "idle"
    /\ Goto(t, l)
    /\ op' = [op EXCEPT ![t] = f]
    /\ ptr' = [ptr EXCEPT ![t] = b]
    /\ want' = [want EXCEPT ![t] = n]
    /\ UNCHANGED <<largeLock, listVars, memVars, statVars, alive, la, got>>

Return(t) ==
    /\ Goto(t, "idle")
    /\ op' = [op EXCEPT ![t] = "none"]
    /\ ptr' = [ptr EXCEPT ![t] = NULL]
    /\ want' = [want EXCEPT ![t] = 0]
    /\ la' = [la EXCEPT ![t] = NULL]
    /\ got' = [got EXCEPT ![t] = NULL]

At(t, l) == t \in alive /\ pc[t] = l

\* Blocks in a call of my_realloc or my_malloc_usable_size.
Busy == {ptr[t] : t \in {u \in alive : op[u] # "claimed"}}

-----------------------------------------------------------------------------
(* The calls.                                                              *)

Malloc(t, n) == Enter(t, "malloc", NULL, n, "map") /\ UNCHANGED live

Free(t, b) ==
    /\ b \in live \ Busy
    /\ Enter(t, "free", b, 0, "freelock")
    /\ live' = live \ {b}

Realloc(t, b, n) ==
    /\ b \in live \ Busy
    /\ Enter(t, "realloc", b, n, "findlock")
    /\ UNCHANGED live

UsableSize(t, b) ==
    /\ b \in live \ Busy
    /\ Enter(t, "usable", b, 0, "findlock")
    /\ UNCHANGED live

ClaimedAddress(t, b) == Enter(t, "claimed", b, 0, "findlock") /\ UNCHANGED live

LargeCall(t) ==
    \/ \E n \in Sizes : Malloc(t, n)
    \/ \E b \in Bases : \/ Free(t, b) \/ UsableSize(t, b) \/ ClaimedAddress(t, b)
                        \/ \E n \in NewSizes : Realloc(t, b, n)

-----------------------------------------------------------------------------
(* large_alloc_aligned.                                                    *)

\* The mapping is made, and its header filled in.  There is none of length 0.
Map(t) ==
    /\ At(t, "map")
    /\ Total(want[t]) > 0
    /\ \E b \in Bases \ mapped :
         /\ mapped' = mapped \cup {b}
         /\ size' = [size EXCEPT ![b] = Total(want[t])]
         /\ userSize' = [userSize EXCEPT ![b] = want[t]]
         /\ got' = [got EXCEPT ![t] = b]
    /\ Goto(t, "linklock")
    /\ UNCHANGED <<largeLock, listVars, statVars, live, alive, argVars, la>>

\* os_mmap_aligned fails: the call returns NULL, and realloc leaves its block as it is.
MapFails(t) ==
    /\ At(t, "map")
    /\ Return(t)
    /\ UNCHANGED <<largeLock, listVars, memVars, statVars, live, alive>>

\* Mutant of Lock: the list is used without the lock.
LockNothing(t, l, k) ==
    /\ At(t, l)
    /\ Goto(t, k)
    /\ la' = [la EXCEPT ![t] = largeList]
    /\ UNCHANGED <<largeLock, listVars, memVars, statVars, live, alive, argVars, got>>

\* pthread_mutex_lock(&g_state.large_lock), on the way from label l to k; a walk starts
\* at the head.
Lock(t, l, k) ==
    /\ At(t, l)
    /\ largeLock = NULL
    /\ largeLock' = t
    /\ Goto(t, k)
    /\ la' = [la EXCEPT ![t] = largeList]
    /\ UNCHANGED <<listVars, memVars, statVars, live, alive, argVars, got>>

\* The block becomes the head of the list.
Link(t) ==
    /\ At(t, "link")
    /\ next' = [next EXCEPT ![got[t]] = largeList]
    /\ prev' = [b \in Bases |-> IF b = got[t] THEN NULL
                                ELSE IF b = largeList THEN got[t]
                                ELSE prev[b]]
    /\ largeList' = got[t]
    /\ linked' = linked \cup {got[t]}
    /\ largeLock' = NULL
    /\ la' = [la EXCEPT ![t] = NULL]
    /\ Goto(t, "add")
    /\ UNCHANGED <<memVars, statVars, live, alive, argVars, got>>

\* The counters, and the return of my_malloc; my_realloc goes on with its copy.
Add(t) ==
    /\ At(t, "add")
    /\ largeAllocated' = (largeAllocated + want[t]) % SizeMod
    /\ largeCount' = (largeCount + 1) % SizeMod
    /\ \/ op[t] = "malloc" /\ Return(t) /\ live' = live \cup {got[t]}
       \/ op[t] = "realloc" /\ Goto(t, "moved") /\ UNCHANGED <<live, argVars, la, got>>
    /\ UNCHANGED <<largeLock, listVars, memVars, alive>>

-----------------------------------------------------------------------------
(* large_free.                                                             *)

\* The header of the block: it is unlinked, with head as the new head of the list, and
\* its size is read.
UnlinkTo(t, head, bytes) ==
    /\ At(t, "freewalk")
    /\ la[t] # NULL
    /\ la[t] = ptr[t]
    /\ next' = [b \in Bases |-> IF b = prev[la[t]] THEN next[la[t]] ELSE next[b]]
    /\ prev' = [b \in Bases |-> IF b = next[la[t]] THEN prev[la[t]] ELSE prev[b]]
    /\ largeList' = head
    /\ linked' = linked \ {la[t]}
    /\ want' = [want EXCEPT ![t] = bytes]
    /\ largeLock' = NULL
    /\ Goto(t, "sub")
    /\ UNCHANGED <<memVars, statVars, live, alive, op, ptr, la, got>>

HeadWithout(b) == IF largeList = b THEN next[b] ELSE largeList

\* Mutants of Unlink: every block is taken for the head; the size of the mapping is
\* read for that of the block.
UnlinkAsHead(t) == UnlinkTo(t, next[la[t]], userSize[la[t]])
UnlinkTotal(t)  == UnlinkTo(t, HeadWithout(la[t]), size[la[t]])

Unlink(t) == UnlinkTo(t, HeadWithout(la[t]), userSize[la[t]])

\* os_munmap, with the header.
GiveBack(t) ==
    /\ mapped' = mapped \ {la[t]}
    /\ next' = [next EXCEPT ![la[t]] = NULL]
    /\ prev' = [prev EXCEPT ![la[t]] = NULL]
    /\ size' = [size EXCEPT ![la[t]] = 0]
    /\ userSize' = [userSize EXCEPT ![la[t]] = 0]
    /\ UNCHANGED <<largeLock, largeList, linked, alive>>

\* Mutant of Sub: the mapping is given back before the counters are lowered, and once
\* more afterwards.
SubUnmapped(t) ==
    /\ At(t, "sub")
    /\ GiveBack(t)
    /\ Goto(t, "unmap")
    /\ UNCHANGED <<statVars, live, argVars, la, got>>

\* The counters.
Sub(t) ==
    /\ At(t, "sub")
    /\ largeAllocated' = (largeAllocated - want[t]) % SizeMod
    /\ largeCount' = (largeCount - 1) % SizeMod
    /\ want' = [want EXCEPT ![t] = 0]
    /\ Goto(t, "unmap")
    /\ UNCHANGED <<largeLock, listVars, memVars, live, alive, op, ptr, la, got>>

\* The return of my_free, or of my_realloc with the block it moved to.
Unmap(t) ==
    /\ At(t, "unmap")
    /\ GiveBack(t)
    /\ live' = live \cup ({got[t]} \ {NULL})
    /\ Return(t)
    /\ UNCHANGED statVars

-----------------------------------------------------------------------------
(* large_find, and what its callers do with the header after the unlock.   *)

\* Another block's header: the walk of large_free or large_find goes on.
WalkOn(t) ==
    /\ At(t, "freewalk") \/ At(t, "findwalk")
    /\ la[t] \notin {NULL, ptr[t]}
    /\ la' = [la EXCEPT ![t] = next[la[t]]]
    /\ UNCHANGED <<largeLock, listVars, memVars, statVars, live, alive, pc, argVars, got>>

\* Mutant of NotFound: the early return forgets the lock.
NotFoundLocked(t) ==
    /\ At(t, "freewalk") \/ At(t, "findwalk")
    /\ la[t] = NULL
    /\ live' = live \cup ({got[t]} \ {NULL})
    /\ Return(t)
    /\ UNCHANGED <<largeLock, listVars, memVars, statVars, alive>>

\* The list has ended: large_free does nothing, and large_find answers NULL.
NotFound(t) ==
    /\ At(t, "freewalk") \/ At(t, "findwalk")
    /\ la[t] = NULL
    /\ largeLock' = NULL
    /\ live' = live \cup ({got[t]} \ {NULL})
    /\ Return(t)
    /\ UNCHANGED <<listVars, memVars, statVars, alive>>

\* The header is found, and the lock released.
Found(t) ==
    /\ At(t, "findwalk")
    /\ la[t] = ptr[t]
    /\ largeLock' = NULL
    /\ Goto(t, "found")
    /\ UNCHANGED <<listVars, memVars, statVars, live, alive, argVars, la, got>>

\* zone_claimed_address has its answer; large_usable_size reads the header once more.
Answer(t) ==
    /\ At(t, "found")
    /\ op[t] \in {"claimed", "usable"}
    /\ Return(t)
    /\ UNCHANGED <<largeLock, listVars, memVars, statVars, live, alive>>

\* The bytes of a block from its address to the end of its mapping.
Room(b) == (size[b] - HeaderSpace) % SizeMod

\* my_realloc: the mapping is large enough, and only user_size changes ...
Resize(t) ==
    /\ At(t, "found")
    /\ op[t] = "realloc"
    /\ want[t] <= Room(la[t])
    /\ userSize' = [userSize EXCEPT ![la[t]] = want[t]]
    /\ Return(t)
    /\ UNCHANGED <<largeLock, listVars, mapped, size, statVars, live, alive>>

\* ... or it is not, and my_malloc allocates a new block, which is large, ...
Grow(t) ==
    /\ At(t, "found")
    /\ op[t] = "realloc"
    /\ want[t] > Room(la[t])
    /\ want[t] > SlabMax
    /\ la' = [la EXCEPT ![t] = NULL]
    /\ Goto(t, "map")
    /\ UNCHANGED <<largeLock, listVars, memVars, statVars, live, alive, argVars, got>>

\* ... or, if the old block was one of my_memalign, may be a slot: slab_alloc finds one, or
\* none, and then my_realloc leaves the old block as it is.
GrowSlab(t) ==
    /\ At(t, "found")
    /\ op[t] = "realloc"
    /\ want[t] > Room(la[t])
    /\ want[t] <= SlabMax
    /\ \/ /\ la' = [la EXCEPT ![t] = NULL]
          /\ Goto(t, "moved")
          /\ UNCHANGED <<argVars, got>>
       \/ Return(t)
    /\ UNCHANGED <<largeLock, listVars, memVars, statVars, live, alive>>

\* The contents are copied and the old block is freed.
FreeOld(t) ==
    /\ At(t, "moved")
    /\ live' = live \ {ptr[t]}
    /\ want' = [want EXCEPT ![t] = 0]
    /\ Goto(t, "freelock")
    /\ UNCHANGED <<largeLock, listVars, memVars, statVars, alive, op, ptr, la, got>>

LargeLock(t) ==
    \/ Lock(t, "linklock", "link")
    \/ Lock(t, "freelock", "freewalk")
    \/ Lock(t, "findlock", "findwalk")

LargeStep(t) ==
    \/ Map(t) \/ MapFails(t) \/ Link(t) \/ Add(t)
    \/ Unlink(t) \/ Sub(t) \/ Unmap(t)
    \/ WalkOn(t) \/ NotFound(t) \/ Found(t) \/ Answer(t)
    \/ Resize(t) \/ Grow(t) \/ GrowSlab(t) \/ FreeOld(t)
=============================================================================
