----------------------------- MODULE FreeLists ------------------------------
(***************************************************************************)
(* The free lists of one page, link by link: local_free, and the Treiber   *)
(* stack remote_free of malloc_atomic.h, with the counters of the page and *)
(* the bitmap of the debug build.  A list lives in the free slots          *)
(* themselves, whose first word is the link to the next one; while the     *)
(* program holds a slot that word is the program's, and holds anything.    *)
(*                                                                         *)
(* The page has an owner, and every slot has been handed out by the bump   *)
(* pointer: the state in which slab_alloc lives off the lists.             *)
(***************************************************************************)
EXTENDS Integers, Sequences, FiniteSets, Functions

CONSTANTS
    Slots,
    Remotes,        \* the threads that free a slot of the page without owning it
    TagMod,         \* 2^16: the tag of remote_free counts modulo this
    CountMod,       \* 2^16: and so do the counters of the page and of a walk
    NULL

ASSUME ListsAssumption ==
    /\ IsFiniteSet(Slots)
    /\ TagMod \in Nat \ {0}
    /\ CountMod \in Nat
    /\ IsFiniteSet(Remotes)
    \* a page has at most 4096 slots, and each thread adds at most one to used
    /\ CountMod > Cardinality(Slots) + Cardinality(Remotes)
    /\ NULL \notin Slots

Pointer == Slots \cup {NULL}
Tagged  == [ptr : Pointer, tag : 0 .. TagMod - 1]

VARIABLES
    head,           \* page->remote_free
    localFree,      \* page->local_free
    localCount,     \* page->local_free_count
    remoteCount,    \* page->remote_free_count
    used,           \* page->used
    bitmap,         \* the slots whose bit in page->debug_bitmap is set
    link,           \* slot -> its first word
    live,           \* the slots the program holds
    \* the owner in slab_alloc or slab_free
    opc, oldHead, list, current, count,
    \* the other threads in treiber_push
    rpc, node, old

ownerVars  == <<opc, oldHead, list, current, count>>
remoteVars == <<rpc, node, old>>
pageVars   == <<head, localFree, localCount, remoteCount, used, bitmap, link, live>>
vars == <<pageVars, ownerVars, remoteVars>>

\* The page is full: the program holds, and has written, every slot.
Init ==
    /\ head = [ptr |-> NULL, tag |-> 0]
    /\ localFree = NULL
    /\ localCount = 0
    /\ remoteCount = 0
    /\ used = Cardinality(Slots)
    /\ bitmap = Slots
    /\ link \in [Slots -> Pointer]
    /\ live = Slots
    /\ opc = "idle" /\ oldHead = NULL /\ list = NULL /\ current = NULL /\ count = 0
    /\ rpc = [r \in Remotes |-> "idle"]
    /\ node = [r \in Remotes |-> NULL]
    /\ old = [r \in Remotes |-> NULL]

\* tagged_make with the tag counted on.
Retag(p, h) == [ptr |-> p, tag |-> (h.tag + 1) % TagMod]

\* debug_mark_allocated and debug_check_and_mark_freed.  They abort on a bit that is set,
\* or clear, already; here the bits then no longer add up to used.
MarkAllocated(s) == bitmap' = bitmap \cup {s}
MarkFreed(s)     == bitmap' = bitmap \ {s}

-----------------------------------------------------------------------------
(* The owner.                                                              *)

\* slab_alloc pops local_free, at "pop" after a collection; the program writes the
\* slot.
Pop ==
    /\ opc \in {"idle", "pop"}
    /\ localFree # NULL
    /\ localFree' = link[localFree]
    /\ localCount' = (localCount - 1) % CountMod
    /\ used' = (used + 1) % CountMod
    /\ MarkAllocated(localFree)
    /\ live' = live \cup {localFree}
    /\ \E word \in Pointer : link' = [link EXCEPT ![localFree] = word]
    /\ opc' = "idle"
    /\ UNCHANGED <<head, remoteCount, oldHead, list, current, count, remoteVars>>

\* slab_free by the owner.
FreeLocal(s) ==
    /\ opc = "idle"
    /\ s \in live
    /\ MarkFreed(s)
    /\ link' = [link EXCEPT ![s] = localFree]
    /\ localFree' = s
    /\ localCount' = (localCount + 1) % CountMod
    /\ used' = (used - 1) % CountMod
    /\ live' = live \ {s}
    /\ UNCHANGED <<head, remoteCount, ownerVars, remoteVars>>

\* local_free is empty: treiber_collect loads the head of a stack that is not ...
CollectLoad ==
    /\ \/ opc = "idle" /\ localFree = NULL
       \/ opc = "retry"
    /\ head.ptr # NULL
    /\ oldHead' = head
    /\ opc' = "cas"
    /\ UNCHANGED <<pageVars, list, current, count, remoteVars>>

\* ... and swaps it for an empty one.  page_collect_remote starts its walk.
CollectCAS ==
    /\ opc = "cas"
    /\ head = oldHead
    /\ head' = Retag(NULL, oldHead)
    /\ list' = oldHead.ptr
    /\ current' = oldHead.ptr
    /\ count' = 0
    /\ oldHead' = NULL
    /\ opc' = "walk"
    /\ UNCHANGED <<localFree, localCount, remoteCount, used, bitmap, link, live,
                   remoteVars>>

\* The weak compare-and-swap fails, because the head has changed or for no reason.
CollectFails ==
    /\ opc = "cas"
    /\ oldHead' = NULL
    /\ opc' = "retry"
    /\ UNCHANGED <<pageVars, list, current, count, remoteVars>>

\* One turn of the loop that looks for the tail.
Walk ==
    /\ opc = "walk"
    /\ count' = (count + 1) % CountMod
    /\ \/ /\ link[current] # NULL
          /\ current' = link[current]
          /\ UNCHANGED opc
       \/ /\ link[current] = NULL
          /\ opc' = "splice"
          /\ UNCHANGED current
    /\ UNCHANGED <<pageVars, oldHead, list, remoteVars>>

SpliceCounting(n) ==
    /\ opc = "splice"
    /\ link' = [link EXCEPT ![current] = localFree]
    /\ localFree' = list
    /\ localCount' = (localCount + n) % CountMod
    /\ remoteCount' = (remoteCount - n) % CountMod
    /\ opc' = "pop"
    /\ list' = NULL /\ current' = NULL /\ count' = 0
    /\ UNCHANGED <<head, used, bitmap, live, oldHead, remoteVars>>

\* Mutant of Splice: the walk counts its links, one less than its slots.
SpliceLinks == SpliceCounting(count - 1)

\* The tail is linked to local_free, and the collected list becomes local_free.
Splice == SpliceCounting(count)

-----------------------------------------------------------------------------
(* The other threads: slab_free, page_free_slot_remote, treiber_push.      *)

FreeRemote(r, s) ==
    /\ rpc[r] = "idle"
    /\ s \in live
    /\ live' = live \ {s}
    /\ MarkFreed(s)
    /\ node' = [node EXCEPT ![r] = s]
    /\ rpc' = [rpc EXCEPT ![r] = "load"]
    /\ UNCHANGED <<head, localFree, localCount, remoteCount, used, link, ownerVars, old>>

PushLoadLinking(r, word) ==
    /\ rpc[r] = "load"
    /\ old' = [old EXCEPT ![r] = head]
    /\ link' = [link EXCEPT ![node[r]] = word]
    /\ rpc' = [rpc EXCEPT ![r] = "cas"]
    /\ UNCHANGED <<head, localFree, localCount, remoteCount, used, bitmap, live,
                   ownerVars, node>>

\* Mutant of PushLoad: the node is not linked before the swap.
PushLoadUnlinked(r) == PushLoadLinking(r, link[node[r]])

\* Load the head and write it into the node, which is this thread's alone.
PushLoad(r) == PushLoadLinking(r, head.ptr)

\* The slot goes on the list: in PushCAS if the head is still the one it was linked
\* to; alone, without the comparison, a mutant of PushCAS.
PushStore(r) ==
    /\ rpc[r] = "cas"
    /\ head' = Retag(node[r], old[r])
    /\ rpc' = [rpc EXCEPT ![r] = "count"]
    /\ node' = [node EXCEPT ![r] = NULL]
    /\ old' = [old EXCEPT ![r] = NULL]
    /\ UNCHANGED <<localFree, localCount, remoteCount, used, bitmap, link, live,
                   ownerVars>>

PushCAS(r) == head = old[r] /\ PushStore(r)

PushFails(r) ==
    /\ rpc[r] = "cas"
    /\ rpc' = [rpc EXCEPT ![r] = "load"]
    /\ old' = [old EXCEPT ![r] = NULL]
    /\ UNCHANGED <<pageVars, ownerVars, node>>

\* The slot is on the list, and may have been collected and handed out, before
\* page_free_slot_remote counts it ...
PushCounted(r) ==
    /\ rpc[r] = "count"
    /\ remoteCount' = (remoteCount + 1) % CountMod
    /\ rpc' = [rpc EXCEPT ![r] = "used"]
    /\ UNCHANGED <<head, localFree, localCount, used, bitmap, link, live, ownerVars,
                   node, old>>

\* ... and takes it off used.
PushReturns(r) ==
    /\ rpc[r] = "used"
    /\ used' = (used - 1) % CountMod
    /\ rpc' = [rpc EXCEPT ![r] = "idle"]
    /\ UNCHANGED <<head, localFree, localCount, remoteCount, bitmap, link, live,
                   ownerVars, node, old>>

-----------------------------------------------------------------------------
\* The owner goes on with the call it is in.
OwnerStep ==
    \/ opc = "pop" /\ Pop
    \/ opc = "retry" /\ CollectLoad
    \/ CollectCAS
    \/ CollectFails
    \/ Walk
    \/ Splice

Next ==
    \/ OwnerStep
    \/ opc = "idle" /\ (Pop \/ CollectLoad)
    \/ \E s \in Slots : FreeLocal(s)
    \/ \E r \in Remotes :
          PushLoad(r) \/ PushCAS(r) \/ PushFails(r) \/ PushCounted(r) \/ PushReturns(r)
    \/ \E r \in Remotes, s \in Slots : FreeRemote(r, s)

\* Once it has detached the remote list, the owner keeps running.
Fairness == WF_vars(Walk) /\ WF_vars(Splice) /\ WF_vars(opc = "pop" /\ Pop)

Spec == Init /\ [][Next]_vars /\ Fairness

-----------------------------------------------------------------------------
(* Properties.                                                             *)

\* Every variable keeps the type of the field or local variable it models.
TypeOK ==
    /\ head \in Tagged
    /\ localFree \in Pointer
    /\ localCount \in 0 .. Cardinality(Slots)
    /\ remoteCount \in 0 .. CountMod - 1
    /\ used \in 0 .. Cardinality(Slots) + Cardinality(Remotes)
    /\ bitmap \in SUBSET Slots
    /\ link \in [Slots -> Pointer]
    /\ live \in SUBSET Slots
    /\ opc \in {"idle", "retry", "cas", "walk", "splice", "pop"}
    /\ oldHead \in Tagged \cup {NULL}
    /\ list \in Pointer
    /\ current \in Pointer
    /\ count \in 0 .. Cardinality(Slots)
    /\ rpc \in [Remotes -> {"idle", "load", "cas", "count", "used"}]
    /\ node \in [Remotes -> Pointer]
    /\ old \in [Remotes -> Tagged \cup {NULL}]

\* The list that the links form from p on; one slot too long if they run in a circle.
Chain(links, p) ==
    LET from[n \in 0 .. Cardinality(Slots) + 1] ==
          [q \in Pointer |-> IF n = 0 \/ q = NULL THEN <<>>
                             ELSE <<q>> \o from[n - 1][links[q]]]
    IN  from[Cardinality(Slots) + 1][p]

\* The slots that the other threads are about to push.
Pushing == {node[r] : r \in {x \in Remotes : node[x] # NULL}}

\* What page_collect_remote has detached and not yet spliced in is the owner's.
lists == INSTANCE PageLists WITH
    localFree  <- Chain(link, list) \o Chain(link, localFree),
    remoteFree <- Chain(link, head.ptr),
    out        <- live \cup Pushing

\* Whatever the program leaves in its slots, and although a head may be collected,
\* handed out, freed and pushed again between the load and the compare-and-swap of
\* a push, the links behave as two sequences: a slot is pushed, collected and
\* popped once, in order, and none is lost.  With TagMod = 1 this does without the
\* tag.
ListsSpec == lists!Spec

\* The links lead from p through s, without a repetition, to NULL.
IsList(links, p, s) ==
    /\ s \in Seq(Slots)
    /\ IsInjective(s)
    /\ p = IF s = <<>> THEN NULL ELSE s[1]
    /\ \A i \in 1 .. Len(s) : links[s[i]] = IF i = Len(s) THEN NULL ELSE s[i + 1]

\* local_free is L, remote_free is R, and D is what a collection has detached.  Every slot
\* is on one of them, or the program's, or in the hands of one thread that pushes it.
PlacesOK(L, R, D) ==
    /\ IsList(link, localFree, L)
    /\ IsList(link, head.ptr, R)
    /\ IsList(link, list, D)
    /\ Range(L) \cap Range(R) = {}
    /\ Range(L) \cap Range(D) = {}
    /\ Range(R) \cap Range(D) = {}
    /\ live \cap (Range(L) \cup Range(R) \cup Range(D)) = {}
    /\ Pushing \cap (live \cup Range(L) \cup Range(R) \cup Range(D)) = {}
    /\ \A r, u \in Remotes : node[r] = node[u] /\ node[r] # NULL => r = u
    /\ Slots = live \cup Pushing \cup Range(L) \cup Range(R) \cup Range(D)

\* A thread that is about to swap the head has linked its slot to the head it has seen,
\* whatever has become of that since.
RemotesOK ==
    \A r \in Remotes :
        /\ node[r] # NULL <=> rpc[r] \in {"load", "cas"}
        /\ rpc[r] = "cas" => old[r] \in Tagged /\ link[node[r]] = old[r].ptr

\* A collection starts from an empty local_free, and its walk is at slot count + 1 of D.
OwnerOK(D) ==
    /\ list # NULL <=> opc \in {"walk", "splice"}
    /\ opc \in {"retry", "cas", "walk", "splice"} => localFree = NULL
    /\ opc = "cas" => oldHead \in Tagged /\ oldHead.ptr # NULL
    /\ opc = "walk" => count < Len(D) /\ current = D[count + 1]
    /\ opc = "splice" => count = Len(D) /\ current = D[count]

\* The remote frees that are on the list and not yet counted, and those not yet taken
\* off used.
Uncounted == {r \in Remotes : rpc[r] = "count"}
Unused    == {r \in Remotes : rpc[r] # "idle"}

\* The counters lag behind the lists by the calls that are under way; remote_free_count
\* may be below zero, and has then wrapped around.
CountsOK(L, R, D) ==
    /\ bitmap = live
    /\ localCount = Len(L)
    /\ used = Cardinality(live) + Cardinality(Unused)
    /\ LET net == Len(R) + Len(D) - Cardinality(Uncounted)
       IN  remoteCount = IF net < 0 THEN net + CountMod ELSE net

ListsAre(L, R, D) == PlacesOK(L, R, D) /\ RemotesOK /\ OwnerOK(D) /\ CountsOK(L, R, D)

\* What the owner and the other threads keep true of the links, step by step, however
\* their steps interleave: at any moment they form lists, no slot is in two places or
\* in none, and the counters can be explained.
ListsInv ==
    TypeOK /\ ListsAre(Chain(link, localFree), Chain(link, head.ptr), Chain(link, list))

\* The tests that debug_heap_check makes of a page: as many bits are set as slots are
\* used; local_free has no cycle, and no bit of an entry is set; local_free_count is
\* its length; and used, local, remote and unbumped slots make up the page.
DebugHeapCheck ==
    LET walk == Chain(link, localFree)
    IN  /\ Cardinality(bitmap) = used
        /\ Len(walk) <= Cardinality(Slots)
        /\ \A n \in 1 .. Len(walk) : walk[n] \notin bitmap
        /\ Len(walk) = localCount
        /\ used + Len(walk) + remoteCount = Cardinality(Slots)

\* Whenever no call is under way, however the calls before have overlapped, the page
\* passes debug_heap_check: the counters, which are raised and lowered apart from the
\* lists and for a while wrap around, have met again.
QuiescentHeapOK ==
    opc = "idle" /\ (\A r \in Remotes : rpc[r] = "idle") => DebugHeapCheck

\* The walk over the detached list ends, however the other threads go on pushing.
WalkEnds == opc = "walk" ~> opc = "idle"
=============================================================================
