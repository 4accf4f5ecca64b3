-------------------------------- MODULE Zone --------------------------------
(***************************************************************************)
(* The callbacks of zone.c that meet other calls: zone_statistics with its *)
(* peak, and zone_force_lock and zone_force_unlock, between which the      *)
(* process forks.  They are composed with the large allocations and with   *)
(* the arena locks, which arena_alloc and zone_pressure_relief take too.   *)
(*                                                                         *)
(* The child of a fork has one thread.  What the others held at that       *)
(* moment they hold for ever.                                              *)
(***************************************************************************)
EXTENDS LargeAlloc

CONSTANTS
    NumArenas,
    MaxBytes        \* bound: the bytes in use that a query may see

ASSUME ZoneAssumption == NumArenas \in Nat /\ MaxBytes \in Nat

Arena == 0 .. NumArenas - 1

VARIABLES
    arenaLock,      \* arena -> the thread that holds its lock, or NULL
    peak,           \* g_state.peak_in_use
    n,              \* thread -> its arena, or loop counter
    bytes, prevPeak \* thread -> the locals of zone_statistics

zoneVars == <<arenaLock, peak, n, bytes, prevPeak>>
vars == <<largeVars, zoneVars>>

\* Everything but large_lock and the registers of a thread in a callback.
stillVars == <<listVars, memVars, statVars, live, argVars, la, got>>

Init ==
    /\ LargeInit
    /\ arenaLock = [a \in Arena |-> NULL]
    /\ peak = 0
    /\ n = [t \in Threads |-> 0]
    /\ bytes = [t \in Threads |-> 0]
    /\ prevPeak = [t \in Threads |-> 0]

-----------------------------------------------------------------------------
(* zone_statistics.                                                        *)

\* The bytes in use are a sum of counters read one after the other while the threads
\* change them: it may be anything.
QueryBytes(t) ==
    /\ At(t, "idle")
    /\ \E sum \in 0 .. MaxBytes : bytes' = [bytes EXCEPT ![t] = sum]
    /\ Goto(t, "peak")
    /\ UNCHANGED <<largeLock, alive, stillVars, arenaLock, peak, n, prevPeak>>

QueryPeak(t) ==
    /\ At(t, "peak")
    /\ prevPeak' = [prevPeak EXCEPT ![t] = peak]
    /\ Goto(t, "raise")
    /\ UNCHANGED <<largeLock, alive, stillVars, arenaLock, peak, n, bytes>>

\* The callback ends with the value p for the peak.
QueryEnds(t, p) ==
    /\ At(t, "raise")
    /\ peak' = p
    /\ bytes' = [bytes EXCEPT ![t] = 0]
    /\ prevPeak' = [prevPeak EXCEPT ![t] = 0]
    /\ Goto(t, "idle")
    /\ UNCHANGED <<largeLock, alive, stillVars, arenaLock, n>>

\* Mutant of QueryRaise: the peak is stored without a compare-and-swap.
QueryStores(t) ==
    QueryEnds(t, IF bytes[t] > prevPeak[t] THEN bytes[t] ELSE peak)

\* One compare-and-swap, if the bytes exceed the peak; it is not retried.
QueryRaise(t) ==
    QueryEnds(t, IF bytes[t] > prevPeak[t] /\ peak = prevPeak[t] THEN bytes[t] ELSE peak)

-----------------------------------------------------------------------------
(* The arena locks.                                                        *)

LockArena(t, a) == arenaLock[a] = NULL /\ arenaLock' = [arenaLock EXCEPT ![a] = t]

\* A thread starts arena_alloc in arena a, or a callback with a loop over the arenas.
EnterArenas(t, l, a) ==
    /\ At(t, "idle")
    /\ Goto(t, l)
    /\ n' = [n EXCEPT ![t] = a]
    /\ UNCHANGED <<largeLock, alive, stillVars, arenaLock, peak, bytes, prevPeak>>

\* zone_pressure_relief or arena_alloc locks an arena ...
WorkLock(t) ==
    /\ At(t, "alloc") \/ (At(t, "relief") /\ n[t] < NumArenas)
    /\ LockArena(t, n[t])
    /\ Goto(t, IF pc[t] = "alloc" THEN "allocating" ELSE "relieving")
    /\ UNCHANGED <<largeLock, alive, stillVars, peak, n, bytes, prevPeak>>

\* ... and unlocks it; the loop goes on with the next arena.
WorkUnlock(t) ==
    /\ At(t, "allocating") \/ At(t, "relieving")
    /\ arenaLock' = [arenaLock EXCEPT ![n[t]] = NULL]
    /\ IF pc[t] = "allocating"
       THEN Goto(t, "idle") /\ n' = [n EXCEPT ![t] = 0]
       ELSE Goto(t, "relief") /\ n' = [n EXCEPT ![t] = n[t] + 1]
    /\ UNCHANGED <<largeLock, alive, stillVars, peak, bytes, prevPeak>>

ReliefEnds(t) ==
    /\ At(t, "relief")
    /\ n[t] = NumArenas
    /\ Goto(t, "idle")
    /\ n' = [n EXCEPT ![t] = 0]
    /\ UNCHANGED <<largeLock, alive, stillVars, arenaLock, peak, bytes, prevPeak>>

-----------------------------------------------------------------------------
(* Fork.                                                                   *)

\* zone_force_lock takes the arena locks in order ...
ForceLockArena(t) ==
    /\ At(t, "force")
    /\ n[t] < NumArenas
    /\ LockArena(t, n[t])
    /\ n' = [n EXCEPT ![t] = n[t] + 1]
    /\ UNCHANGED <<largeLock, alive, stillVars, pc, peak, bytes, prevPeak>>

\* Mutant of ForceLockLarge: large_lock is forgotten.
ForceLockArenasOnly(t) ==
    /\ At(t, "force")
    /\ n[t] = NumArenas
    /\ Goto(t, "fork")
    /\ UNCHANGED <<largeLock, alive, stillVars, zoneVars>>

\* ... and then large_lock.
ForceLockLarge(t) ==
    /\ At(t, "force")
    /\ n[t] = NumArenas
    /\ largeLock = NULL
    /\ largeLock' = t
    /\ Goto(t, "fork")
    /\ UNCHANGED <<alive, stillVars, zoneVars>>

\* zone_force_unlock after the fork, in the parent with S = alive and in the child with
\* the thread alone.
ForceUnlock(t, S) ==
    /\ At(t, "fork")
    /\ largeLock' = NULL
    /\ arenaLock' = [a \in Arena |-> NULL]
    /\ alive' = S
    /\ n' = [n EXCEPT ![t] = 0]
    /\ Goto(t, "idle")
    /\ UNCHANGED <<stillVars, peak, bytes, prevPeak>>

-----------------------------------------------------------------------------
ZoneCall(t) ==
    \/ QueryBytes(t)
    \/ \E a \in Arena : EnterArenas(t, "alloc", a)
    \/ EnterArenas(t, "relief", 0)
    \/ EnterArenas(t, "force", 0)

ZoneLock(t) == WorkLock(t) \/ ForceLockArena(t) \/ ForceLockLarge(t)

ZoneStep(t) ==
    \/ QueryPeak(t) \/ QueryRaise(t)
    \/ WorkUnlock(t) \/ ReliefEnds(t)
    \/ ForceUnlock(t, alive) \/ ForceUnlock(t, {t})

Locks(t) == (LargeLock(t) /\ UNCHANGED zoneVars) \/ ZoneLock(t)

Step(t) == Locks(t) \/ (LargeStep(t) /\ UNCHANGED zoneVars) \/ ZoneStep(t)

Next == \E t \in Threads :
            (LargeCall(t) /\ UNCHANGED zoneVars) \/ ZoneCall(t) \/ Step(t)

Spec == Init /\ [][Next]_vars

\* A thread in a call keeps running, and gets a lock that is released again and again.
Fairness == \A t \in Threads : WF_vars(Step(t)) /\ SF_vars(Locks(t))

FairSpec == Spec /\ Fairness

-----------------------------------------------------------------------------
(* Properties.                                                             *)

Label == {"idle", "map", "linklock", "link", "add", "moved", "freelock", "freewalk", "sub",
          "unmap", "findlock", "findwalk", "found", "peak", "raise", "alloc", "allocating",
          "relief", "relieving", "force", "fork"}

\* Every variable keeps the type of what it models.
TypeOK ==
    /\ largeLock \in Threads \cup {NULL}
    /\ largeList \in Bases \cup {NULL}
    /\ next \in [Bases -> Bases \cup {NULL}]
    /\ prev \in [Bases -> Bases \cup {NULL}]
    /\ mapped \in SUBSET Bases
    /\ linked \in SUBSET Bases
    /\ live \in SUBSET Bases
    /\ alive \in SUBSET Threads
    /\ size \in [Bases -> Int]
    /\ userSize \in [Bases -> Nat]
    /\ pc \in [Threads -> Label]
    /\ op \in [Threads -> {"none", "malloc", "free", "realloc", "usable", "claimed"}]
    /\ ptr \in [Threads -> Bases \cup {NULL}]
    /\ want \in [Threads -> Nat]
    /\ la \in [Threads -> Bases \cup {NULL}]
    /\ got \in [Threads -> Bases \cup {NULL}]
    /\ arenaLock \in [Arena -> Threads \cup {NULL}]
    /\ peak \in Nat
    /\ n \in [Threads -> 0 .. NumArenas]
    /\ bytes \in [Threads -> Nat]
    /\ prevPeak \in [Threads -> Nat]

\* A label is left only by the thread that is there, and says which locks it holds: no
\* other thread is on the list, or in an arena, with it; and a thread that a fork has
\* left behind holds none.
LocksOK ==
    /\ \A t \in Threads : largeLock = t <=> pc[t] \in {"link", "freewalk", "findwalk", "fork"}
    /\ \A t \in Threads, a \in Arena :
         arenaLock[a] = t <=>
           \/ pc[t] \in {"allocating", "relieving"} /\ n[t] = a
           \/ pc[t] \in {"force", "fork"} /\ a < n[t]
    /\ \A t \in Threads :
         /\ pc[t] \in {"alloc", "allocating", "relieving"} => n[t] \in Arena
         /\ pc[t] = "fork" => n[t] = NumArenas

\* The list is linked both ways.
ListOK ==
    /\ largeList \in linked \cup {NULL}
    /\ linked \subseteq mapped
    /\ \A b \in linked :
         /\ next[b] \in linked \cup {NULL}
         /\ prev[b] \in linked \cup {NULL}
         /\ next[b] # NULL => prev[next[b]] = b
         /\ prev[b] # NULL => next[prev[b]] = b
         /\ prev[b] = NULL <=> largeList = b

Freeing == {"freelock", "freewalk", "sub", "unmap"}

\* A thread alone has the block that it has mapped, and the one it frees.
Owns(t, b) == b = got[t] \/ (b = ptr[t] /\ pc[t] \in Freeing)

\* A block has one owner, and is on the list but for the moments after its mapping and
\* before its unmapping.
OwnersOK ==
    /\ live \subseteq linked
    /\ \A t \in Threads, b \in Bases : Owns(t, b) =>
         /\ b \in mapped /\ b \notin live
         /\ \A u \in Threads : Owns(u, b) => u = t
    /\ \A t \in Threads :
         /\ got[t] # NULL => pc[t] \in {"linklock", "link", "add", "moved"} \cup Freeing
         /\ pc[t] \in {"linklock", "link"} => got[t] \in Bases /\ got[t] \notin linked
         /\ pc[t] = "add" => got[t] \in linked
         /\ pc[t] = "moved" => got[t] = NULL \/ got[t] \in linked
         /\ pc[t] \in Freeing => got[t] = NULL \/ (got[t] \in linked /\ got[t] # ptr[t])
         /\ pc[t] \in {"freelock", "freewalk"} => ptr[t] \in linked
         /\ pc[t] \in {"sub", "unmap"} =>
              la[t] = ptr[t] /\ ptr[t] \in Bases /\ ptr[t] \notin linked

\* What a call has found is the block of its argument, which the program holds and no
\* other call of its threads is about.
CallsOK ==
    \A t \in Threads :
        /\ pc[t] \in {"freewalk", "findwalk"} => la[t] \in linked \cup {NULL}
        /\ pc[t] \in {"findlock", "findwalk", "found"} =>
             ptr[t] \in Bases /\ op[t] \in {"realloc", "usable", "claimed"}
        /\ pc[t] = "found" => la[t] = ptr[t]
        /\ pc[t] = "moved" => op[t] = "realloc"
        /\ t \in alive /\ op[t] \in {"realloc", "usable"} /\ pc[t] \notin Freeing =>
             ptr[t] \in live
        /\ t \in alive /\ op[t] # "claimed" /\ ptr[t] # NULL =>
             \A u \in alive \ {t} : op[u] # "claimed" => ptr[u] # ptr[t]

\* What large_lock, the arena locks and the discipline of the calls keep true together.
ZoneInv == TypeOK /\ LocksOK /\ ListOK /\ OwnersOK /\ CallsOK

\* A realloc that moves has given the program its new block before it frees the old one.
Moved(t) == pc[t] \in Freeing \cup {"moved"}

Held == live \cup ({got[t] : t \in {u \in Threads : Moved(u)}} \ {NULL})

\* The blocks in the counters: a block is counted just before it is returned, and still
\* while it is being unlinked.
Counted == Held \cup {ptr[t] : t \in {u \in Threads : pc[u] \in Freeing \ {"unmap"}}}

\* What a thread adds or subtracts is the user_size in the header of its block.
AmountOK(t) ==
    /\ pc[t] \in {"linklock", "link", "add"} => userSize[got[t]] = want[t]
    /\ pc[t] = "sub" => userSize[ptr[t]] = want[t]
    /\ pc[t] \in {"map", "linklock", "link", "add", "moved"} \cup Freeing => op[t] # "none"

\* The number of blocks is right at every moment for the blocks counted so far.
StatsOK ==
    /\ largeCount = Cardinality(Counted)
    /\ largeAllocated \in 0 .. SizeMod - 1
    /\ \A t \in Threads : AmountOK(t)

LargeInv == ZoneInv /\ StatsOK

\* The headers and blocks that the next step of a thread reads or writes.
Touched(t) ==
    CASE pc[t] = "link" -> {got[t], largeList}
      [] pc[t] = "freewalk" -> {la[t]} \cup (IF la[t] = ptr[t] /\ la[t] # NULL
                                             THEN {next[la[t]], prev[la[t]]} ELSE {})
      [] pc[t] \in {"findwalk", "unmap"} -> {la[t]}
      [] pc[t] = "found" /\ op[t] # "claimed" -> {la[t]}
      [] pc[t] = "moved" -> {ptr[t], got[t]}
      [] OTHER -> {}

\* No call reads or writes a mapping that another call has given back: not the walks of
\* large_free and large_find, not the neighbours that are relinked, and not the header
\* that my_realloc and large_usable_size use after large_find has released the lock.
NoUseAfterUnmap ==
    /\ live \subseteq mapped
    /\ \A t \in alive : Touched(t) \subseteq mapped \cup {NULL}

\* The headers that a walk from large_list meets.
OnList ==
    LET upTo[k \in 0 .. Cardinality(Bases)] ==
          IF k = 0 THEN {largeList} \ {NULL}
          ELSE upTo[k - 1] \cup ({next[b] : b \in upTo[k - 1]} \ {NULL})
    IN  upTo[Cardinality(Bases)]

\* Every block the program holds is found by a walk, however blocks around it come and
\* go, and in the child of a fork too: large_free would silently ignore it otherwise.
\* And no walk for such a block that is under way comes to the end of the list.
LiveFound ==
    /\ live \subseteq OnList
    /\ \A t \in alive :
         pc[t] = "freewalk" \/ (pc[t] = "findwalk" /\ op[t] # "claimed") => la[t] # NULL

\* When no large call is under way, large_alloc_count is the number of blocks, and
\* large_allocated the "bytes currently in large allocs".
LargeStatsRight ==
    (\A t \in Threads : op[t] = "none") =>
        /\ largeCount = Cardinality(live)
        /\ largeAllocated = SumFunctionOnSet(userSize, live) % SizeMod

\* By how much large_allocated is above the user sizes of the blocks counted so far.
Drift == (largeAllocated - SumFunctionOnSet(userSize, Counted)) % SizeMod

\* However the counting of calls overlaps, and whatever a fork cuts off, only a my_realloc
\* in place takes large_allocated away from the blocks it counts, and only by the bytes it
\* has changed.
OnlyReallocDrifts ==
    [][\/ Drift' = Drift
       \/ \E t \in Threads :
            Resize(t) /\ Drift' = (Drift + userSize[la[t]] - want[t]) % SizeMod]_vars

\* However queries overlap, the watermark peak_in_use never goes down.
PeakNeverFalls == [][peak' >= peak]_vars

\* Every call returns, and in the child of a fork too: no path keeps a lock, the order
\* of zone_force_lock leads to no deadlock, and no thread that the fork leaves behind
\* holds what the child needs.
CallsReturn ==
    \A t \in Threads : pc[t] # "idle" ~> (pc[t] = "idle" \/ t \notin alive)

\* The block that the call of a thread is about to return, or to recycle.
Hand(t) == CASE pc[t] \in Freeing -> ptr[t]
             [] pc[t] = "moved"   -> NULL
             [] OTHER             -> got[t]

Hands == [t \in Threads |-> Hand(t)]

heap == INSTANCE Heap WITH Block <- Bases, live <- Held, hand <- Hands

\* The large allocations keep the promises of malloc and free: a block belongs to one
\* call or one holder at a time, from its mapping to its unmapping, and a realloc that
\* moves is a malloc followed by a free.
HeapSpec == heap!Spec
=============================================================================
