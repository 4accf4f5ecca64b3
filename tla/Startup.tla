------------------------------ MODULE Startup -------------------------------
(***************************************************************************)
(* malloc_init of init.c, which the first calls race for, the thread-local *)
(* data of tld.c and arena_get, composed with the segment registry that    *)
(* malloc_init zeroes and arena_alloc fills.  A call of my_malloc goes     *)
(* through malloc_ensure_init; a call of my_free looks its pointer up in   *)
(* the registry without it.                                                *)
(*                                                                         *)
(* The functions of the operating system that malloc_init calls do not     *)
(* call malloc here; EarlyMalloc has one that does.                        *)
(***************************************************************************)
EXTENDS SegmentRegistry, FiniteSets

CONSTANTS
    NumArenas,      \* num_arenas of malloc_init
    BootTlds,       \* how many tld_t the bootstrap buffer holds
    MaxFailures     \* bound: how many calls get no page for a tld at their first try

ASSUME StartAssumption ==
    /\ NumArenas \in Nat \ {0} /\ BootTlds \in Nat /\ MaxFailures \in Nat
    /\ IsFiniteSet(Threads)
    /\ NULL \notin 0 .. NumArenas - 1

Arena == 0 .. NumArenas - 1

\* Where a tld may be: in a page of its own, or in the bootstrap buffer.
InPage      == [place |-> "page", offset |-> 0]
InBuffer(o) == [place |-> "buffer", offset |-> o]
TldPlace    == {NULL, InPage} \cup {InBuffer(o) : o \in 0 .. BootTlds - 1}

VARIABLES
    initialized,    \* g_state.initialized
    bootstrapUsed,  \* g_state.bootstrap_used, in units of one tld_t
    sizes,          \* whether size_class_init has filled its tables
    arenaCount, arenaNext,
    threadCount,    \* arena -> arena->thread_count
    lost, failures, \* history: arena -> the calls that counted and could not attach;
                    \*   and the calls of MaxFailures
    tld,            \* thread -> its tld: a page of its own, an offset in the buffer, NULL
    tldArena,       \* thread -> tld->arena
    at,             \* thread -> where it is; the registry has a pc of its own
    step,           \* thread -> the loop counter of malloc_init
    arena           \* thread -> the arena of the call

bootVars  == <<initialized, bootstrapUsed, sizes>>
arenaVars == <<arenaCount, arenaNext, threadCount, lost>>
tldVars   == <<tld, tldArena, failures>>
placeVars == <<at, step, arena>>
startVars == <<bootVars, arenaVars, tldVars, placeVars>>

StartInit ==
    /\ Init
    /\ initialized = 0 /\ bootstrapUsed = 0 /\ sizes = FALSE
    /\ arenaCount = 0 /\ arenaNext = 0
    /\ threadCount = [a \in Arena |-> 0]
    /\ lost = [a \in Arena |-> 0]
    /\ tld = [t \in Threads |-> NULL] /\ tldArena = [t \in Threads |-> NULL]
    /\ failures = 0
    /\ at = [t \in Threads |-> "out"]
    /\ step = [t \in Threads |-> 0]
    /\ arena = [t \in Threads |-> NULL]

Move(t, l, k) == at[t] = l /\ at' = [at EXCEPT ![t] = k]

-----------------------------------------------------------------------------
(* malloc_ensure_init and malloc_init.                                     *)

Malloc(t) ==
    /\ Move(t, "out", "ensure")
    /\ UNCHANGED <<vars, bootVars, arenaVars, tldVars, step, arena>>

EnsureInit(t) ==
    /\ Move(t, "ensure", IF initialized = 2 THEN "tld" ELSE "swap")
    /\ UNCHANGED <<vars, bootVars, arenaVars, tldVars, step, arena>>

\* Mutant of InitSwap: a thread that sees 0 initializes, and does not say so.
InitSwapReads(t) ==
    /\ Move(t, "swap", IF initialized = 0 THEN "zero" ELSE "spin")
    /\ UNCHANGED <<vars, bootVars, arenaVars, tldVars, step, arena>>

\* The compare-and-swap that elects the thread that initializes.
InitSwap(t) ==
    /\ Move(t, "swap", IF initialized = 0 THEN "zero" ELSE "spin")
    /\ initialized' = IF initialized = 0 THEN 1 ELSE initialized
    /\ UNCHANGED <<vars, bootstrapUsed, sizes, arenaVars, tldVars, step, arena>>

SpinOver(t, done) ==
    /\ done
    /\ Move(t, "spin", "tld")
    /\ UNCHANGED <<vars, bootVars, arenaVars, tldVars, step, arena>>

\* Mutant of SpinEnds: the thread never goes on.
SpinEndsNever(t) == SpinOver(t, initialized = 0)

SpinEnds(t) == SpinOver(t, initialized = 2)

\* The loop counter goes on to the next of n turns, from label l, or to label k.
Loop(t, n, l, k) ==
    IF step[t] + 1 < n
    THEN Move(t, l, l) /\ step' = [step EXCEPT ![t] = step[t] + 1]
    ELSE Move(t, l, k) /\ step' = [step EXCEPT ![t] = 0]

InitZero(t) ==
    /\ Loop(t, Size, "zero", "sizes")
    /\ table' = [table EXCEPT ![step[t]] = NULL]
    /\ UNCHANGED <<mapped, callVars, answer, bootVars, arenaVars, tldVars, arena>>

\* size_class_init, and tld_init.
InitSizes(t) ==
    /\ Move(t, "sizes", "arenas")
    /\ sizes' = TRUE
    /\ UNCHANGED <<vars, initialized, bootstrapUsed, arenaVars, tldVars, step, arena>>

\* arena_init.
InitArena(t) ==
    /\ Loop(t, NumArenas, "arenas", "counts")
    /\ threadCount' = [threadCount EXCEPT ![step[t]] = 0]
    /\ UNCHANGED <<vars, bootVars, arenaCount, arenaNext, lost, tldVars, arena>>

InitCounts(t) ==
    /\ Move(t, "counts", "buffer")
    /\ arenaCount' = NumArenas
    /\ arenaNext' = 0
    /\ UNCHANGED <<vars, bootVars, threadCount, lost, tldVars, step, arena>>

InitBuffer(t) ==
    /\ Move(t, "buffer", "publish")
    /\ bootstrapUsed' = 0
    /\ UNCHANGED <<vars, initialized, sizes, arenaVars, tldVars, step, arena>>

InitEnds(t) ==
    /\ Move(t, "publish", "tld")
    /\ initialized' = 2
    /\ UNCHANGED <<vars, bootstrapUsed, sizes, arenaVars, tldVars, step, arena>>

-----------------------------------------------------------------------------
(* tld_get, arena_get and tld_cleanup.                                     *)

\* A tld comes from the bootstrap buffer until the allocator is initialized, and is a
\* page of its own from then on; either may fail.
TldGet(t, l, k) ==
    /\ Move(t, l, k)
    /\ \/ tld[t] # NULL /\ UNCHANGED <<tld, bootstrapUsed, failures>>
       \/ /\ tld[t] = NULL /\ initialized # 2
          /\ bootstrapUsed' = bootstrapUsed + 1
          /\ tld' = [tld EXCEPT ![t] = IF bootstrapUsed + 1 > BootTlds THEN NULL
                                       ELSE InBuffer(bootstrapUsed)]
          /\ UNCHANGED failures
       \/ /\ tld[t] = NULL /\ initialized = 2
          /\ \/ tld' = [tld EXCEPT ![t] = InPage] /\ UNCHANGED failures
             \/ l = "arena" /\ UNCHANGED <<tld, failures>>
             \/ /\ l # "arena" /\ failures < MaxFailures
                /\ failures' = failures + 1
                /\ UNCHANGED tld
          /\ UNCHANGED bootstrapUsed
    /\ UNCHANGED <<vars, initialized, sizes, arenaVars, tldArena, step, arena>>

\* slab_alloc_inner: the call is served from a page in the tld, or goes to the arena.
SlabAlloc(t) ==
    \/ TldGet(t, "tld", "out") /\ tld'[t] # NULL
    \/ TldGet(t, "tld", "arena")

\* The arena of the thread, or the next one in turn.  (arena_next stays below 2^31.)
ArenaGet(t) ==
    /\ \/ /\ tldArena[t] # NULL
          /\ Move(t, "index", "alloc")
          /\ arena' = [arena EXCEPT ![t] = tldArena[t]]
          /\ UNCHANGED arenaNext
       \/ /\ tldArena[t] = NULL /\ arenaCount = 0
          /\ Move(t, "index", "out")
          /\ UNCHANGED <<arena, arenaNext>>
       \/ /\ tldArena[t] = NULL /\ arenaCount # 0
          /\ Move(t, "index", "attach")
          /\ arena' = [arena EXCEPT ![t] = arenaNext]
          /\ arenaNext' = IF arenaNext + 1 = arenaCount THEN 0 ELSE arenaNext + 1
    /\ UNCHANGED <<vars, bootVars, arenaCount, threadCount, lost, tldVars, step>>

\* The thread is counted; without a tld it will not remember its arena.
ArenaAttach(t) ==
    /\ Move(t, "attach", "alloc")
    /\ threadCount' = [threadCount EXCEPT ![arena[t]] = threadCount[arena[t]] + 1]
    /\ IF tld[t] # NULL
       THEN tldArena' = [tldArena EXCEPT ![t] = arena[t]] /\ UNCHANGED lost
       ELSE /\ lost' = [lost EXCEPT ![arena[t]] = lost[arena[t]] + 1]
            /\ UNCHANGED tldArena
    /\ UNCHANGED <<vars, bootVars, arenaCount, arenaNext, tld, failures, step, arena>>

\* Mutant of Exit: tld_cleanup forgets the count.
ExitUncounted(t) ==
    /\ Move(t, "out", "out")
    /\ tld[t] # NULL
    /\ tld' = [tld EXCEPT ![t] = NULL]
    /\ tldArena' = [tldArena EXCEPT ![t] = NULL]
    /\ UNCHANGED <<vars, bootVars, arenaVars, failures, step, arena>>

\* The thread ends, and another takes its place.
Exit(t) ==
    /\ Move(t, "out", "out")
    /\ tld[t] # NULL
    /\ threadCount' = [a \in Arena |-> IF tldArena[t] = a THEN threadCount[a] - 1
                                       ELSE threadCount[a]]
    /\ tld' = [tld EXCEPT ![t] = NULL]
    /\ tldArena' = [tldArena EXCEPT ![t] = NULL]
    /\ UNCHANGED <<vars, bootVars, arenaCount, arenaNext, lost, failures, step, arena>>

-----------------------------------------------------------------------------
(* The registry.                                                           *)

\* arena_alloc creates a segment.  It holds the lock of its arena.
CreateSegment(t, b) ==
    /\ Move(t, "alloc", "created")
    /\ \A u \in Threads \ {t} : at[u] = "created" => arena[u] # arena[t]
    /\ Create(t, b)
    /\ UNCHANGED <<bootVars, arenaVars, tldVars, step, arena>>

\* arena_alloc finds a page in its segments, or has registered a new one.
AllocEnds(t) ==
    /\ at[t] \in {"alloc", "created"}
    /\ pc[t] = "idle"
    /\ at' = [at EXCEPT ![t] = "out"]
    /\ arena' = [arena EXCEPT ![t] = NULL]
    /\ UNCHANGED <<vars, bootVars, arenaVars, tldVars, step>>

Free(t, b) ==
    /\ Move(t, "out", "free")
    /\ Ask(t, b)
    /\ UNCHANGED <<bootVars, arenaVars, tldVars, step, arena>>

\* my_free has its answer: a slot goes on to slab_free, which asks for the tld.
FreeFound(t) ==
    /\ pc[t] = "idle"
    /\ Move(t, "free", IF answer[t] THEN "freeing" ELSE "out")
    /\ UNCHANGED <<vars, bootVars, arenaVars, tldVars, step, arena>>

Probes(t) ==
    /\ \/ RegisterHere(t) \/ RegisterNext(t) \/ RegisterGivesUp(t)
       \/ LookupNext(t) \/ LookupEnds(t)
    /\ UNCHANGED startVars

-----------------------------------------------------------------------------
StartCall(t) == Malloc(t) \/ Exit(t) \/ \E b \in Bases : Free(t, b)

StartStep(t) ==
    \/ EnsureInit(t) \/ InitSwap(t) \/ SpinEnds(t)
    \/ InitZero(t) \/ InitSizes(t) \/ InitArena(t) \/ InitCounts(t) \/ InitBuffer(t)
    \/ InitEnds(t)
    \/ SlabAlloc(t) \/ TldGet(t, "arena", "index") \/ ArenaGet(t) \/ ArenaAttach(t)
    \/ TldGet(t, "freeing", "out")
    \/ \E b \in Bases : CreateSegment(t, b)
    \/ AllocEnds(t) \/ FreeFound(t) \/ Probes(t)

StartNext == \E t \in Threads : StartCall(t) \/ StartStep(t)

\* A thread in a call keeps running.
StartFairness == \A t \in Threads : WF_<<vars, startVars>>(StartStep(t))

StartSpec == StartInit /\ [][StartNext]_<<vars, startVars>> /\ StartFairness

-----------------------------------------------------------------------------
(* Properties.                                                             *)

InMallocInit == {"zero", "sizes", "arenas", "counts", "buffer", "publish"}
BeforeReady  == {"out", "free", "ensure", "swap", "spin"} \cup InMallocInit

\* Every variable of the start keeps its type.
PlacesOK ==
    /\ initialized \in {0, 1, 2}
    /\ at \in [Threads -> BeforeReady \cup {"tld", "arena", "index", "attach", "alloc",
                                            "created", "freeing"}]
    /\ step \in [Threads -> Nat]
    /\ arenaNext \in Arena
    /\ arenaCount \in {0, NumArenas}

\* malloc_init runs in one thread.
OneInitializer ==
    /\ \A t \in Threads : at[t] \in InMallocInit => initialized = 1
    /\ \A t, u \in Threads : at[t] \in InMallocInit /\ at[u] \in InMallocInit => t = u
    /\ initialized = 1 => \E t \in Threads : at[t] \in InMallocInit

\* The parts of g_state are built in order, and in the end all of them are.
BuiltInOrder ==
    /\ \A t \in Threads :
         /\ at[t] = "zero" => step[t] < Size
         /\ at[t] = "arenas" => step[t] < NumArenas
         /\ at[t] \notin {"zero", "arenas"} => step[t] = 0
         /\ at[t] \in {"arenas", "counts", "buffer", "publish"} => sizes
         /\ at[t] \in {"buffer", "publish"} => arenaCount = NumArenas
    /\ initialized = 2 => sizes /\ arenaCount = NumArenas

\* Until then no thread is past malloc_ensure_init, and nothing is registered or found.
NothingBefore ==
    /\ \A t \in Threads : /\ pc[t] = "register" => at[t] = "created"
                          /\ pc[t] = "lookup" => at[t] = "free"
    /\ initialized # 2 =>
         /\ \A t \in Threads : at[t] \in BeforeReady /\ ~answer[t] /\ tld[t] = NULL
         /\ table = [k \in Slot |-> NULL]

\* malloc_init runs once, in one thread, and until it is over no thread is past
\* malloc_ensure_init: it finds the registry as it was in the beginning, and leaves
\* every part ready for the first thread that goes on.
StartInv == PlacesOK /\ OneInitializer /\ BuiltInOrder /\ NothingBefore

\* malloc_init never takes a registered base out: registration and lookups are those
\* of SegmentRegistry from the first call on, and lookups may run while it zeroes.
RegistryKept == Spec

\* A thread has an arena only in a tld, and none before malloc_init has counted none.
ArenasOK ==
    /\ threadCount \in [Arena -> Int]
    /\ lost \in [Arena -> Int]
    /\ tld \in [Threads -> TldPlace]
    /\ tldArena \in [Threads -> Arena \cup {NULL}]
    /\ arena \in [Threads -> Arena \cup {NULL}]
    /\ \A t \in Threads : tldArena[t] # NULL => tld[t] # NULL
    /\ \A t \in Threads : at[t] = "attach" => arena[t] \in Arena /\ tldArena[t] = NULL
    /\ initialized # 2 => lost = [a \in Arena |-> 0]

\* thread_count is the number of threads attached to the arena, but for the calls that
\* found no tld: each of those counts once and is never taken off again.
ThreadCountRight ==
    /\ ArenasOK
    /\ \A a \in Arena :
         threadCount[a] = lost[a] + Cardinality({t \in Threads : tldArena[t] = a})

\* However many threads come first, the one that initializes gets through, and the
\* others stop spinning.
InitReturns ==
    \A t \in Threads : at[t] = "ensure" ~> at[t] = "tld"
=============================================================================
