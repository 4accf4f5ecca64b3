--------------------------- MODULE StartupProofs ----------------------------
(***************************************************************************)
(* The registry behaves as an atomic set, for every number of threads,     *)
(* bases and slots and every hash function.  malloc_init is safe for every *)
(* number of threads, arenas and slots: it runs once, no thread gets ahead *)
(* of it, and with it the registry still behaves so.  The table of size    *)
(* classes that it builds is searched correctly, and blocks fit their      *)
(* pages and mappings, for every size, alignment and size of a page.       *)
(***************************************************************************)
EXTENDS Startup, SizeClass, FiniteSetTheorems, TLAPS

-----------------------------------------------------------------------------
(* The registry.                                                           *)

\* The probe sequence of a base stays in the table.
LEMMA ProbeType ==
    ASSUME NEW b \in Bases, NEW n \in Slot
    PROVE  Probe(b, n) \in Slot
BY RegistryAssumption DEF Probe, Slot

\* The probe sequence of a base reaches every slot.
LEMMA ProbeReaches ==
    ASSUME NEW b \in Bases, NEW k \in Slot
    PROVE  \E n \in Slot : Probe(b, n) = k
<1> DEFINE n == IF k >= Hash[b] THEN k - Hash[b] ELSE k + Size - Hash[b]
<1>1. Hash[b] \in 0 .. Size - 1 /\ Size \in Nat
  BY RegistryAssumption
<1>2. n \in Slot /\ Probe(b, n) = k
  BY <1>1 DEF Probe, Slot
<1> QED  BY <1>2

\* Initially nothing is registered and no call runs.
LEMMA InvInit == Init => RegistryInv
BY RegistryAssumption DEF Init, RegistryInv, TypeOK, TableOK, ProbesOK, Slot

\* Every step of segment_create and segment_is_registered keeps the types.
LEMMA TypeStep == TypeOK /\ ProbesOK /\ [Next]_vars => TypeOK'
<1> SUFFICES ASSUME TypeOK, ProbesOK, [Next]_vars PROVE TypeOK'
  OBVIOUS
<1> USE DEF TypeOK, callVars
<1>0. 0 \in Slot
  BY RegistryAssumption DEF Slot
<1>1. CASE UNCHANGED vars
  BY <1>1 DEF vars
<1>2. ASSUME NEW t \in Threads, NEW b \in Bases, Create(t, b) \/ Ask(t, b) PROVE TypeOK'
  BY <1>0, <1>2 DEF Create, Ask, Call
<1>3. ASSUME NEW t \in Threads, RegisterHere(t) PROVE TypeOK'
  <2>1. base[t] \in Bases /\ i[t] \in Slot
    BY <1>3 DEF RegisterHere, ProbesOK
  <2> QED  BY <1>0, <1>3, <2>1 DEF RegisterHere, Return
<1>4. ASSUME NEW t \in Threads, RegisterNext(t) \/ LookupNext(t) PROVE TypeOK'
  <2>1. i[t] \in Slot /\ i[t] + 1 < Size
    BY <1>4 DEF RegisterNext, LookupNext, TryNext
  <2>2. i[t] + 1 \in Slot
    BY <2>1, RegistryAssumption DEF Slot
  <2> QED  BY <1>4, <2>2 DEF RegisterNext, LookupNext, TryNext
<1>5. ASSUME NEW t \in Threads, RegisterGivesUp(t) \/ LookupEnds(t) PROVE TypeOK'
  BY <1>0, <1>5 DEF RegisterGivesUp, LookupEnds, Return
<1> QED  BY <1>1, <1>2, <1>3, <1>4, <1>5 DEF Next

\* What has been stored in a slot stays there: the only store is a compare-and-swap
\* against 0.
LEMMA SlotsKept ==
    ASSUME TypeOK, [Next]_vars, NEW k \in Slot, table[k] # NULL
    PROVE  table'[k] = table[k]
<1>1. CASE UNCHANGED table
  BY <1>1
<1>2. ASSUME NEW t \in Threads, RegisterHere(t) PROVE table'[k] = table[k]
  BY <1>2 DEF RegisterHere, Seen, TypeOK
<1> QED
  BY <1>1, <1>2 DEF Next, vars, Create, Ask, RegisterNext, RegisterGivesUp, LookupNext,
     LookupEnds, TryNext

\* A base is stored in the first free slot of its probe sequence, and the slots in
\* front of it are never freed.
LEMMA TableStep == RegistryInv /\ [Next]_vars => TableOK'
<1> SUFFICES ASSUME RegistryInv, [Next]_vars, NEW k \in Slot, table'[k] # NULL
             PROVE  \E j \in Slot :
                      /\ Probe(table'[k], j) = k
                      /\ \A n \in 0 .. j - 1 :
                           table'[Probe(table'[k], n)] \notin {NULL, table'[k]}
  BY DEF TableOK
<1>1. CASE table[k] # NULL
  <2>1. table'[k] = table[k] /\ table[k] \in Bases
    BY <1>1, SlotsKept DEF RegistryInv, TypeOK
  <2>2. PICK j \in Slot : /\ Probe(table[k], j) = k
                          /\ \A n \in 0 .. j - 1 :
                               table[Probe(table[k], n)] \notin {NULL, table[k]}
    BY <1>1 DEF RegistryInv, TableOK
  <2>3. ASSUME NEW n \in 0 .. j - 1
        PROVE  table'[Probe(table[k], n)] \notin {NULL, table[k]}
    <3>1. n \in Slot
      BY RegistryAssumption DEF Slot
    <3>2. Probe(table[k], n) \in Slot
      BY <2>1, <3>1, ProbeType
    <3> QED  BY <2>2, <3>2, SlotsKept DEF RegistryInv
  <2> QED  BY <2>1, <2>2, <2>3
<1>2. CASE table[k] = NULL
  <2>1. PICK t \in Threads : RegisterHere(t)
    BY <1>2 DEF Next, vars, Create, Ask, RegisterNext, RegisterGivesUp, LookupNext,
       LookupEnds, TryNext
  <2>2. base[t] \in Bases /\ i[t] \in Slot
    BY <2>1 DEF RegisterHere, RegistryInv, ProbesOK, TypeOK
  <2>3. k = Probe(base[t], i[t]) /\ table'[k] = base[t]
    BY <1>2, <2>1 DEF RegisterHere, RegistryInv, TypeOK
  <2>4. ASSUME NEW n \in 0 .. i[t] - 1
        PROVE  table'[Probe(base[t], n)] \notin {NULL, base[t]}
    <3>1. table[Probe(base[t], n)] \notin {NULL, base[t]}
      BY <2>1 DEF RegisterHere, RegistryInv, ProbesOK
    <3>2. Probe(base[t], n) \in Slot
      <4>1. n \in Slot
        BY <2>2, RegistryAssumption DEF Slot
      <4> QED  BY <2>2, <4>1, ProbeType
    <3> QED  BY <3>1, <3>2, SlotsKept DEF RegistryInv
  <2> QED  BY <2>2, <2>3, <2>4
<1> QED  BY <1>1, <1>2

\* A call goes on only past a slot that another base has taken.
LEMMA ProbesStep == RegistryInv /\ [Next]_vars => ProbesOK'
<1> SUFFICES ASSUME RegistryInv, [Next]_vars, NEW u \in Threads, pc'[u] # "idle"
             PROVE  /\ base'[u] \in Bases
                    /\ \A n \in 0 .. i'[u] - 1 :
                         table'[Probe(base'[u], n)] \notin {NULL, base'[u]}
  BY DEF ProbesOK
<1> USE DEF RegistryInv
<1>1. CASE pc[u] # "idle" /\ base'[u] = base[u] /\ i'[u] = i[u]
  <2>1. base[u] \in Bases /\ i[u] \in Slot
    BY <1>1 DEF ProbesOK, TypeOK
  <2>2. ASSUME NEW n \in 0 .. i[u] - 1
        PROVE  table'[Probe(base[u], n)] \notin {NULL, base[u]}
    <3>1. n \in Slot
      BY <2>1, RegistryAssumption DEF Slot
    <3>2. Probe(base[u], n) \in Slot /\ table[Probe(base[u], n)] \notin {NULL, base[u]}
      BY <1>1, <2>1, <3>1, ProbeType DEF ProbesOK
    <3> QED  BY <3>2, SlotsKept
  <2> QED  BY <1>1, <2>1, <2>2
<1>2. CASE pc[u] = "idle"
  <2>1. PICK b \in Bases : Call(u, "register", b) \/ Call(u, "lookup", b)
    BY <1>2 DEF Next, vars, callVars, Create, Ask, Call, RegisterHere, RegisterNext,
       RegisterGivesUp, LookupNext, LookupEnds, TryNext, Return, TypeOK
  <2>2. base'[u] = b /\ i'[u] = 0
    BY <2>1 DEF Call, TypeOK
  <2> QED  BY <2>2
<1>3. CASE pc[u] # "idle" /\ TryNext(u)
  <2>1. base[u] \in Bases /\ i[u] \in Slot /\ base'[u] = base[u] /\ i'[u] = i[u] + 1
    BY <1>3 DEF ProbesOK, TypeOK, TryNext
  <2>2. ASSUME NEW n \in 0 .. i[u]
        PROVE  table'[Probe(base[u], n)] \notin {NULL, base[u]}
    <3>1. table[Probe(base[u], n)] \notin {NULL, base[u]}
      <4>1. CASE n = i[u]
        BY <1>3, <4>1 DEF TryNext, Seen
      <4>2. CASE n # i[u]
        <5>1. n \in 0 .. i[u] - 1
          BY <2>1, <4>2 DEF Slot
        <5> QED  BY <1>3, <5>1 DEF ProbesOK
      <4> QED  BY <4>1, <4>2
    <3> QED  BY <1>3, <3>1 DEF TryNext
  <2>3. 0 .. i'[u] - 1 = 0 .. i[u]
    BY <2>1 DEF Slot
  <2> QED  BY <2>1, <2>2, <2>3
<1> QED
  BY <1>1, <1>2, <1>3 DEF Next, vars, callVars, Create, Ask, Call, RegisterHere,
     RegisterNext, RegisterGivesUp, LookupNext, LookupEnds, TryNext, Return, TypeOK

\* In every execution a base sits where a lookup will find it.
THEOREM RegistrySafety == Spec => []RegistryInv
<1>1. RegistryInv /\ [Next]_vars => RegistryInv'
  BY TypeStep, TableStep, ProbesStep DEF RegistryInv
<1> QED  BY InvInit, <1>1, PTL DEF Spec

\* A base that a call has sought in vain, up to a free slot or in the whole table, is
\* not in the table.
LEMMA NotFound ==
    ASSUME RegistryInv, NEW t \in Threads, pc[t] # "idle", Seen(t) # base[t],
           Seen(t) = NULL \/ i[t] + 1 = Size
    PROVE  base[t] \notin Registered
<1> SUFFICES ASSUME NEW k \in Slot, table[k] = base[t] PROVE FALSE
  BY DEF Registered
<1>1. base[t] \in Bases /\ i[t] \in Slot
  BY DEF RegistryInv, ProbesOK, TypeOK
<1>2. PICK j \in Slot : /\ Probe(base[t], j) = k
                        /\ \A n \in 0 .. j - 1 :
                             table[Probe(base[t], n)] \notin {NULL, base[t]}
  BY <1>1, RegistryAssumption DEF RegistryInv, TableOK
<1>3. j # i[t]
  BY <1>2 DEF Seen
<1>4. ~ (j < i[t])
  <2> SUFFICES ASSUME j < i[t] PROVE FALSE
    OBVIOUS
  <2>1. j \in 0 .. i[t] - 1
    BY <1>1 DEF Slot
  <2> QED  BY <1>2, <2>1 DEF RegistryInv, ProbesOK
<1>5. i[t] < j
  BY <1>1, <1>3, <1>4 DEF Slot
<1>6. i[t] \in 0 .. j - 1 /\ i[t] + 1 # Size
  BY <1>1, <1>5, RegistryAssumption DEF Slot
<1> QED  BY <1>2, <1>6 DEF Seen

\* For every number of threads and every hash function, segment_is_registered answers
\* as a lookup in an atomic set would at the moment of its last probe.
THEOREM RegistryLookup == Spec => LookupRight
<1>1. ASSUME RegistryInv, [Next]_vars, NEW t \in Threads, pc[t] = "lookup",
             pc'[t] = "idle"
      PROVE  answer'[t] = (base[t] \in Registered)
  <2>1. LookupEnds(t)
    BY <1>1 DEF Next, vars, callVars, Create, Ask, Call, RegisterHere, RegisterNext,
       RegisterGivesUp, LookupNext, LookupEnds, TryNext, Return, RegistryInv, TypeOK
  <2>2. answer'[t] = (Seen(t) = base[t])
    BY <1>1, <2>1 DEF LookupEnds, RegistryInv, TypeOK
  <2>3. base[t] \in Bases /\ i[t] \in Slot
    BY <1>1 DEF RegistryInv, ProbesOK, TypeOK
  <2>4. Seen(t) = base[t] => base[t] \in Registered
    BY <2>3, ProbeType DEF Seen, Registered
  <2>5. Seen(t) # base[t] => base[t] \notin Registered
    BY <1>1, <2>1, NotFound DEF LookupEnds
  <2>6. (Seen(t) = base[t]) = (base[t] \in Registered)
    BY <2>4, <2>5, SMT
  <2> QED  BY <2>2, <2>6, Zenon
<1>2. RegistryInv /\ [Next]_vars =>
        [\A t \in Threads : pc[t] = "lookup" /\ pc'[t] = "idle" =>
           answer'[t] = (base[t] \in Registered)]_vars
  BY <1>1
<1> QED  BY RegistrySafety, <1>2, PTL DEF Spec, LookupRight

\* For every size of the registry, segment_register gives up only if no slot is free.
THEOREM RegistryDrops == Spec => DropsOnlyWhenFull
<1>1. ASSUME RegistryInv, [Next]_vars, NEW t \in Threads, pc[t] = "register",
             pc'[t] = "idle"
      PROVE  base[t] \in Registered' \/ NULL \notin {table[k] : k \in Slot}
  <2>0. base[t] \in Bases /\ i[t] \in Slot /\ Probe(base[t], i[t]) \in Slot
    BY <1>1, ProbeType DEF RegistryInv, ProbesOK, TypeOK
  <2>1. RegisterHere(t) \/ RegisterGivesUp(t)
    BY <1>1 DEF Next, vars, callVars, Create, Ask, Call, RegisterHere, RegisterNext,
       RegisterGivesUp, LookupNext, LookupEnds, TryNext, Return, RegistryInv, TypeOK
  <2>2. CASE RegisterHere(t)
    <3>1. table'[Probe(base[t], i[t])] = base[t]
      BY <1>1, <2>0, <2>2 DEF RegisterHere, RegistryInv, TypeOK
    <3> QED  BY <2>0, <3>1 DEF Registered
  <2>3. CASE RegisterGivesUp(t)
    <3> SUFFICES ASSUME NEW k \in Slot, table[k] = NULL PROVE FALSE
      OBVIOUS
    <3>1. PICK n \in Slot : Probe(base[t], n) = k
      BY <2>0, ProbeReaches
    <3>2. n # i[t]
      BY <2>3, <3>1 DEF RegisterGivesUp, Seen
    <3>3. n \in 0 .. i[t] - 1
      BY <2>0, <2>3, <3>2, RegistryAssumption DEF RegisterGivesUp, Slot
    <3> QED  BY <1>1, <3>1, <3>3 DEF RegistryInv, ProbesOK
  <2> QED  BY <2>1, <2>2, <2>3
<1>2. RegistryInv /\ [Next]_vars =>
        [\A t \in Threads : pc[t] = "register" /\ pc'[t] = "idle" =>
           base[t] \in Registered' \/ NULL \notin {table[k] : k \in Slot}]_vars
  BY <1>1
<1> QED  BY RegistrySafety, <1>2, PTL DEF Spec, DropsOnlyWhenFull

-----------------------------------------------------------------------------
(* malloc_init with the registry.                                          *)

\* What malloc_init and the registry keep true together.
Joint == StartInv /\ RegistryInv

\* Before the first call nothing is built and nothing registered.
LEMMA JointInit == StartInit => Joint
<1> SUFFICES ASSUME StartInit PROVE Joint
  OBVIOUS
<1>1. RegistryInv
  BY InvInit DEF StartInit
<1>2. PlacesOK
  BY StartAssumption DEF StartInit, PlacesOK, BeforeReady, Arena
<1>3. OneInitializer
  BY DEF StartInit, OneInitializer, InMallocInit
<1>4. BuiltInOrder
  BY DEF StartInit, BuiltInOrder
<1>5. NothingBefore
  BY DEF StartInit, Init, NothingBefore, BeforeReady
<1> QED  BY <1>1, <1>2, <1>3, <1>4, <1>5 DEF Joint, StartInv

\* malloc_init zeroes a registry in which there is nothing.
LEMMA RegistryZero ==
    ASSUME Joint, NEW t \in Threads, InitZero(t)
    PROVE  UNCHANGED vars
<1>1. at[t] = "zero"
  BY DEF InitZero, Loop, Move
<1>2. initialized = 1 /\ step[t] \in Slot
  BY <1>1, RegistryAssumption DEF Joint, StartInv, OneInitializer, InMallocInit,
     BuiltInOrder, PlacesOK, Slot
<1>3. table = [k \in Slot |-> NULL]
  BY <1>2 DEF Joint, StartInv, NothingBefore
<1>4. table' = table
  BY <1>2, <1>3 DEF InitZero
<1> QED  BY <1>4 DEF InitZero, vars

\* Every step of malloc_init leaves the registry as it is, and every other step of a
\* call is none of the registry's or one that SegmentRegistry has.
LEMMA RegistrySteps ==
    Joint /\ [StartNext]_<<vars, startVars>> => [Next]_vars
<1> SUFFICES ASSUME Joint, [StartNext]_<<vars, startVars>> PROVE [Next]_vars
  OBVIOUS
<1>1. ASSUME NEW t \in Threads, InitZero(t) PROVE UNCHANGED vars
  BY <1>1, RegistryZero
<1>2. ASSUME NEW t \in Threads, NEW b \in Bases, CreateSegment(t, b) \/ Free(t, b)
      PROVE  Next
  BY <1>2 DEF CreateSegment, Free, Next
<1>3. ASSUME NEW t \in Threads, Probes(t) PROVE Next
  BY <1>3 DEF Probes, Next
<1>4. ASSUME NEW t \in Threads,
             \/ Malloc(t) \/ Exit(t) \/ EnsureInit(t) \/ InitSwap(t) \/ SpinEnds(t)
             \/ InitSizes(t) \/ InitArena(t) \/ InitCounts(t) \/ InitBuffer(t)
             \/ InitEnds(t) \/ SlabAlloc(t) \/ TldGet(t, "arena", "index")
             \/ ArenaGet(t) \/ ArenaAttach(t) \/ TldGet(t, "freeing", "out")
             \/ AllocEnds(t) \/ FreeFound(t)
      PROVE  UNCHANGED vars
  BY <1>4 DEF Malloc, Exit, EnsureInit, InitSwap, SpinEnds, SpinOver, InitSizes, InitArena,
     InitCounts, InitBuffer, InitEnds, SlabAlloc, TldGet, ArenaGet, ArenaAttach, AllocEnds,
     FreeFound
<1> QED  BY <1>1, <1>2, <1>3, <1>4 DEF StartNext, StartCall, StartStep

\* Every step keeps malloc_init the first thing and the only one of its kind.
LEMMA StartSteps ==
    Joint /\ [StartNext]_<<vars, startVars>> => StartInv'
<1> SUFFICES ASSUME Joint, [StartNext]_<<vars, startVars>> PROVE StartInv'
  OBVIOUS
<1> USE DEF Joint, StartInv, PlacesOK, OneInitializer, BuiltInOrder, NothingBefore,
            InMallocInit, BeforeReady, bootVars, arenaVars, tldVars, vars, callVars
<1>1. CASE UNCHANGED <<vars, startVars>>
  BY <1>1 DEF startVars, placeVars
<1>2. ASSUME NEW t \in Threads, Malloc(t) PROVE StartInv'
  BY <1>2, RegistryAssumption, StartAssumption DEF Malloc, Move, Arena, Slot
<1>3. ASSUME NEW t \in Threads, Exit(t) PROVE StartInv'
  BY <1>3, RegistryAssumption, StartAssumption DEF Exit, Move, Arena, Slot
<1>4. ASSUME NEW t \in Threads, EnsureInit(t) PROVE StartInv'
  BY <1>4, RegistryAssumption, StartAssumption DEF EnsureInit, Move, Arena, Slot
<1>5. ASSUME NEW t \in Threads, InitSwap(t) PROVE StartInv'
  BY <1>5, RegistryAssumption, StartAssumption DEF InitSwap, Move, Arena, Slot
<1>6. ASSUME NEW t \in Threads, SpinEnds(t) PROVE StartInv'
  BY <1>6, RegistryAssumption, StartAssumption DEF SpinEnds, SpinOver, Move, Arena, Slot
<1>7. ASSUME NEW t \in Threads, InitSizes(t) PROVE StartInv'
  BY <1>7, RegistryAssumption, StartAssumption DEF InitSizes, Move, Arena, Slot
<1>8. ASSUME NEW t \in Threads, InitCounts(t) PROVE StartInv'
  BY <1>8, RegistryAssumption, StartAssumption DEF InitCounts, Move, Arena, Slot
<1>9. ASSUME NEW t \in Threads, InitBuffer(t) PROVE StartInv'
  BY <1>9, RegistryAssumption, StartAssumption DEF InitBuffer, Move, Arena, Slot
<1>10. ASSUME NEW t \in Threads, InitEnds(t) PROVE StartInv'
  BY <1>10, RegistryAssumption, StartAssumption DEF InitEnds, Move, Arena, Slot
<1>11. ASSUME NEW t \in Threads, ArenaAttach(t) PROVE StartInv'
  BY <1>11, RegistryAssumption, StartAssumption DEF ArenaAttach, Move, Arena, Slot
<1>12. ASSUME NEW t \in Threads, AllocEnds(t) PROVE StartInv'
  BY <1>12, RegistryAssumption, StartAssumption DEF AllocEnds, Arena, Slot
<1>13. ASSUME NEW t \in Threads, FreeFound(t) PROVE StartInv'
  BY <1>13, RegistryAssumption, StartAssumption DEF FreeFound, Move, Arena, Slot
<1>14. ASSUME NEW t \in Threads, InitZero(t) PROVE StartInv'
  <2>1. at[t] = "zero" /\ step[t] \in Nat /\ Size \in Nat
    BY <1>14, RegistryAssumption DEF InitZero, Loop, Move
  <2>2. UNCHANGED vars
    BY <1>14, RegistryZero
  <2>3. CASE step[t] + 1 < Size
    BY <1>14, <2>1, <2>2, <2>3 DEF InitZero, Loop, Move
  <2>4. CASE ~(step[t] + 1 < Size)
    BY <1>14, <2>1, <2>2, <2>4 DEF InitZero, Loop, Move
  <2> QED  BY <2>3, <2>4
<1>15. ASSUME NEW t \in Threads, InitArena(t) PROVE StartInv'
  <2>1. at[t] = "arenas" /\ step[t] \in Nat /\ NumArenas \in Nat
    BY <1>15, StartAssumption DEF InitArena, Loop, Move
  <2>2. CASE step[t] + 1 < NumArenas
    BY <1>15, <2>1, <2>2 DEF InitArena, Loop, Move
  <2>3. CASE ~(step[t] + 1 < NumArenas)
    BY <1>15, <2>1, <2>3 DEF InitArena, Loop, Move
  <2> QED  BY <2>2, <2>3
<1>16. ASSUME NEW t \in Threads, ArenaGet(t) PROVE StartInv'
  BY <1>16, RegistryAssumption, StartAssumption DEF ArenaGet, Move, Arena, Slot
<1>17. ASSUME NEW t \in Threads, SlabAlloc(t) PROVE StartInv'
  <2>1. initialized = 2 /\ at[t] = "tld" /\ \E k \in {"out", "arena"} : TldGet(t, "tld", k)
    BY <1>17 DEF SlabAlloc, TldGet, Move
  <2>2. PICK k \in {"out", "arena"} : TldGet(t, "tld", k)
    BY <2>1
  <2> QED  BY <2>1, <2>2 DEF TldGet, Move
<1>18. ASSUME NEW t \in Threads,
              TldGet(t, "arena", "index") \/ TldGet(t, "freeing", "out")
       PROVE  StartInv'
  BY <1>18 DEF TldGet, Move
<1>19. ASSUME NEW t \in Threads, NEW b \in Bases, CreateSegment(t, b) PROVE StartInv'
  BY <1>19 DEF CreateSegment, Move, Create, Call
<1>20. ASSUME NEW t \in Threads, NEW b \in Bases, Free(t, b) PROVE StartInv'
  BY <1>20 DEF Free, Move, Ask, Call
<1>21. ASSUME NEW t \in Threads, Probes(t) PROVE StartInv'
  <2>0. UNCHANGED startVars
    BY <1>21 DEF Probes
  <2>1. PlacesOK' /\ OneInitializer' /\ BuiltInOrder'
    BY <2>0 DEF startVars, placeVars
  <2>2. \A u \in Threads : pc'[u] \in {"idle", pc[u]}
    BY <1>21 DEF Probes, RegisterHere, RegisterNext, RegisterGivesUp, LookupNext, LookupEnds,
       TryNext, Return, RegistryInv, TypeOK
  <2>3. ASSUME initialized # 2 PROVE table' = table /\ \A u \in Threads : ~answer'[u]
    <3>1. ~RegisterHere(t)
      BY <2>3 DEF RegisterHere
    <3>2. CASE LookupEnds(t)
      <4>1. base[t] \in Bases /\ Probe(base[t], i[t]) \in Slot
        BY <3>2, ProbeType DEF LookupEnds, RegistryInv, ProbesOK, TypeOK
      <4>2. Seen(t) # base[t]
        BY <2>3, <4>1, RegistryAssumption DEF Seen
      <4>3. answer' = [answer EXCEPT ![t] = FALSE]
        BY <3>2, <4>2, Zenon DEF LookupEnds
      <4> QED  BY <2>3, <3>2, <4>3 DEF LookupEnds, RegistryInv, TypeOK
    <3> QED
      BY <1>21, <2>3, <3>1, <3>2
      DEF Probes, RegisterNext, RegisterGivesUp, LookupNext, TryNext
  <2>4. NothingBefore'
    BY <2>0, <2>2, <2>3 DEF startVars, placeVars
  <2> QED  BY <2>1, <2>4
<1> QED
  BY <1>1, <1>2, <1>3, <1>4, <1>5, <1>6, <1>7, <1>8, <1>9, <1>10, <1>11, <1>12, <1>13,
     <1>14, <1>15, <1>16, <1>17, <1>18, <1>19, <1>20, <1>21, ZenonT(30)
  DEF StartNext, StartCall, StartStep

\* The induction over the executions of the start.
LEMMA JointAlways == StartSpec => []Joint
<1>1. Joint /\ [StartNext]_<<vars, startVars>> => RegistryInv'
  BY RegistrySteps, TypeStep, TableStep, ProbesStep DEF Joint, RegistryInv
<1>2. Joint /\ [StartNext]_<<vars, startVars>> => Joint'
  BY <1>1, StartSteps DEF Joint
<1> QED  BY JointInit, <1>2, PTL DEF StartSpec

\* However many threads make the first call, malloc_init runs once, and no thread is
\* past malloc_ensure_init before every part is built.
THEOREM StartSafety == StartSpec => []StartInv
<1>1. Joint => StartInv
  BY DEF Joint
<1> QED  BY JointAlways, <1>1, PTL

\* With malloc_init and the threads that race for it, the registry is the one of
\* SegmentRegistry: the zeroing of the table is a stuttering step of it.
THEOREM StartRegistry == StartSpec => RegistryKept
<1>1. StartInit => Init
  BY DEF StartInit
<1> QED  BY <1>1, JointAlways, RegistrySteps, PTL DEF StartSpec, RegistryKept, Spec

\* So the guarantees of the registry hold from the first call of malloc on: lookups
\* are atomic, and a base is dropped only when the table is full.
THEOREM StartLookups == StartSpec => []RegistryInv /\ LookupRight /\ DropsOnlyWhenFull
BY StartRegistry, RegistrySafety, RegistryLookup, RegistryDrops, PTL DEF RegistryKept

\* The threads whose tld is attached to the arena.
Attached(a) == {t \in Threads : tldArena[t] = a}

\* They are finitely many.
LEMMA AttachedFinite ==
    ASSUME NEW a
    PROVE  IsFiniteSet(Attached(a)) /\ Cardinality(Attached(a)) \in Nat
BY StartAssumption, FS_Subset, FS_CardinalityType DEF Attached

\* The invariant from which the count follows: its own parts, and malloc_init first.
Counted == Joint /\ ThreadCountRight

\* No thread is attached before the first call.
LEMMA CountedInit == StartInit => Counted
<1> SUFFICES ASSUME StartInit PROVE Counted
  OBVIOUS
<1>1. Joint
  BY JointInit
<1>2. ArenasOK
  BY DEF StartInit, ArenasOK, TldPlace
<1>3. ASSUME NEW a \in Arena
      PROVE  threadCount[a] = lost[a] + Cardinality({t \in Threads : tldArena[t] = a})
  <2>1. {t \in Threads : tldArena[t] = a} = {}
    BY StartAssumption DEF StartInit, Arena
  <2> QED  BY <2>1, FS_EmptySet DEF StartInit
<1> QED  BY <1>1, <1>2, <1>3 DEF Counted, ThreadCountRight

\* arena_get counts the thread, and attaches it or has lost it.
LEMMA AttachStep ==
    ASSUME Counted, NEW t \in Threads, ArenaAttach(t)
    PROVE  ThreadCountRight'
<1>0. arena[t] \in Arena /\ tldArena[t] = NULL /\ NULL \notin Arena
  BY StartAssumption DEF ArenaAttach, Move, Counted, ThreadCountRight, ArenasOK, Arena
<1>1. initialized = 2 /\ initialized' = 2
  BY DEF Counted, Joint, StartInv, NothingBefore, ArenaAttach, Move, BeforeReady,
     InMallocInit, bootVars, PlacesOK
<1>2. ArenasOK'
  BY <1>0, <1>1 DEF ArenaAttach, Move, Counted, ThreadCountRight, ArenasOK, Joint,
     StartInv, PlacesOK
<1>3. ASSUME NEW a \in Arena
      PROVE  threadCount'[a] = lost'[a] + Cardinality(Attached(a)')
  <2>1. threadCount[a] = lost[a] + Cardinality(Attached(a)) /\ lost[a] \in Int
    BY DEF Counted, ThreadCountRight, ArenasOK, Attached
  <2>2. Cardinality(Attached(a)) \in Nat
    BY AttachedFinite
  <2>3. CASE tld[t] # NULL /\ a = arena[t]
    <3>1. Attached(a)' = Attached(a) \cup {t} /\ t \notin Attached(a)
      BY <1>0, <2>3 DEF ArenaAttach, Attached, Counted, ThreadCountRight, ArenasOK
    <3>2. Cardinality(Attached(a)') = Cardinality(Attached(a)) + 1
      BY <3>1, AttachedFinite, FS_AddElement
    <3> QED  BY <2>1, <2>2, <2>3, <3>2 DEF ArenaAttach, Counted, ThreadCountRight, ArenasOK
  <2>4. CASE tld[t] = NULL
    <3>1. Attached(a)' = Attached(a)
      BY <2>4 DEF ArenaAttach, Attached
    <3> QED  BY <1>0, <2>1, <2>2, <2>4, <3>1 DEF ArenaAttach, Counted, ThreadCountRight,
                ArenasOK
  <2>5. CASE tld[t] # NULL /\ a # arena[t]
    <3>1. Attached(a)' = Attached(a)
      BY <1>0, <2>5 DEF ArenaAttach, Attached, Counted, ThreadCountRight, ArenasOK
    <3> QED  BY <1>0, <2>1, <2>5, <3>1 DEF ArenaAttach, Counted, ThreadCountRight,
                ArenasOK
  <2> QED  BY <2>3, <2>4, <2>5
<1> QED  BY <1>2, <1>3 DEF ThreadCountRight, Attached

\* tld_cleanup takes the thread off the count of its arena.
LEMMA ExitStep ==
    ASSUME Counted, NEW t \in Threads, Exit(t)
    PROVE  ThreadCountRight'
<1>1. ArenasOK'
  BY DEF Exit, Move, Counted, ThreadCountRight, ArenasOK, Joint, StartInv, PlacesOK,
     bootVars, TldPlace
<1>2. ASSUME NEW a \in Arena
      PROVE  threadCount'[a] = lost'[a] + Cardinality(Attached(a)')
  <2>1. threadCount[a] = lost[a] + Cardinality(Attached(a)) /\ lost[a] \in Int
    BY DEF Counted, ThreadCountRight, ArenasOK, Attached
  <2>2. Cardinality(Attached(a)) \in Nat /\ NULL # a
    BY AttachedFinite, StartAssumption DEF Arena
  <2>3. CASE tldArena[t] = a
    <3>1. Attached(a)' = Attached(a) \ {t} /\ t \in Attached(a)
      BY <2>2, <2>3 DEF Exit, Attached, Counted, ThreadCountRight, ArenasOK
    <3>2. Cardinality(Attached(a)') = Cardinality(Attached(a)) - 1
      BY <3>1, AttachedFinite, FS_RemoveElement
    <3> QED  BY <2>1, <2>2, <2>3, <3>2 DEF Exit
  <2>4. CASE tldArena[t] # a
    <3>1. Attached(a)' = Attached(a)
      BY <2>2, <2>4 DEF Exit, Attached, Counted, ThreadCountRight, ArenasOK
    <3> QED  BY <2>1, <2>4, <3>1 DEF Exit
  <2> QED  BY <2>3, <2>4
<1> QED  BY <1>1, <1>2 DEF ThreadCountRight, Attached

\* arena_init sets a count back that is 0.
LEMMA InitArenaStep ==
    ASSUME Counted, NEW t \in Threads, InitArena(t)
    PROVE  ThreadCountRight'
<1>1. initialized # 2 /\ UNCHANGED <<initialized, lost, tld, tldArena, arena>>
  BY DEF InitArena, Loop, Move, Counted, Joint, StartInv, OneInitializer, InMallocInit,
     bootVars, tldVars
<1>2. at' = at \/ at' = [at EXCEPT ![t] = "arenas"] \/ at' = [at EXCEPT ![t] = "counts"]
  BY DEF InitArena, Loop, Move
<1>3. ArenasOK'
  BY <1>1, <1>2 DEF InitArena, Counted, ThreadCountRight, ArenasOK, Joint, StartInv,
     PlacesOK
<1>4. ASSUME NEW a \in Arena
      PROVE  threadCount'[a] = lost'[a] + Cardinality(Attached(a)')
  <2>1. Attached(a)' = {} /\ Attached(a) = {}
    BY <1>1, StartAssumption DEF Attached, Counted, ThreadCountRight, ArenasOK, Joint,
       StartInv, NothingBefore, Arena
  <2>2. lost'[a] = 0 /\ threadCount[a] = 0
    BY <1>1, <2>1, FS_EmptySet DEF Counted, ThreadCountRight, ArenasOK, Attached
  <2>3. threadCount'[a] = 0
    BY <2>2 DEF InitArena, Counted, ThreadCountRight, ArenasOK
  <2> QED  BY <2>1, <2>2, <2>3, FS_EmptySet
<1> QED  BY <1>3, <1>4 DEF ThreadCountRight, Attached
\* A step that counts and attaches nothing, and may give the thread a tld.
LEMMA OtherStep ==
    ASSUME Counted, UNCHANGED <<threadCount, lost, tldArena>>,
           NEW t \in Threads, NEW l, at' = [at EXCEPT ![t] = l],
           l = "attach" => arena'[t] \in Arena /\ tldArena[t] = NULL,
           arena' \in [Threads -> Arena \cup {NULL}],
           \A u \in Threads \ {t} : arena'[u] = arena[u],
           tld' = tld \/ (tld[t] = NULL /\ tld' = [tld EXCEPT ![t] = InPage]),
           initialized' # 2 => initialized # 2
    PROVE  ThreadCountRight'
<1>1. ArenasOK'
  BY DEF Counted, ThreadCountRight, ArenasOK, Joint, StartInv, PlacesOK, TldPlace
<1> QED  BY <1>1 DEF Counted, ThreadCountRight

\* Every step keeps the counts right.
LEMMA CountStep ==
    Counted /\ [StartNext]_<<vars, startVars>> => ThreadCountRight'
<1> SUFFICES ASSUME Counted, [StartNext]_<<vars, startVars>> PROVE ThreadCountRight'
  OBVIOUS
<1> USE DEF bootVars, arenaVars, tldVars, Move
<1>1. CASE UNCHANGED startVars
  BY <1>1 DEF startVars, placeVars, Counted, ThreadCountRight, ArenasOK
<1>0. arena \in [Threads -> Arena \cup {NULL}]
  BY DEF Counted, ThreadCountRight, ArenasOK
<1>2. ASSUME NEW t \in Threads,
             \/ Malloc(t) \/ EnsureInit(t) \/ InitSwap(t) \/ SpinEnds(t)
             \/ InitSizes(t) \/ InitCounts(t) \/ InitBuffer(t) \/ InitEnds(t)
             \/ FreeFound(t) \/ \E b \in Bases : Free(t, b) \/ CreateSegment(t, b)
      PROVE  ThreadCountRight'
  <2>1. /\ UNCHANGED <<threadCount, lost, tldArena, tld, arena>>
        /\ initialized' # 2 => initialized # 2
    <3>1. CASE InitSwap(t) \/ InitEnds(t)
      BY <3>1 DEF InitSwap, InitEnds
    <3>2. CASE InitSizes(t) \/ InitCounts(t) \/ InitBuffer(t)
      BY <3>2 DEF InitSizes, InitCounts, InitBuffer
    <3>3. CASE \/ Malloc(t) \/ EnsureInit(t) \/ SpinEnds(t) \/ FreeFound(t)
               \/ \E b \in Bases : Free(t, b) \/ CreateSegment(t, b)
      BY <3>3 DEF Malloc, Free, EnsureInit, SpinEnds, SpinOver, CreateSegment, FreeFound
    <3> QED  BY <1>2, <3>1, <3>2, <3>3
  <2>2. \E l : at' = [at EXCEPT ![t] = l] /\ l # "attach"
    BY <1>2 DEF Malloc, Free, EnsureInit, InitSwap, SpinEnds, SpinOver, InitSizes,
       InitCounts, InitBuffer, InitEnds, CreateSegment, FreeFound
  <2> QED  BY <1>0, <2>1, <2>2, OtherStep
<1>3. ASSUME NEW t \in Threads, InitZero(t) PROVE ThreadCountRight'
  <2>1. \E l : at' = [at EXCEPT ![t] = l] /\ l # "attach"
    BY <1>3 DEF InitZero, Loop
  <2> QED  BY <1>0, <1>3, <2>1, OtherStep DEF InitZero
<1>4. ASSUME NEW t \in Threads, NEW l \in {"tld", "arena", "freeing"},
             NEW k \in {"arena", "index", "out"}, TldGet(t, l, k)
      PROVE  ThreadCountRight'
  <2>1. initialized = 2
    BY <1>4 DEF TldGet, Counted, Joint, StartInv, NothingBefore, BeforeReady,
       InMallocInit
  <2>2. /\ tld' = tld \/ (tld[t] = NULL /\ tld' = [tld EXCEPT ![t] = InPage])
        /\ at' = [at EXCEPT ![t] = k]
        /\ UNCHANGED <<threadCount, lost, tldArena, arena, initialized>>
    BY <1>4, <2>1 DEF TldGet
  <2> QED  BY <1>0, <2>2, OtherStep
<1>5. ASSUME NEW t \in Threads, ArenaGet(t) PROVE ThreadCountRight'
  <2>1. PICK l : /\ at' = [at EXCEPT ![t] = l]
                 /\ l = "attach" => arena'[t] \in Arena /\ tldArena[t] = NULL
                 /\ arena' \in [Threads -> Arena \cup {NULL}]
                 /\ \A u \in Threads \ {t} : arena'[u] = arena[u]
    BY <1>5 DEF ArenaGet, Counted, Joint, StartInv, PlacesOK, ThreadCountRight, ArenasOK
  <2> QED  BY <1>5, <2>1, OtherStep DEF ArenaGet
<1>6. ASSUME NEW t \in Threads, AllocEnds(t) PROVE ThreadCountRight'
  BY <1>6, OtherStep DEF AllocEnds, Counted, ThreadCountRight, ArenasOK
<1> QED
  <2>1. ASSUME NEW t \in Threads, SlabAlloc(t) PROVE ThreadCountRight'
    BY <1>4, <2>1 DEF SlabAlloc
  <2>2. ASSUME NEW t \in Threads, Probes(t) PROVE ThreadCountRight'
    BY <1>1, <2>2 DEF Probes
  <2> QED  BY <1>1, <1>2, <1>3, <1>4, <1>5, <1>6, <2>1, <2>2, AttachStep, ExitStep,
              InitArenaStep DEF StartNext, StartCall, StartStep, startVars

\* For every number of threads and arenas, thread_count is right but for the calls of
\* arena_get that had no tld.
THEOREM StartCounts == StartSpec => []ThreadCountRight
<1>1. Counted => ThreadCountRight
  BY DEF Counted
<1>2. Counted /\ [StartNext]_<<vars, startVars>> /\ Joint' => Counted'
  BY CountStep DEF Counted
<1> QED  BY CountedInit, JointAlways, <1>1, <1>2, PTL DEF StartSpec

-----------------------------------------------------------------------------
(* The size classes.                                                       *)

\* Division by a positive number, as an equation.
LEMMA Division ==
    ASSUME NEW a \in Int, NEW m \in Nat \ {0}
    PROVE  \E q, r \in Int : /\ q = a \div m /\ r = a % m
                             /\ a = m * q + r /\ 0 <= r /\ r < m
<1>1. a % m \in 0 .. m - 1 /\ a = m * (a \div m) + (a % m) /\ a \div m \in Int
  OBVIOUS
<1> QED  BY <1>1

\* The quotient is the only number that leaves a remainder.
LEMMA QuotientIs ==
    ASSUME NEW m \in Nat \ {0}, NEW q \in Int, NEW r \in 0 .. m - 1
    PROVE  (q * m + r) \div m = q
<1>1. q * m + r \in Int
  OBVIOUS
<1>2. PICK p, s \in Int : /\ p = (q * m + r) \div m
                          /\ q * m + r = m * p + s /\ 0 <= s /\ s < m
  BY <1>1, Division
<1>3. m * (q - p) = s - r
  BY <1>2
<1>4. q - p < 1
  BY <1>2, <1>3
<1>5. q - p > -1
  BY <1>2, <1>3
<1> QED  BY <1>2, <1>4, <1>5

\* RoundUp gives the first multiple that is not smaller.
LEMMA RoundUpFacts ==
    ASSUME NEW n \in Nat, NEW m \in Nat \ {0}
    PROVE  \E q \in Nat : /\ RoundUp(n, m) = q * m
                          /\ q * m >= n /\ q * m <= n + m - 1
                          /\ n > 0 => q > 0
<1>1. PICK q, r \in Int : /\ q = (n + m - 1) \div m
                          /\ n + m - 1 = m * q + r /\ 0 <= r /\ r < m
  BY Division
<1>2. RoundUp(n, m) = q * m
  BY <1>1 DEF RoundUp
<1>3. q * m >= n /\ q * m <= n + m - 1
  BY <1>1
<1>4. q >= 0
  BY <1>1
<1>5. n > 0 => q > 0
  BY <1>3, <1>4
<1> QED  BY <1>2, <1>3, <1>4, <1>5

\* Max and Min of two numbers.
LEMMA MaxMin ==
    ASSUME NEW a \in Int, NEW b \in Int
    PROVE  /\ Max({a, b}) = IF a >= b THEN a ELSE b
           /\ Min({a, b}) = IF a <= b THEN a ELSE b
<1>1. Max({a, b}) = CHOOSE x \in {a, b} : \A y \in {a, b} : x >= y
  BY DEF Max
<1>2. Min({a, b}) = CHOOSE x \in {a, b} : \A y \in {a, b} : x <= y
  BY DEF Min
<1> QED  BY <1>1, <1>2

\* A multiple of 16 rounded up to a multiple of a multiple of 16.
LEMMA Multiple16 ==
    ASSUME NEW q \in Nat, NEW m \in Nat, m % 16 = 0
    PROVE  (q * m) % 16 = 0
<1>1. PICK k \in Int : m = 16 * k
  BY Division
<1>2. PICK j \in Int : j = q * k
  OBVIOUS
<1>3. q * m = 16 * j
  BY <1>1, <1>2
<1> QED  BY <1>3

\* The pages of a range that starts at a page and ends in the last byte of one, or less
\* than a page before.
LEMMA PagesAre ==
    ASSUME NEW x \in Int, NEW y \in Int, NEW d \in 0 .. OsPage - 1
    PROVE  Pages(x * OsPage, y * OsPage - d) = x .. x + y - 1
<1> DEFINE P == OsPage
<1>1. P \in Nat \ {0}
  BY PageAssumption
<1>2. x * P = x * P + 0 /\ 0 \in 0 .. P - 1
  BY <1>1
<1>3. (x * P) \div P = x
  BY <1>1, <1>2, QuotientIs
<1>4. x * P + (y * P - d) - 1 = (x + y - 1) * P + (P - 1 - d)
  BY <1>1
<1>5. x + y - 1 \in Int /\ P - 1 - d \in 0 .. P - 1
  BY <1>1
<1>6. ((x + y - 1) * P + (P - 1 - d)) \div P = x + y - 1
  BY <1>1, <1>5, QuotientIs
<1> HIDE DEF P
<1>7. Pages(x * P, y * P - d) = (x * P) \div P .. (x * P + (y * P - d) - 1) \div P
  BY DEF Pages, P
<1> QED  BY <1>3, <1>4, <1>6, <1>7 DEF P

\* The addresses of mmap are multiples of a page, up to the alignment.
LEMMA AddressesAre ==
    ASSUME NEW align \in Nat \ {0}, NEW addr \in Addresses(align)
    PROVE  \E k \in Nat : /\ addr = k * OsPage /\ k >= 1
                          /\ align > OsPage => k * OsPage <= align
<1> DEFINE P == OsPage
<1>1. P \in Nat \ {0}
  BY PageAssumption
<1>2. PICK m, r \in Int : m = align \div P /\ align = P * m + r /\ 0 <= r /\ r < P
  BY <1>1, Division
<1>3. PICK k \in 1 .. Max({m, 1}) : addr = k * P
  BY <1>2 DEF Addresses
<1>4. Max({m, 1}) = IF m >= 1 THEN m ELSE 1
  BY <1>2, MaxMin
<1>5. k \in Nat /\ k >= 1
  BY <1>2, <1>3, <1>4
<1>6. ASSUME align > P
      PROVE  k * P <= align
  <2>1. m >= 1
    BY <1>1, <1>2, <1>6
  <2>2. k <= m
    BY <1>2, <1>3, <1>4, <2>1
  <2>3. k * P <= m * P
    BY <1>1, <1>2, <1>5, <2>2
  <2> QED  BY <1>1, <1>2, <1>5, <2>3
<1> QED  BY <1>3, <1>5, <1>6

\* A sum that is small enough does not wrap around.
LEMMA WordIs == ASSUME NEW k \in Nat, k < SizeMod PROVE Word(k) = k
<1>1. PICK m \in Nat : m = SizeMod /\ k < m
  BY WordAssumption
<1>2. k % m = k
  BY <1>1
<1> QED BY <1>1, <1>2 DEF Word

\* os_mmap_aligned leaves the pages of the block and no others, wherever mmap puts the
\* mapping.
LEMMA TrimmingExact ==
    ASSUME NEW w \in Nat, NEW align \in Nat \ {0}, NEW addr \in Addresses(align),
           align > OsPage => align % OsPage = 0,
           w * OsPage + align < SizeMod, 2 * align <= SizeMod
    PROVE  LET mmap == MmapAligned(w * OsPage, align, addr)
           IN  /\ mmap.mapped = Pages(mmap.base, w * OsPage)
               /\ \E q \in Nat : mmap.base = q * (IF align > OsPage THEN align ELSE OsPage)
<1> DEFINE P == OsPage
           total == w * P
           mmap == MmapAligned(total, align, addr)
<1>1. P \in Nat \ {0} /\ P >= 2
  BY PageAssumption DEF MIN_ALIGN
<1>2. PICK k \in Nat : addr = k * P /\ k >= 1 /\ (align > P => k * P <= align)
  BY AddressesAre
<1>3. /\ 0 \in 0 .. P - 1 /\ 1 \in 0 .. P - 1
      /\ \A x, y \in Int : y * P - 0 = y * P
  BY <1>1
<1>4. \A x, y \in Int : /\ Pages(x * P, y * P) = x .. x + y - 1
                        /\ Pages(x * P, y * P - 1) = x .. x + y - 1
  <2> TAKE x, y \in Int
  <2>1. Pages(x * P, y * P - 0) = x .. x + y - 1
    BY <1>3, PagesAre
  <2>2. Pages(x * P, y * P - 1) = x .. x + y - 1
    BY <1>3, PagesAre
  <2> QED  BY <1>3, <2>1, <2>2
<1>5. CASE align <= P
  <2>1. mmap.base = addr /\ mmap.mapped = Pages(addr, total)
    BY <1>1, <1>5 DEF MmapAligned
  <2>2. mmap.base = k * (IF align > P THEN align ELSE P)
    BY <1>1, <1>2, <1>5, <2>1
  <2> QED  BY <2>1, <2>2
<1>6. CASE align > P
  <2>1. PICK m \in Int : align = m * P
    <3>1. align % P = 0 /\ align \in Int
      BY <1>6
    <3>2. PICK q, r \in Int : r = align % P /\ align = P * q + r
      BY <1>1, <3>1, Division
    <3>3. align = q * P
      BY <1>1, <3>1, <3>2
    <3> QED  BY <3>3
  <2>2. m \in Nat /\ m >= 2
    BY <1>1, <1>6, <2>1
  <2>3. k <= m
    BY <1>1, <1>2, <1>6, <2>1, <2>2
  <2>4. RoundUp(addr, align) = align
    <3>1. addr \in Nat /\ addr > 0 /\ addr <= align
      BY <1>1, <1>2, <1>6
    <3>2. PICK q \in Nat : /\ RoundUp(addr, align) = q * align
                           /\ q * align <= addr + align - 1
                           /\ addr > 0 => q > 0
      BY <3>1, RoundUpFacts
    <3>3. q * align < 2 * align
      BY <3>1, <3>2
    <3>4. q < 2
      BY <3>3
    <3> QED  BY <3>1, <3>2, <3>4
  <2> DEFINE end == align + total
             extra == total + align - 1
  <2>5. /\ mmap.base = align
        /\ mmap.mapped = Pages(addr, extra) \ (Pages(addr, align - addr)
                              \cup Pages(end, addr + extra - end))
    <3>1. PICK z \in Nat : z = total /\ z + align < SizeMod
      BY <1>1
    <3>2. /\ z + align - 1 \in Nat /\ z + align - 1 < SizeMod
          /\ align + z \in Nat /\ align + z < SizeMod
      BY <3>1, WordAssumption
    <3>3. addr + align - 1 \in Nat /\ addr + align - 1 < SizeMod
      BY <1>1, <1>2, <1>6, WordAssumption
    <3>4. Word(z + align - 1) = z + align - 1 /\ Word(align + z) = align + z
          /\ Word(addr + align - 1) = addr + align - 1
      BY <3>2, <3>3, WordIs
    <3>5. Extra(total, align) = extra
      BY <1>6, <3>1, <3>4 DEF Extra
    <3>6. RoundUpWord(addr, align) = align
      BY <2>4, <3>4 DEF RoundUpWord, RoundUp
    <3>7. Word(align + total) = end
      BY <3>1, <3>4
    <3>8. ~(align <= P)
      BY <1>1, <1>6
    <3> HIDE DEF total, extra, end, P
    <3> QED BY <3>5, <3>6, <3>7, <3>8 DEF MmapAligned, mmap, P
  <2>6. /\ extra = (w + m) * P - 1 /\ w + m \in Int
        /\ align - addr = (m - k) * P /\ m - k \in Int
        /\ end = (m + w) * P /\ m + w \in Int
        /\ addr + extra - end = k * P - 1
    BY <1>1, <1>2, <2>1, <2>2
  <2>7. Pages(addr, extra) = k .. k + (w + m) - 1
    BY <1>2, <1>4, <2>6
  <2>8. Pages(addr, align - addr) = k .. k + (m - k) - 1
    BY <1>2, <1>4, <2>6
  <2>9. Pages(end, addr + extra - end) = m + w .. m + w + k - 1
    BY <1>2, <1>4, <2>6
  <2>10. Pages(align, total) = m .. m + w - 1
    BY <1>4, <2>1, <2>2
  <2>11. m .. m + w - 1 = (k .. k + (w + m) - 1)
                            \ ((k .. k + (m - k) - 1) \cup (m + w .. m + w + k - 1))
    BY <1>2, <2>2, <2>3
  <2>12. mmap.mapped = Pages(mmap.base, total)
    BY <2>5, <2>7, <2>8, <2>9, <2>10, <2>11
  <2>13. mmap.base = 1 * align
    BY <2>5
  <2> QED  BY <1>6, <2>12, <2>13
<1> QED  BY <1>1, <1>5, <1>6

\* The loop of size_class_init goes from one pair of Doubles to the next.
LEMMA DoublesNext ==
    ASSUME NEW k, NEW d, <<k, d>> \in Doubles
    PROVE  /\ k \in 16 .. 75 /\ d \in Nat
           /\ k # 75 => <<k + 1, d + d \div 8>> \in Doubles
           /\ k = 16 => d < MEDIUM_MAX * Unit
           /\ k = 75 => d >= MEDIUM_MAX * Unit
<1>1. k \in 16 .. 75 /\ d \in Nat
  BY SMT DEF Doubles
<1>2. k # 75 => <<k + 1, d + d \div 8>> \in Doubles
  BY SMT DEF Doubles
<1>3. k = 16 => d < MEDIUM_MAX * Unit
  BY SMT DEF Doubles, MEDIUM_MAX, Unit
<1>4. k = 75 => d >= MEDIUM_MAX * Unit
  BY SMT DEF Doubles, MEDIUM_MAX, Unit
<1> QED  BY <1>1, <1>2, <1>3, <1>4

\* A slot of slab_alloc holds its class, and a page holds two slots or more.
LEMMA SlabBlockFits ==
    ASSUME NEW b \in Bin, bin_size[b] \in Nat
    PROVE  /\ SlabBlock(b).kind = "slab" /\ SlabBlock(b).bin = b
           /\ SlabBlock(b).slot_size \in Nat /\ SlabBlock(b).slot_size >= bin_size[b]
           /\ SlabBlock(b).slot_size % MIN_ALIGN = 0
           /\ bin_size[b] <= PAGE_SIZE_ALLOC \div 2 =>
                /\ SlabBlock(b).capacity >= 2
                /\ SlabBlock(b).capacity * SlabBlock(b).slot_size <= PAGE_SIZE_ALLOC
<1> DEFINE s == RoundUp(Max({bin_size[b], MIN_ALIGN}), MIN_ALIGN)
<1>1. PICK x \in Nat : x = bin_size[b]
  OBVIOUS
<1>2. PICK y \in Nat : y = Max({bin_size[b], MIN_ALIGN}) /\ y >= x /\ y >= 16
                       /\ (x <= 32768 => y <= 32768)
  BY <1>1, MaxMin DEF MIN_ALIGN
<1>3. PICK q \in Nat : s = q * 16 /\ q * 16 >= y /\ q * 16 <= y + 16 - 1
  <2>1. 16 \in Nat \ {0}
    OBVIOUS
  <2>2. s = RoundUp(y, 16)
    BY <1>2 DEF MIN_ALIGN
  <2> QED  BY <2>1, <2>2, RoundUpFacts, Zenon
<1>4. SlabBlock(b) = [kind |-> "slab", bin |-> b, slot_size |-> s,
                      capacity |-> PAGE_SIZE_ALLOC \div s]
  BY DEF SlabBlock
<1> HIDE DEF s
<1>5. /\ SlabBlock(b).kind = "slab" /\ SlabBlock(b).bin = b
      /\ SlabBlock(b).slot_size = s /\ SlabBlock(b).capacity = PAGE_SIZE_ALLOC \div s
  BY <1>4
<1>6. s \in Nat /\ s >= x /\ s % 16 = 0 /\ s >= 16 /\ (x <= 32768 => s <= 32768)
  BY <1>2, <1>3
<1>7. PICK c, r \in Int : c = PAGE_SIZE_ALLOC \div s /\ PAGE_SIZE_ALLOC = s * c + r
                          /\ 0 <= r /\ r < s
  BY <1>6, Division DEF PAGE_SIZE_ALLOC
<1>8. c * s <= PAGE_SIZE_ALLOC
  BY <1>6, <1>7 DEF PAGE_SIZE_ALLOC
<1>9. x <= 32768 => c >= 2
  BY <1>6, <1>7 DEF PAGE_SIZE_ALLOC
<1>10. PAGE_SIZE_ALLOC \div 2 = 32768
  BY DEF PAGE_SIZE_ALLOC
<1> QED  BY <1>1, <1>5, <1>6, <1>7, <1>8, <1>9, <1>10 DEF MIN_ALIGN

\* A large block holds its size behind its header, starts at a multiple of MIN_ALIGN,
\* and is all that is mapped.
LEMMA LargeBlockFits ==
    ASSUME NEW n \in Nat, NEW align \in Nat \ {0}, NEW addr \in Addresses(align),
           align % MIN_ALIGN = 0, align > OsPage => align % OsPage = 0,
           LARGE_HEADER_SIZE + n + OsPage + 2 * align <= SizeMod
    PROVE  LET b == LargeBlock(n, align, addr)
           IN  /\ b.kind = "large" /\ b.header \in Nat /\ b.total \in Nat
               /\ b.header >= LARGE_HEADER_SIZE
               /\ (b.base + b.header) % MIN_ALIGN = 0
               /\ b.header + n <= b.total
               /\ b.mapped = Pages(b.base, b.total)
<1> DEFINE header == LargeHeader(align)
           total  == LargeTotal(n, align)
           mmap   == MmapAligned(total, align, addr)
           b      == LargeBlock(n, align, addr)
<1>1. OsPage \in Nat \ {0} /\ OsPage % 16 = 0 /\ align % 16 = 0
  BY PageAssumption DEF MIN_ALIGN
<1>2. PICK h \in Nat : header = h * align /\ h * align >= 48 /\ h * align <= 48 + align - 1
  BY RoundUpFacts DEF LARGE_HEADER_SIZE, LargeHeader
<1>3. header \in Nat /\ header % 16 = 0
  <2>1. align \in Nat
    OBVIOUS
  <2>2. (h * align) % 16 = 0
    BY <1>1, <2>1, Multiple16, Zenon
  <2> QED  BY <1>2, <2>1, <2>2
<1>4. PICK w \in Nat : /\ total = w * OsPage /\ w * OsPage >= header + n
                       /\ w * OsPage + align < SizeMod
  <2>1. PICK k \in Nat : k = header + n
    BY <1>3
  <2>2. PICK q \in Nat : /\ RoundUp(k, OsPage) = q * OsPage
                         /\ q * OsPage >= k /\ q * OsPage <= k + OsPage - 1
    BY <1>1, RoundUpFacts, Zenon
  <2>3. PICK P \in Nat, m \in Nat, a \in Nat, d \in Nat :
           /\ P = OsPage /\ m = SizeMod /\ a = align /\ d = header /\ P > 0 /\ a > 0
           /\ d <= 48 + a - 1 /\ 48 + n + P + 2 * a <= m /\ k = d + n
    BY <1>1, <1>2, <1>3, <2>1, WordAssumption DEF LARGE_HEADER_SIZE
  <2>4. k + P - 1 \in Nat /\ k + P - 1 < m
    BY <2>3
  <2>5. Word(k + OsPage - 1) = k + OsPage - 1
    BY <2>3, <2>4, WordIs
  <2>6. total = q * OsPage
    BY <2>1, <2>2, <2>5 DEF LargeTotal, RoundUpWord, RoundUp
  <2>7. PICK z \in Nat : z = q * OsPage /\ z <= k + P - 1
    BY <2>2, <2>3
  <2>8. z + a < m
    BY <2>3, <2>7
  <2> QED  BY <2>1, <2>2, <2>3, <2>6, <2>7, <2>8
<1>4a. 2 * align <= SizeMod
  BY <1>1, WordAssumption DEF LARGE_HEADER_SIZE
<1>5. /\ mmap.mapped = Pages(mmap.base, total)
      /\ \E q \in Nat : mmap.base = q * (IF align > OsPage THEN align ELSE OsPage)
  BY <1>4, <1>4a, TrimmingExact
<1>6. mmap.base \in Nat /\ mmap.base % 16 = 0
  <2>1. PICK q \in Nat : mmap.base = q * (IF align > OsPage THEN align ELSE OsPage)
    BY <1>5
  <2>2. PICK m \in Nat : m = (IF align > OsPage THEN align ELSE OsPage) /\ m % 16 = 0
    BY <1>1
  <2>3. mmap.base = q * m
    BY <2>1, <2>2
  <2>4. (q * m) % 16 = 0
    BY <2>2, Multiple16, Zenon
  <2> QED  BY <2>3, <2>4
<1>7. b = [kind |-> "large", header |-> header, total |-> total,
           base |-> mmap.base, mapped |-> mmap.mapped]
  BY DEF LargeBlock
<1> HIDE DEF header, total, mmap, b
<1>8. /\ b.kind = "large" /\ b.header = header /\ b.total = total
      /\ b.base = mmap.base /\ b.mapped = mmap.mapped
  BY <1>7
<1>9. header >= 48 /\ header + n <= total /\ total \in Nat
  BY <1>1, <1>2, <1>4
<1>10. (mmap.base + header) % 16 = 0
  BY <1>3, <1>6
<1>11. b.mapped = Pages(b.base, b.total)
  BY <1>5, <1>8
<1> QED  BY <1>3, <1>8, <1>9, <1>10, <1>11 DEF MIN_ALIGN, LARGE_HEADER_SIZE, b

\* The largest size of slab_alloc is a multiple of 8, and more than the small bins.
LEMMA MediumMax == MEDIUM_MAX \in Nat /\ MEDIUM_MAX % 8 = 0 /\ MEDIUM_MAX > 144
BY SMT DEF MEDIUM_MAX

\* What large_alloc_aligned returns is NULL or a large block.
LEMMA LargeBlocksAre ==
    ASSUME NEW n, NEW align, NEW b \in LargeBlocks(n, align)
    PROVE  \/ b = NullBlock /\ b.kind = "null"
           \/ b.kind = "large" /\ \E addr \in Addresses(align) : b = LargeBlock(n, align, addr)
<1>1. NullBlock.kind = "null" /\ \A addr : LargeBlock(n, align, addr).kind = "large"
  BY DEF NullBlock, LargeBlock
<1> HIDE DEF LargeBlock, NullBlock
<1> QED BY <1>1 DEF LargeBlocks

\* A request in range is in range without its alignment, and so is what slab_alloc makes of
\* one for my_memalign.
LEMMA InRangeSize ==
    ASSUME NEW k \in Nat, NEW a \in Nat, NEW s \in Nat, InRange(k, a),
           s > MEDIUM_MAX => s = k
    PROVE  InRange(s, MIN_ALIGN) /\ LARGE_HEADER_SIZE + s + OsPage + 2 * MIN_ALIGN <= SizeMod
<1>1. PICK P \in Nat, m \in Nat, M \in Nat :
         P = OsPage /\ m = SizeMod /\ M = MEDIUM_MAX /\ m >= 2 * M + P /\ M > 144
  BY PageAssumption, WordAssumption, MediumMax
<1>2. PICK y \in Nat : y = Max({a, MIN_ALIGN}) /\ y >= 16
  BY MaxMin DEF MIN_ALIGN
<1>3. 48 + k + P + 2 * y <= m
  BY <1>1, <1>2 DEF InRange, LARGE_HEADER_SIZE
<1>4. 48 + s + P + 2 * 16 <= m
  BY <1>1, <1>2, <1>3
<1>5. Max({MIN_ALIGN, MIN_ALIGN}) = 16
  BY MaxMin DEF MIN_ALIGN
<1> QED BY <1>1, <1>4, <1>5 DEF InRange, LARGE_HEADER_SIZE, MIN_ALIGN

\* The size that size_to_bin looks for is the first multiple of 8, and not 0.
LEMMA WantedFacts ==
    ASSUME size \in Nat
    PROVE  /\ Wanted \in Nat /\ Wanted % 8 = 0 /\ Wanted >= size /\ Wanted >= 8
           /\ Wanted <= (IF size = 0 THEN 8 ELSE size + 7)
<1>1. PICK s \in Nat : s = Max({size, 1}) /\ s = (IF size = 0 THEN 1 ELSE size)
  BY MaxMin
<1>2. PICK q \in Nat : /\ RoundUp(s, 8) = q * 8 /\ q * 8 >= s /\ q * 8 <= s + 8 - 1
                       /\ s > 0 => q > 0
  <2>1. 8 \in Nat \ {0}
    OBVIOUS
  <2> QED  BY <2>1, RoundUpFacts, Zenon
<1>3. Wanted = q * 8
  BY <1>1, <1>2 DEF Wanted
<1> QED  BY <1>1, <1>2, <1>3

\* The integer part of a double that is not under a number.
LEMMA DivUnit ==
    ASSUME NEW d \in Nat
    PROVE  /\ d \div Unit \in Nat
           /\ \A m \in Nat : d >= m * Unit => d \div Unit >= m
<1>1. Unit \in Nat \ {0}
  BY DEF Unit
<1>2. PICK q, r \in Int : q = d \div Unit /\ d = Unit * q + r /\ 0 <= r /\ r < Unit
  BY <1>1, Division
<1>3. q >= 0
  BY <1>2, SMT DEF Unit
<1>4. \A m \in Nat : d >= m * Unit => q >= m
  BY <1>2, SMT DEF Unit
<1> QED  BY <1>2, <1>3, <1>4

\* At the start the small bins are set, and no call is made.
LEMMA ClassInvInit == ClassInit => ClassInv
<1> SUFFICES ASSUME ClassInit PROVE ClassInv
  OBVIOUS
<1>1. \A b \in Bin : bin_size[b] = IF b < 16 THEN (b + 1) * 8 ELSE 0
  BY DEF ClassInit, SMALL_BIN_COUNT
<1>2. bin_size \in [Bin -> 0 .. MEDIUM_MAX]
  <2>1. \A b \in Bin : (IF b < 16 THEN (b + 1) * 8 ELSE 0) \in 0 .. MEDIUM_MAX
    BY MediumMax DEF Bin, BIN_COUNT
  <2> QED  BY <2>1 DEF ClassInit, SMALL_BIN_COUNT
<1>3. \A b \in Bin : bin_size[b] % 8 = 0 /\ (b < SMALL_BIN_COUNT => bin_size[b] = (b + 1) * 8)
  BY <1>1 DEF Bin, BIN_COUNT, SMALL_BIN_COUNT
<1>4. Growing
  <2>1. bin = 16 /\ double = 128 * 4096
    BY DEF ClassInit, SMALL_BIN_COUNT, SMALL_MAX, Unit
  <2>2. <<bin, double>> \in Doubles
    BY <2>1, SMT DEF Doubles
  <2>3. \A a, b \in Bin : a < b /\ b < bin => bin_size[a] < bin_size[b]
    BY <1>1, <2>1 DEF Bin, BIN_COUNT
  <2> QED  BY <2>1, <2>2, <2>3 DEF Growing, SMALL_BIN_COUNT
<1>5. /\ stage = "init" /\ size = 0 /\ request.size = 0 /\ old = NoBlock
      /\ block = NoBlock /\ block.kind = "none" /\ request.align = 16 /\ old.kind = "none"
  BY DEF ClassInit, NoBlock, MIN_ALIGN
<1>6. BestFit /\ BlocksFit /\ ReallocKeepsContents
  BY <1>5 DEF BestFit, BlocksFit, ReallocKeepsContents
<1> QED  BY <1>2, <1>3, <1>4, <1>5, <1>6 DEF ClassInv, TableInv

\* The next medium bin is larger than the last, a multiple of 16, and at least the double
\* unless it is the largest.
LEMMA NextBin ==
    ASSUME NEW x \in 0 .. MEDIUM_MAX - 1, x % 8 = 0, NEW d \in Nat
    PROVE  LET n == Min({Max({RoundUp(d \div Unit, 16), x + 16}), MEDIUM_MAX})
           IN  /\ n \in 0 .. MEDIUM_MAX /\ n % 8 = 0 /\ n > x
               /\ n >= d \div Unit \/ n = MEDIUM_MAX
<1> DEFINE n == Min({Max({RoundUp(d \div Unit, 16), x + 16}), MEDIUM_MAX})
<1>1. PICK y \in Nat : y = d \div Unit
  BY DEF Unit
<1>2. PICK q \in Nat : RoundUp(y, 16) = q * 16 /\ q * 16 >= y
  <2>1. 16 \in Nat \ {0}
    OBVIOUS
  <2> QED  BY <2>1, RoundUpFacts, Zenon
<1>3. PICK z \in Nat : z = Max({RoundUp(d \div Unit, 16), x + 16})
                       /\ z = IF q * 16 >= x + 16 THEN q * 16 ELSE x + 16
  <2>1. q * 16 \in Int /\ x + 16 \in Int
    OBVIOUS
  <2>2. Max({q * 16, x + 16}) = IF q * 16 >= x + 16 THEN q * 16 ELSE x + 16
    BY <2>1, MaxMin
  <2> QED  BY <1>1, <1>2, <2>1, <2>2
<1>4. PICK m \in Nat : m = MEDIUM_MAX /\ m % 8 = 0
  BY MediumMax
<1>5. n = IF z <= m THEN z ELSE m
  <2>1. Min({z, m}) = IF z <= m THEN z ELSE m
    BY MaxMin
  <2> QED  BY <1>3, <1>4, <2>1
<1> HIDE DEF n
<1>6. z % 8 = 0 /\ z > x /\ z >= y
  BY <1>2, <1>3
<1>7. n \in 0 .. m /\ n % 8 = 0 /\ n > x /\ (n >= y \/ n = m)
  BY <1>4, <1>5, <1>6
<1> QED  BY <1>1, <1>4, <1>7 DEF n

\* size_class_init builds a sorted table that ends with MEDIUM_MAX, and nothing changes
\* it later.
LEMMA ClassTableStep ==
    ASSUME ClassInv, ClassNext
    PROVE  TableInv'
<1>1. /\ bin_size \in [Bin -> 0 .. MEDIUM_MAX]
      /\ \A b \in Bin : /\ bin_size[b] % 8 = 0
                        /\ b < SMALL_BIN_COUNT => bin_size[b] = (b + 1) * 8
      /\ stage = "init" => Growing
      /\ stage # "init" => Sorted
  BY DEF ClassInv, TableInv
<1>2. Bin = 0 .. 74 /\ SMALL_BIN_COUNT = 16 /\ BIN_COUNT = 75
  BY DEF Bin, SMALL_BIN_COUNT, BIN_COUNT
<1>3. CASE InitMedium
  <2>1. /\ stage = "init" /\ stage' = "init" /\ bin < 75
        /\ bin_size[bin - 1] < MEDIUM_MAX
        /\ double' = double + double \div 8 /\ bin' = bin + 1
        /\ bin_size' = [bin_size EXCEPT ![bin] =
             Min({Max({RoundUp(double' \div Unit, 16), bin_size[bin - 1] + 16}), MEDIUM_MAX})]
    BY <1>2, <1>3 DEF InitMedium
  <2>2. <<bin, double>> \in Doubles
        /\ \A a, b \in Bin : a < b /\ b < bin => bin_size[a] < bin_size[b]
    BY <1>1, <2>1 DEF Growing
  <2>3. bin \in 16 .. 74 /\ double \in Nat /\ <<bin', double'>> \in Doubles
    BY <2>1, <2>2, DoublesNext
  <2>4. PICK k \in 16 .. 74 : k = bin
    BY <2>3
  <2>5. PICK x \in 0 .. MEDIUM_MAX - 1 : x = bin_size[k - 1] /\ x % 8 = 0
    <3>1. k - 1 \in Bin
      BY <1>2
    <3>2. bin_size[k - 1] \in 0 .. MEDIUM_MAX /\ bin_size[k - 1] % 8 = 0
          /\ bin_size[k - 1] < MEDIUM_MAX
      BY <1>1, <2>1, <2>4, <3>1
    <3> QED  BY <3>2, MediumMax
  <2>6. PICK d \in Nat : d = double'
    BY <2>1, <2>3
  <2>7. PICK n \in 0 .. MEDIUM_MAX :
           /\ n = Min({Max({RoundUp(d \div Unit, 16), x + 16}), MEDIUM_MAX})
           /\ n % 8 = 0 /\ n > x
           /\ n >= d \div Unit \/ n = MEDIUM_MAX
    BY <2>5, NextBin
  <2>8. bin_size' = [bin_size EXCEPT ![k] = n]
    BY <2>1, <2>4, <2>5, <2>6, <2>7
  <2>9. \A b \in Bin : bin_size'[b] = IF b = k THEN n ELSE bin_size[b]
    BY <1>1, <2>8
  <2>10. bin_size' \in [Bin -> 0 .. MEDIUM_MAX]
    BY <1>1, <2>7, <2>8
  <2>11. \A b \in Bin : /\ bin_size'[b] % 8 = 0
                        /\ b < SMALL_BIN_COUNT => bin_size'[b] = (b + 1) * 8
    <3> TAKE b \in Bin
    <3>1. CASE b = k
      <4>1. bin_size'[b] = n
        BY <2>9, <3>1
      <4>2. ~(b < 16)
        BY <3>1
      <4> QED  BY <1>2, <2>7, <4>1, <4>2
    <3>2. CASE b # k
      BY <1>1, <2>9, <3>2
    <3> QED  BY <3>1, <3>2
  <2>12. \A a, b \in Bin : a < b /\ b < bin' => bin_size'[a] < bin_size'[b]
    <3> SUFFICES ASSUME NEW a \in Bin, NEW b \in Bin, a < b, b < k + 1
                 PROVE  bin_size'[a] < bin_size'[b]
      BY <2>1, <2>4
    <3>1. CASE b < k
      <4>1. a # k /\ b # k
        BY <1>2, <3>1
      <4>2. bin_size'[a] = bin_size[a] /\ bin_size'[b] = bin_size[b]
        BY <2>9, <4>1
      <4>3. bin_size[a] < bin_size[b]
        BY <2>2, <2>4, <3>1
      <4> QED  BY <4>2, <4>3
    <3>2. CASE b = k
      <4>1. bin_size[a] <= x
        <5>1. CASE a = k - 1
          BY <1>1, <1>2, <2>5, <5>1
        <5>2. CASE a < k - 1
          <6>1. k - 1 \in Bin /\ k - 1 < bin
            BY <1>2, <2>4
          <6>2. bin_size[a] < bin_size[k - 1]
            BY <2>2, <5>2, <6>1
          <6> QED  BY <1>1, <1>2, <2>5, <6>2
        <5> QED  BY <1>2, <2>4, <3>2, <5>1, <5>2
      <4>2. bin_size'[a] = bin_size[a] /\ bin_size'[b] = n
        BY <1>2, <2>9, <3>2
      <4>3. bin_size[a] \in Int
        BY <1>1
      <4> QED  BY <2>7, <4>1, <4>2, <4>3
    <3> QED  BY <1>2, <2>4, <3>1, <3>2
  <2>13. bin' - 1 = k /\ bin_size'[k] = n /\ k \in Bin
    BY <1>2, <2>1, <2>4, <2>9
  <2>14. Growing'
    BY <2>3, <2>6, <2>7, <2>12, <2>13 DEF Growing
  <2> QED  BY <2>1, <2>10, <2>11, <2>14 DEF TableInv
<1>4. CASE InitRest
  <2>1. /\ stage = "init" /\ stage' = "idle"
        /\ \/ bin = 75
           \/ double >= MEDIUM_MAX * Unit
           \/ bin_size[bin - 1] >= MEDIUM_MAX
        /\ bin_size' = [b \in Bin |-> IF b < bin THEN bin_size[b] ELSE bin_size[bin - 1]]
    BY <1>2, <1>4 DEF InitRest
  <2>2. /\ <<bin, double>> \in Doubles
        /\ \A a, b \in Bin : a < b /\ b < bin => bin_size[a] < bin_size[b]
        /\ \/ bin = SMALL_BIN_COUNT
           \/ bin_size[bin - 1] >= double \div Unit
           \/ bin_size[bin - 1] = MEDIUM_MAX
    BY <1>1, <2>1 DEF Growing
  <2>3. PICK k \in 16 .. 75, d \in Nat : /\ k = bin /\ d = double
                                         /\ k = 16 => d < MEDIUM_MAX * Unit
                                         /\ k = 75 => d >= MEDIUM_MAX * Unit
    <3>1. bin \in 16 .. 75 /\ double \in Nat
          /\ (bin = 16 => double < MEDIUM_MAX * Unit)
          /\ (bin = 75 => double >= MEDIUM_MAX * Unit)
      BY <2>2, DoublesNext, Zenon
    <3> QED  BY <3>1, Zenon
  <2>4. k - 1 \in Bin /\ bin_size[k - 1] \in 0 .. MEDIUM_MAX /\ bin_size[k - 1] % 8 = 0
    BY <1>1, <1>2, <2>3
  <2>5. PICK x \in 0 .. MEDIUM_MAX : x = bin_size[k - 1] /\ x % 8 = 0
    BY <2>4
  <2>6. x = MEDIUM_MAX
    <3>1. d >= MEDIUM_MAX * Unit => d \div Unit >= MEDIUM_MAX
      BY MediumMax, DivUnit
    <3>2. d >= MEDIUM_MAX * Unit \/ x >= MEDIUM_MAX
      BY <2>1, <2>3, <2>5
    <3>3. k = 16 \/ x >= d \div Unit \/ x = MEDIUM_MAX
      BY <1>2, <2>2, <2>3, <2>5
    <3>4. PICK m \in Nat, e \in Int, f \in Int :
             m = MEDIUM_MAX /\ e = d \div Unit /\ f = MEDIUM_MAX * Unit
      BY MediumMax, DivUnit DEF Unit
    <3> QED  BY <2>3, <2>5, <3>1, <3>2, <3>3, <3>4
  <2>7. \A b \in Bin : bin_size'[b] = IF b < k THEN bin_size[b] ELSE MEDIUM_MAX
    BY <2>1, <2>3, <2>5, <2>6
  <2>8. bin_size' \in [Bin -> 0 .. MEDIUM_MAX]
    BY <1>1, <2>1, <2>3, <2>4
  <2>9. \A b \in Bin : /\ bin_size'[b] % 8 = 0
                       /\ b < SMALL_BIN_COUNT => bin_size'[b] = (b + 1) * 8
    BY <1>1, <1>2, <2>7, MediumMax
  <2>10. \A a, b \in Bin : a < b => bin_size'[a] <= bin_size'[b]
    <3> SUFFICES ASSUME NEW a \in Bin, NEW b \in Bin, a < b
                 PROVE  bin_size'[a] <= bin_size'[b]
      OBVIOUS
    <3>1. bin_size[a] \in 0 .. MEDIUM_MAX /\ bin_size[b] \in 0 .. MEDIUM_MAX
      BY <1>1
    <3>2. b < k => bin_size[a] < bin_size[b]
      BY <2>2, <2>3
    <3> QED  BY <1>2, <2>7, <3>1, <3>2, MediumMax
  <2>11. bin_size'[74] = MEDIUM_MAX
    <3>1. 74 < k => k - 1 = 74
      BY <2>3
    <3>2. 74 < k => bin_size[74] = MEDIUM_MAX
      BY <2>5, <2>6, <3>1
    <3> QED  BY <1>2, <2>7, <3>2
  <2>12. Sorted'
    <3>1. BIN_COUNT - 1 = 74
      BY <1>2
    <3> QED  BY <2>10, <2>11, <3>1 DEF Sorted
  <2> QED  BY <2>1, <2>8, <2>9, <2>12 DEF TableInv
<1>5. ASSUME UNCHANGED bin_size, stage # "init", stage' # "init"
      PROVE  TableInv'
  BY <1>1, <1>5 DEF TableInv, Sorted
<1>6. InitMedium \/ InitRest \/ (UNCHANGED bin_size /\ stage # "init" /\ stage' # "init")
  BY Zenon DEF ClassNext, MallocSize, MemalignLarge, MemalignSlab, Realloc, SlabTooLarge,
               SmallBin, MediumBin, Search, Found, Again, Finish, initVars
<1> QED  BY <1>3, <1>4, <1>5, <1>6

\* my_realloc copies what fits, or returns the block it was called with.
LEMMA KeepsContents ==
    ASSUME NEW b, Finish(b), UNCHANGED <<bin_size, old, size>>, size \in Nat,
           bin_size \in [Bin -> 0 .. MEDIUM_MAX],
           old = NoBlock \/ \E c \in Bin : old = SlabBlock(c),
           b.kind = "slab" => /\ b = SlabBlock(b.bin)
                              /\ b.slot_size \in Nat /\ size <= b.slot_size,
           b.kind \in {"slab", "large", "null"},
           b.kind = "large" /\ InRange(size, MIN_ALIGN) =>
                              /\ b.header \in Nat /\ b.total \in Nat
                              /\ b.header + size <= b.total
    PROVE  ReallocKeepsContents'
<1> DEFINE room == IF b.kind = "slab" THEN b.slot_size ELSE b.total - b.header
<1>1. /\ block' = b /\ old' = old /\ size' = size
      /\ copied' = IF \/ old.kind = "none" \/ b.kind = "null"
                      \/ b.kind = "slab" /\ size <= old.slot_size /\ b.bin = old.bin
                   THEN 0
                   ELSE Min({old.slot_size, size})
  BY DEF Finish, CopySize
<1> SUFFICES ASSUME old.kind = "slab", b.kind # "null",
                    b.kind = "large" => InRange(size, MIN_ALIGN)
             PROVE  /\ size <= room
                    /\ copied' <= Min({old.slot_size, room})
                    /\ b = old \/ copied' >= Min({old.slot_size, size})
  BY <1>1 DEF ReallocKeepsContents, InRange
<1>2. PICK c \in Bin : old = SlabBlock(c)
  BY DEF NoBlock
<1>3. bin_size[c] \in Nat
  BY MediumMax
<1>4. old.bin = c /\ old.slot_size \in Nat
  BY <1>2, <1>3, SlabBlockFits
<1>5. PICK s \in Nat, n \in Nat, m \in Int : s = old.slot_size /\ n = size /\ m = room
  BY <1>4
<1>6. n <= m
  BY <1>5
<1>7. Min({s, n}) = (IF s <= n THEN s ELSE n) /\ Min({s, m}) = (IF s <= m THEN s ELSE m)
  <2>1. s \in Int /\ n \in Int /\ m \in Int
    OBVIOUS
  <2>2. Min({s, n}) = (IF s <= n THEN s ELSE n)
    BY <2>1, MaxMin, Zenon
  <2>3. Min({s, m}) = (IF s <= m THEN s ELSE m)
    BY <2>1, MaxMin, Zenon
  <2> QED  BY <2>2, <2>3
<1>8. CASE b.kind = "slab" /\ size <= old.slot_size /\ b.bin = old.bin
  <2>1. copied' = 0 /\ b = old
    BY <1>1, <1>2, <1>4, <1>8
  <2> QED  BY <1>5, <1>6, <1>7, <2>1
<1>9. CASE ~(b.kind = "slab" /\ size <= old.slot_size /\ b.bin = old.bin)
  <2>1. copied' = Min({s, n})
    BY <1>1, <1>5, <1>9
  <2> QED  BY <1>5, <1>6, <1>7, <2>1
<1> QED  BY <1>8, <1>9

\* A slot of a class that is the smallest that holds the size is a right answer.
LEMMA SlabDone ==
    ASSUME ClassInv, NEW c \in Bin, Finish(SlabBlock(c)),
           UNCHANGED <<bin_size, request, old, size>>, request.size <= size,
           bin_size[c] <= PAGE_SIZE_ALLOC \div 2, size <= bin_size[c],
           \A b \in Bin : b < c => bin_size[b] < size
    PROVE  BestFit' /\ BlocksFit' /\ ReallocKeepsContents'
<1> DEFINE b == SlabBlock(c)
<1>1. /\ size \in Nat /\ request.size \in Nat /\ bin_size \in [Bin -> 0 .. MEDIUM_MAX]
      /\ old = NoBlock \/ \E d \in Bin : old = SlabBlock(d)
  BY DEF ClassInv, TableInv
<1>2. bin_size[c] \in Nat
  BY <1>1, MediumMax
<1>3. /\ b.kind = "slab" /\ b.bin = c
      /\ b.slot_size \in Nat /\ b.slot_size >= bin_size[c]
      /\ b.slot_size % MIN_ALIGN = 0
      /\ b.capacity >= 2 /\ b.capacity * b.slot_size <= PAGE_SIZE_ALLOC
  BY <1>2, SlabBlockFits
<1> HIDE DEF b
<1>4. block' = b
  BY DEF Finish, b
<1>5. BestFit'
  BY <1>3, <1>4 DEF BestFit
<1>6. size <= b.slot_size /\ request.size <= b.slot_size
  BY <1>1, <1>2, <1>3
<1>7. BlocksFit'
  BY <1>3, <1>4, <1>6 DEF BlocksFit
<1>8. b = SlabBlock(b.bin) /\ Finish(b)
  BY <1>3 DEF b
<1>9. ReallocKeepsContents'
  BY <1>1, <1>3, <1>6, <1>8, KeepsContents
<1> QED  BY <1>5, <1>7, <1>9

\* A large block, or NULL, is a right answer of slab_alloc.
LEMMA LargeDone ==
    ASSUME ClassInv, NEW b \in LargeBlocks(size, MIN_ALIGN), Finish(b),
           UNCHANGED <<bin_size, request, old, size>>, request.size <= size,
           size > MEDIUM_MAX => size = request.size
    PROVE  BestFit' /\ BlocksFit' /\ ReallocKeepsContents'
<1>1. /\ size \in Nat /\ request.size \in Nat /\ bin_size \in [Bin -> 0 .. MEDIUM_MAX]
      /\ old = NoBlock \/ \E d \in Bin : old = SlabBlock(d)
      /\ request.align \in Nat
  BY DEF ClassInv, TableInv
<1>2. MIN_ALIGN \in Nat \ {0} /\ MIN_ALIGN % MIN_ALIGN = 0
      /\ (MIN_ALIGN > OsPage => MIN_ALIGN % OsPage = 0)
  BY PageAssumption DEF MIN_ALIGN
<1>3. b.kind \in {"large", "null"}
  BY LargeBlocksAre
<1>4. ASSUME b.kind = "large", LARGE_HEADER_SIZE + size + OsPage + 2 * MIN_ALIGN <= SizeMod
      PROVE  /\ b.header \in Nat /\ b.total \in Nat
             /\ b.header >= LARGE_HEADER_SIZE
             /\ (b.base + b.header) % MIN_ALIGN = 0
             /\ b.header + size <= b.total
             /\ b.mapped = Pages(b.base, b.total)
  <2>1. PICK addr \in Addresses(MIN_ALIGN) : b = LargeBlock(size, MIN_ALIGN, addr)
    BY <1>4, LargeBlocksAre
  <2> QED BY <1>1, <1>2, <1>4, <2>1, LargeBlockFits
<1>5. block' = b
  BY DEF Finish
<1>6. BestFit'
  BY <1>3, <1>5 DEF BestFit
<1>7. ASSUME b.kind = "large", InRange(request.size, request.align)
      PROVE  /\ b.header >= LARGE_HEADER_SIZE
             /\ (b.base + b.header) % MIN_ALIGN = 0
             /\ b.header + request.size <= b.total
             /\ b.mapped = Pages(b.base, b.total)
  <2>1. LARGE_HEADER_SIZE + size + OsPage + 2 * MIN_ALIGN <= SizeMod
    BY <1>1, <1>7, InRangeSize
  <2>2. /\ b.header \in Nat /\ b.total \in Nat /\ b.header + size <= b.total
        /\ b.header >= LARGE_HEADER_SIZE /\ (b.base + b.header) % MIN_ALIGN = 0
        /\ b.mapped = Pages(b.base, b.total)
    BY <1>4, <1>7, <2>1
  <2>3. b.header + request.size <= b.total
    BY <1>1, <2>2
  <2> QED BY <2>2, <2>3
<1>8. BlocksFit'
  BY <1>3, <1>5, <1>7 DEF BlocksFit, Pages, InRange
<1>9. ASSUME b.kind = "large", InRange(size, MIN_ALIGN)
      PROVE  b.header \in Nat /\ b.total \in Nat /\ b.header + size <= b.total
  <2>1. LARGE_HEADER_SIZE + size + OsPage + 2 * MIN_ALIGN <= SizeMod
    BY <1>1, <1>2, <1>9, InRangeSize
  <2> QED BY <1>4, <1>9, <2>1
<1>10. ReallocKeepsContents'
  BY <1>1, <1>3, <1>9, KeepsContents
<1> QED  BY <1>6, <1>8, <1>10

\* A size of my_memalign for slab_alloc is not smaller than what was asked for.
LEMMA AllocSizeFacts ==
    ASSUME NEW r \in Requests
    PROVE  r.size \in Nat /\ AllocSize(r) \in Nat /\ r.size <= AllocSize(r)
<1>1. PICK n \in Nat, a \in Nat \ {0} : n = r.size /\ a = r.align
  BY RequestAssumption
<1>2. PICK m \in Nat : m = Max({n, a}) /\ m >= n
  BY MaxMin
<1>3. PICK q \in Nat : RoundUp(m, a) = q * a /\ q * a >= m
  BY RoundUpFacts, Zenon
<1>4. AllocSize(r) = q * a
  BY <1>1, <1>2, <1>3 DEF AllocSize
<1>5. q * a \in Nat
  OBVIOUS
<1> QED  BY <1>1, <1>2, <1>3, <1>4, <1>5

\* The half of a search that does not have the class is cut off.
LEMMA SearchStep ==
    ASSUME ClassInv, Search
    PROVE  Searching'
<1>1. /\ stage = "search" /\ lo < hi /\ UNCHANGED <<bin_size, size>>
      /\ IF bin_size[(lo + hi) \div 2] < Wanted
         THEN lo' = (lo + hi) \div 2 + 1 /\ hi' = hi
         ELSE hi' = (lo + hi) \div 2 /\ lo' = lo
  BY DEF Search, initVars
<1>2. /\ size \in Nat /\ size <= MEDIUM_MAX
      /\ lo \in Bin /\ hi \in Bin /\ lo <= hi
      /\ \A b \in Bin : b < lo => bin_size[b] < Wanted
      /\ Wanted <= bin_size[hi]
      /\ bin_size \in [Bin -> 0 .. MEDIUM_MAX]
      /\ \A a, b \in Bin : a < b => bin_size[a] <= bin_size[b]
  BY <1>1 DEF ClassInv, TableInv, Searching, Sorted
<1>3. PICK w \in Nat : w = Wanted /\ w = Wanted'
  <2>1. Wanted' = Wanted
    BY <1>1 DEF Wanted
  <2> QED  BY <1>2, <2>1, WantedFacts
<1>4. \A b \in Bin : bin_size[b] \in Nat
  BY <1>2, MediumMax
<1>5. PICK l \in 0 .. 74, h \in 0 .. 74 : l = lo /\ h = hi /\ l < h
  <2>1. Bin = 0 .. 74
    BY DEF Bin, BIN_COUNT
  <2> QED  BY <1>1, <1>2, <2>1, Zenon
<1>6. PICK m \in 0 .. 74 : m = (lo + hi) \div 2 /\ l <= m /\ m < h
  BY <1>5
<1>7. Bin = 0 .. 74
  BY DEF Bin, BIN_COUNT
<1>8. CASE bin_size[m] < w
  <2>1. lo' = m + 1 /\ hi' = h
    BY <1>1, <1>3, <1>5, <1>6, <1>8
  <2>2. \A b \in Bin : b < m + 1 => bin_size[b] < w
    <3> SUFFICES ASSUME NEW b \in Bin, b < m + 1 PROVE bin_size[b] < w
      OBVIOUS
    <3>1. b = m \/ bin_size[b] <= bin_size[m]
      <4>1. b = m \/ b < m
        BY <1>7
      <4> QED  BY <1>2, <1>7, <4>1, Zenon
    <3>2. bin_size[b] \in Nat /\ bin_size[m] \in Nat
      BY <1>4, <1>7
    <3> QED  BY <1>8, <3>1, <3>2
  <2>3. lo' \in Bin /\ hi' \in Bin /\ lo' <= hi'
    BY <1>5, <1>6, <1>7, <2>1
  <2> QED  BY <1>1, <1>2, <1>3, <1>5, <2>1, <2>2, <2>3 DEF Searching
<1>9. CASE ~(bin_size[m] < w)
  <2>1. hi' = m /\ lo' = l
    BY <1>1, <1>3, <1>5, <1>6, <1>9
  <2>2. w <= bin_size[m]
    BY <1>4, <1>7, <1>9
  <2>3. lo' \in Bin /\ hi' \in Bin /\ lo' <= hi'
    BY <1>5, <1>6, <1>7, <2>1
  <2> QED  BY <1>1, <1>2, <1>3, <1>5, <2>1, <2>2, <2>3 DEF Searching
<1> QED  BY <1>8, <1>9

\* The last class holds every size that slab_alloc searches for, and the small classes
\* hold none of them.
LEMMA SearchStarts ==
    ASSUME ClassInv, MediumBin
    PROVE  Searching'
<1>1. /\ stage = "slab_alloc" /\ Wanted > SMALL_MAX /\ size <= MEDIUM_MAX
      /\ lo' = 16 /\ hi' = 74 /\ UNCHANGED <<bin_size, size>>
  BY DEF MediumBin, initVars, SMALL_BIN_COUNT, BIN_COUNT
<1>2. /\ size \in Nat /\ bin_size[74] = MEDIUM_MAX
      /\ \A b \in Bin : b < 16 => bin_size[b] = (b + 1) * 8
  <2>1. BIN_COUNT - 1 = 74
    BY DEF BIN_COUNT
  <2> QED  BY <1>1, <2>1 DEF ClassInv, TableInv, Sorted, SMALL_BIN_COUNT
<1>3. PICK w \in Nat : /\ w = Wanted /\ w = Wanted' /\ w % 8 = 0 /\ w > 128
                       /\ w <= (IF size = 0 THEN 8 ELSE size + 7)
  <2>1. Wanted' = Wanted
    BY <1>1 DEF Wanted
  <2> QED  BY <1>1, <1>2, <2>1, WantedFacts DEF SMALL_MAX
<1>4. PICK m \in Nat : m = MEDIUM_MAX /\ m % 8 = 0
  BY MediumMax
<1>5. w <= m
  <2>1. PICK z \in Nat : z = size
    BY <1>2
  <2>2. w <= z + 7 /\ z <= m
    BY <1>1, <1>3, <1>4, <2>1
  <2>3. w <= m + 7
    BY <1>4, <2>2
  <2>4. w % 8 = 0 /\ m % 8 = 0
    BY <1>3, <1>4
  <2> QED  BY <2>3, <2>4
<1>6. \A b \in Bin : b < 16 => bin_size[b] < w
  BY <1>2, <1>3 DEF Bin, BIN_COUNT
<1>7. 16 \in Bin /\ 74 \in Bin
  BY DEF Bin, BIN_COUNT
<1> QED  BY <1>1, <1>2, <1>3, <1>4, <1>5, <1>6, <1>7 DEF Searching

\* A bin below the size that is looked for is below the size.
LEMMA BelowWanted ==
    ASSUME size \in Nat, NEW x \in Nat, x % 8 = 0, x >= 8, x < Wanted
    PROVE  x < size
<1>1. PICK w \in Nat : w = Wanted /\ w % 8 = 0 /\ w <= (IF size = 0 THEN 8 ELSE size + 7)
  BY WantedFacts
<1> QED  BY <1>1

\* size_to_bin finds the class of a small size in its table.
LEMMA SmallBinRight ==
    ASSUME ClassInv, SmallBin
    PROVE  BestFit' /\ BlocksFit' /\ ReallocKeepsContents'
<1>1. /\ stage = "slab_alloc" /\ Wanted <= 128 /\ Finish(SlabBlock(Wanted \div 8 - 1))
      /\ UNCHANGED <<bin_size, request, old, size>>
  BY DEF SmallBin, initVars, SMALL_MAX
<1>2. /\ size \in Nat /\ request.size <= size
      /\ \A b \in Bin : b < 16 => bin_size[b] = (b + 1) * 8
  BY <1>1 DEF ClassInv, TableInv, SMALL_BIN_COUNT
<1>3. PICK w \in Nat : w = Wanted /\ w % 8 = 0 /\ w >= size /\ w >= 8 /\ w <= 128
  BY <1>1, <1>2, WantedFacts
<1>4. PICK c \in 0 .. 15 : c = w \div 8 - 1 /\ (c + 1) * 8 = w
  BY <1>3
<1>5. c \in Bin /\ bin_size[c] = w
  BY <1>2, <1>4 DEF Bin, BIN_COUNT
<1>6. \A b \in Bin : b < c => bin_size[b] < size
  <2> SUFFICES ASSUME NEW b \in Bin, b < c PROVE bin_size[b] < size
    OBVIOUS
  <2>1. PICK x \in Nat : x = bin_size[b] /\ x % 8 = 0 /\ x >= 8 /\ x < w
    BY <1>2, <1>4 DEF Bin, BIN_COUNT
  <2> QED  BY <1>2, <1>3, <2>1, BelowWanted
<1>7. bin_size[c] <= PAGE_SIZE_ALLOC \div 2 /\ size <= bin_size[c]
  BY <1>3, <1>5, SMT DEF PAGE_SIZE_ALLOC
<1>8. Finish(SlabBlock(c))
  BY <1>1, <1>3, <1>4
<1> QED  BY <1>1, <1>2, <1>5, <1>6, <1>7, <1>8, SlabDone

\* size_to_bin finds the class of a medium size by its search, and slab_alloc makes a
\* large allocation of it if a page has no two slots.
LEMMA FoundRight ==
    ASSUME ClassInv, Found
    PROVE  BestFit' /\ BlocksFit' /\ ReallocKeepsContents'
<1>1. /\ stage = "search" /\ lo = hi /\ UNCHANGED <<bin_size, request, old, size>>
      /\ IF bin_size[lo] > PAGE_SIZE_ALLOC \div 2
         THEN \E b \in LargeBlocks(size, MIN_ALIGN) : Finish(b)
         ELSE Finish(SlabBlock(lo))
  BY DEF Found, initVars
<1>2. /\ size \in Nat /\ request.size <= size /\ (size > MEDIUM_MAX => size = request.size)
      /\ lo \in Bin
      /\ \A b \in Bin : b < lo => bin_size[b] < Wanted
      /\ Wanted <= bin_size[lo]
      /\ bin_size \in [Bin -> 0 .. MEDIUM_MAX]
      /\ \A b \in Bin : bin_size[b] % 8 = 0
      /\ \A b \in Bin : b < 16 => bin_size[b] = (b + 1) * 8
      /\ \A a, b \in Bin : a < b => bin_size[a] <= bin_size[b]
  BY <1>1 DEF ClassInv, TableInv, Searching, Sorted, SMALL_BIN_COUNT
<1>3. \A b \in Bin : bin_size[b] \in Nat
  BY <1>2, MediumMax
<1>4. CASE bin_size[lo] > PAGE_SIZE_ALLOC \div 2
  BY <1>1, <1>2, <1>4, LargeDone
<1>5. CASE ~(bin_size[lo] > PAGE_SIZE_ALLOC \div 2)
  <2>1. \A b \in Bin : b < lo => bin_size[b] < size
    <3> SUFFICES ASSUME NEW b \in Bin, b < lo PROVE bin_size[b] < size
      OBVIOUS
    <3>1. 0 \in Bin /\ 0 < 16 /\ (0 + 1) * 8 = 8 /\ (b = 0 \/ 0 < b)
      BY DEF Bin, BIN_COUNT
    <3>2. bin_size[0] = 8
      BY <1>2, <3>1
    <3>3. bin_size[b] >= 8 /\ bin_size[b] \in Nat
      BY <1>2, <1>3, <3>1, <3>2
    <3> QED  BY <1>2, <3>3, BelowWanted
  <2>2. size <= bin_size[lo]
    BY <1>2, <1>3, WantedFacts
  <2>3. bin_size[lo] <= PAGE_SIZE_ALLOC \div 2
    <3>1. PAGE_SIZE_ALLOC \div 2 \in Nat
      BY SMT DEF PAGE_SIZE_ALLOC
    <3> QED  BY <1>2, <1>3, <1>5, <3>1
  <2> QED  BY <1>1, <1>2, <1>5, <2>1, <2>2, <2>3, SlabDone
<1> QED  BY <1>4, <1>5

\* The invariant is kept by every step.
LEMMA ClassInvStep == ClassInv /\ [ClassNext]_classVars => ClassInv'
<1> SUFFICES ASSUME ClassInv, [ClassNext]_classVars PROVE ClassInv'
  OBVIOUS
<1>1. /\ stage \in {"init", "idle", "slab_alloc", "search", "done"}
      /\ size \in Nat /\ request.size \in Nat /\ request.align \in Nat
      /\ old = NoBlock \/ \E b \in Bin : old = SlabBlock(b)
      /\ stage \in {"init", "idle"} => old = NoBlock
      /\ stage # "done" => block = NoBlock
      /\ stage \in {"slab_alloc", "search"} =>
           request.size <= size /\ (size > MEDIUM_MAX => size = request.size)
      /\ stage = "search" => Searching
      /\ BestFit /\ BlocksFit /\ ReallocKeepsContents
  BY DEF ClassInv
<1>2. ClassNext => TableInv'
  BY ClassTableStep
<1>3. bin_size' = bin_size => \A b \in Bin : SlabBlock(b)' = SlabBlock(b)
  BY DEF SlabBlock
<1>4. ASSUME block' = NoBlock, stage' # "done"
      PROVE  BestFit' /\ BlocksFit' /\ ReallocKeepsContents'
  <2>1. block'.kind = "none"
    BY <1>4 DEF NoBlock
  <2> QED  BY <1>4, <2>1 DEF BestFit, BlocksFit, ReallocKeepsContents
<1>5. ASSUME BestFit' /\ BlocksFit' /\ ReallocKeepsContents', stage' = "done",
             UNCHANGED <<bin_size, old>>, size' \in Nat, request'.size \in Nat,
             request'.align \in Nat, TableInv'
      PROVE  ClassInv'
  BY <1>1, <1>3, <1>5 DEF ClassInv
<1>6. CASE InitMedium \/ InitRest
  <2>1. /\ stage = "init" /\ stage' \in {"init", "idle"}
        /\ UNCHANGED <<request, old, size, block>> /\ TableInv'
    BY <1>2, <1>6 DEF InitMedium, InitRest, ClassNext, requestVars
  <2> QED  BY <1>1, <1>4, <2>1 DEF ClassInv
<1>7. CASE stage = "idle" /\ \E r \in Requests : MallocSize(r)
  <2>1. PICK r \in Requests : MallocSize(r)
    BY <1>7
  <2>2. /\ request' = r /\ size' = r.size /\ stage' = "slab_alloc"
        /\ UNCHANGED <<old, block>> /\ TableInv'
    BY <1>2, <1>7, <2>1 DEF MallocSize, ClassNext
  <2>3. r.size \in Nat /\ r.align \in Nat
    BY AllocSizeFacts, RequestAssumption
  <2> QED  BY <1>1, <1>4, <1>7, <2>2, <2>3 DEF ClassInv
<1>8. CASE stage = "idle" /\ \E r \in Requests : MemalignSlab(r)
  <2>1. PICK r \in Requests : MemalignSlab(r)
    BY <1>8
  <2>2. /\ request' = r /\ size' = AllocSize(r) /\ stage' = "slab_alloc"
        /\ UNCHANGED <<old, block>> /\ TableInv' /\ AllocSize(r) <= MEDIUM_MAX
    BY <1>2, <1>8, <2>1, Zenon DEF MemalignSlab, ClassNext
  <2>3. /\ r.size \in Nat /\ AllocSize(r) \in Nat /\ r.size <= AllocSize(r) /\ r.align \in Nat
        /\ ~(AllocSize(r) > MEDIUM_MAX)
    BY <2>2, AllocSizeFacts, RequestAssumption, MediumMax
  <2> QED  BY <1>1, <1>4, <1>8, <2>2, <2>3 DEF ClassInv
<1>9. CASE stage = "idle" /\ \E b \in Bin, n \in NewSizes : Realloc(b, n)
  <2>1. PICK b \in Bin, n \in NewSizes : Realloc(b, n)
    BY <1>9
  <2>2. /\ request' = [size |-> n, align |-> MIN_ALIGN] /\ size' = n /\ stage' = "slab_alloc"
        /\ old' = SlabBlock(b) /\ UNCHANGED <<bin_size, block>> /\ TableInv'
    BY <1>2, <1>9, <2>1, Zenon DEF Realloc, ClassNext, initVars
  <2>3. n \in Nat /\ request'.size = n /\ request'.align \in Nat
    BY <2>2, RequestAssumption, WordAssumption DEF MIN_ALIGN
  <2> QED  BY <1>1, <1>3, <1>4, <1>9, <2>2, <2>3 DEF ClassInv
<1>10. CASE stage = "idle" /\ \E r \in Requests : MemalignLarge(r)
  <2>1. PICK r \in Requests : MemalignLarge(r)
    BY <1>10
  <2>2. PICK b \in LargeBlocks(r.size, r.align) :
           /\ Finish(b) /\ r.align > MIN_ALIGN /\ request' = r
           /\ UNCHANGED <<bin_size, old, size>> /\ TableInv'
    BY <1>2, <1>10, <2>1, Zenon DEF MemalignLarge, ClassNext, initVars
  <2>3. r.size \in Nat /\ r.align \in Nat \ {0} /\ r.align % MIN_ALIGN = 0
        /\ (r.align > OsPage => r.align % OsPage = 0)
    BY <2>2, RequestAssumption
  <2>4. ASSUME b.kind = "large", InRange(r.size, r.align)
        PROVE  /\ b.header >= LARGE_HEADER_SIZE
               /\ (b.base + b.header) % MIN_ALIGN = 0
               /\ b.header + r.size <= b.total
               /\ b.mapped = Pages(b.base, b.total)
    <3>1. PICK addr \in Addresses(r.align) : b = LargeBlock(r.size, r.align, addr)
      BY <2>4, LargeBlocksAre
    <3>2. Max({r.align, MIN_ALIGN}) = r.align
      BY <2>2, <2>3, MaxMin DEF MIN_ALIGN
    <3>3. LARGE_HEADER_SIZE + r.size + OsPage + 2 * r.align <= SizeMod
      BY <2>4, <3>2 DEF InRange
    <3> QED BY <2>3, <3>1, <3>3, LargeBlockFits
  <2>5. block' = b /\ stage' = "done" /\ old' = NoBlock /\ b.kind \in {"large", "null"}
    BY <1>1, <1>10, <2>2, LargeBlocksAre DEF Finish
  <2>6. BestFit' /\ ReallocKeepsContents'
    BY <2>5 DEF BestFit, ReallocKeepsContents, NoBlock
  <2>7. BlocksFit'
    BY <2>2, <2>4, <2>5 DEF BlocksFit, Pages, InRange
  <2> QED  BY <1>1, <1>5, <2>2, <2>3, <2>5, <2>6, <2>7
<1>11. CASE SlabTooLarge
  <2>1. /\ stage = "slab_alloc" /\ stage' = "done"
        /\ \E b \in LargeBlocks(size, MIN_ALIGN) : Finish(b)
        /\ UNCHANGED <<bin_size, request, old, size>> /\ TableInv'
    BY <1>2, <1>11, Zenon DEF SlabTooLarge, ClassNext, initVars, Finish
  <2>2. BestFit' /\ BlocksFit' /\ ReallocKeepsContents'
    BY <1>1, <2>1, LargeDone
  <2> QED  BY <1>1, <1>5, <2>1, <2>2
<1>12. CASE SmallBin
  <2>1. /\ stage = "slab_alloc" /\ stage' = "done"
        /\ UNCHANGED <<bin_size, request, old, size>> /\ TableInv'
    BY <1>2, <1>12, Zenon DEF SmallBin, ClassNext, initVars, Finish
  <2> QED  BY <1>1, <1>5, <1>12, <2>1, SmallBinRight
<1>13. CASE MediumBin
  <2>1. /\ stage = "slab_alloc" /\ stage' = "search"
        /\ UNCHANGED <<bin_size, request, old, size, block>> /\ TableInv'
    BY <1>2, <1>13, Zenon DEF MediumBin, ClassNext, initVars
  <2>2. Searching'
    BY <1>13, SearchStarts
  <2> QED  BY <1>1, <1>3, <1>4, <2>1, <2>2 DEF ClassInv
<1>14. CASE Search
  <2>1. /\ stage = "search" /\ stage' = "search"
        /\ UNCHANGED <<bin_size, request, old, size, block>> /\ TableInv'
    BY <1>2, <1>14, Zenon DEF Search, ClassNext, initVars
  <2>2. Searching'
    BY <1>14, SearchStep
  <2> QED  BY <1>1, <1>3, <1>4, <2>1, <2>2 DEF ClassInv
<1>15. CASE Found
  <2>1. /\ stage = "search" /\ stage' = "done"
        /\ UNCHANGED <<bin_size, request, old, size>> /\ TableInv'
    BY <1>2, <1>15, Zenon DEF Found, ClassNext, initVars, Finish
  <2> QED  BY <1>1, <1>5, <1>15, <2>1, FoundRight
<1>16. CASE Again
  <2>1. /\ stage' = "idle" /\ old' = NoBlock /\ block' = NoBlock /\ size' = 0
        /\ request' = [size |-> 0, align |-> MIN_ALIGN] /\ TableInv'
    BY <1>2, <1>16, Zenon DEF Again, ClassNext
  <2>2. request'.size = 0 /\ request'.align \in Nat
    BY <2>1 DEF MIN_ALIGN
  <2> QED  BY <1>4, <2>1, <2>2 DEF ClassInv
<1>17. CASE UNCHANGED classVars
  <2>1. UNCHANGED <<bin_size, bin, double, stage, request, old, size, lo, hi, block, copied>>
    BY <1>17 DEF classVars, initVars, requestVars
  <2>2. TableInv'
    <3>1. TableInv
      BY DEF ClassInv
    <3> QED  BY <2>1, <3>1 DEF TableInv, Growing, Sorted
  <2>3. BestFit' /\ BlocksFit' /\ ReallocKeepsContents'
    BY <1>1, <2>1 DEF BestFit, BlocksFit, ReallocKeepsContents, Pages, InRange
  <2>4. Searching' = Searching
    BY <2>1 DEF Searching, Wanted
  <2> QED  BY <1>1, <1>3, <2>1, <2>2, <2>3, <2>4 DEF ClassInv
<1> QED
  BY <1>6, <1>7, <1>8, <1>9, <1>10, <1>11, <1>12, <1>13, <1>14, <1>15, <1>16, <1>17
     DEF ClassNext

\* The table, the search and the answers are right, whatever the sizes, the alignments
\* and the size of a page.
THEOREM ClassInvariant == ClassSpec => []ClassInv
<1>1. ClassInit => ClassInv
  BY ClassInvInit
<1>2. ClassInv /\ [ClassNext]_classVars => ClassInv'
  BY ClassInvStep
<1> QED  BY <1>1, <1>2, PTL DEF ClassSpec

\* size_to_bin finds the smallest class that holds the size, for every size.
THEOREM ClassBestFit == ClassSpec => []BestFit
<1>1. ClassInv => BestFit
  BY DEF ClassInv
<1> QED  BY <1>1, ClassInvariant, PTL

\* Slots hold what was asked for and are inside their page, for every size and alignment;
\* large blocks are inside their mapping, which is exactly what is mapped, wherever mmap
\* puts it, for every size and alignment that InRange keeps away from the largest size_t:
\* large_alloc_aligned does not test its sums.
THEOREM ClassBlocksFit == ClassSpec => []BlocksFit
<1>1. ClassInv => BlocksFit
  BY DEF ClassInv
<1> QED  BY <1>1, ClassInvariant, PTL

\* my_realloc keeps the contents, from every class to every size, with the same bound for
\* a size that needs a large block.
THEOREM ClassReallocKeeps == ClassSpec => []ReallocKeepsContents
<1>1. ClassInv => ReallocKeepsContents
  BY DEF ClassInv
<1> QED  BY <1>1, ClassInvariant, PTL
=============================================================================
