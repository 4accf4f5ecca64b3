----------------------------- MODULE ZoneProofs -----------------------------
(***************************************************************************)
(* The large allocations are safe, for every number of threads, blocks and *)
(* arenas, while calls overlap and the process forks: what the two kinds   *)
(* of locks and the calls keep true together is an invariant, the list     *)
(* leads to every header, no call touches a mapping that is gone, and each *)
(* step is a step of Heap or leaves its variables alone.                   *)
(***************************************************************************)
EXTENDS Zone, TLAPS

\* The length of a mapping is a number.
LEMMA TotalType == ASSUME NEW k \in Nat PROVE Total(k) \in Int
<1>1. PICK m \in Int : m = (HeaderSpace + k + PageSize - 1) % SizeMod
  BY LargeAssumption
<1>2. PICK q \in Int : q = m \div PageSize
  BY LargeAssumption
<1> QED BY <1>1, <1>2, LargeAssumption DEF Total

\* At first there is no block and no lock is held.
LEMMA ZoneInit == Init => ZoneInv
<1> SUFFICES ASSUME Init PROVE ZoneInv
  OBVIOUS
<1> USE DEF Init, LargeInit
<1>1. TypeOK
  BY ZoneAssumption DEF TypeOK, Label, Arena
<1>2. LocksOK
  BY LargeAssumption DEF LocksOK
<1>3. ListOK
  BY DEF ListOK
<1>4. OwnersOK
  BY LargeAssumption DEF OwnersOK, Owns, Freeing
<1>5. CallsOK
  BY DEF CallsOK, Freeing
<1> QED  BY <1>1, <1>2, <1>3, <1>4, <1>5 DEF ZoneInv

\* The steps of zone_statistics and of the arena locks, which leave the blocks alone.
ArenaSteps(t) ==
    \/ \E a \in Arena : EnterArenas(t, "alloc", a)
    \/ EnterArenas(t, "relief", 0) \/ EnterArenas(t, "force", 0)
    \/ WorkLock(t) \/ WorkUnlock(t) \/ ReliefEnds(t) \/ ForceLockArena(t)

QuerySteps(t) == QueryBytes(t) \/ QueryPeak(t) \/ QueryRaise(t)

Forks(t) == ForceLockLarge(t) \/ ForceUnlock(t, alive) \/ ForceUnlock(t, {t})

Calls(t) == LargeCall(t) /\ UNCHANGED zoneVars

LargeSteps(t) == (LargeLock(t) \/ LargeStep(t)) /\ UNCHANGED zoneVars

\* Every step is one of these.
LEMMA StepKinds ==
    Next => \E t \in Threads :
                ArenaSteps(t) \/ QuerySteps(t) \/ Forks(t) \/ Calls(t) \/ LargeSteps(t)
BY DEF Next, ZoneCall, Step, Locks, ZoneLock, ZoneStep, ArenaSteps, QuerySteps, Forks,
   Calls, LargeSteps

\* The labels of a call of large.c that has a block, or looks for one.
LargeLabel ==
    {"map", "linklock", "link", "add", "moved", "findlock", "findwalk", "found"} \cup Freeing

\* The steps of the callbacks leave the list and the calls of large.c alone.
LEMMA ZoneSteps ==
    ASSUME TypeOK, NEW t \in Threads, ArenaSteps(t) \/ QuerySteps(t) \/ Forks(t)
    PROVE  /\ pc[t] \notin LargeLabel
           /\ \E l : pc' = [pc EXCEPT ![t] = l] /\ l \notin LargeLabel
           /\ UNCHANGED <<stillVars, linked, mapped, live, op, ptr, la, got>>
           /\ alive' \subseteq alive
<1> USE DEF Goto, At, LargeLabel, Freeing, stillVars, listVars, memVars, argVars
<1>1. CASE QuerySteps(t)
  BY <1>1 DEF QuerySteps, QueryBytes, QueryPeak, QueryRaise, QueryEnds
<1>2. CASE WorkUnlock(t)
  BY <1>2 DEF WorkUnlock
<1>3. CASE ForceLockArena(t)
  <2>1. pc' = [pc EXCEPT ![t] = "force"]
    BY <1>3 DEF ForceLockArena, TypeOK
  <2> QED  BY <1>3, <2>1 DEF ForceLockArena
<1>4. CASE ArenaSteps(t)
  BY <1>2, <1>3, <1>4 DEF ArenaSteps, EnterArenas, WorkLock, ReliefEnds
<1>5. CASE Forks(t)
  BY <1>5 DEF Forks, ForceLockLarge, ForceUnlock
<1> QED  BY <1>1, <1>4, <1>5

\* Every step keeps the types.
LEMMA TypeStep == ZoneInv /\ [Next]_vars => TypeOK'
<1> SUFFICES ASSUME ZoneInv, [Next]_vars PROVE TypeOK'
  OBVIOUS
<1> USE DEF TypeOK, ZoneInv, zoneVars, stillVars, memVars, listVars, statVars, argVars,
            callVars, Goto, At, Label
<1>1. CASE UNCHANGED vars
  BY <1>1 DEF vars, largeVars
<1>2. ASSUME NEW t \in Threads, QuerySteps(t) PROVE TypeOK'
  BY <1>2, ZoneAssumption DEF QuerySteps, QueryBytes, QueryPeak, QueryRaise, QueryEnds
<1>3. ASSUME NEW t \in Threads, ArenaSteps(t) PROVE TypeOK'
  <2>1. NumArenas \in Nat /\ n[t] \in 0 .. NumArenas /\ 0 \in 0 .. NumArenas
    BY ZoneAssumption
  <2>2. n[t] < NumArenas => n[t] + 1 \in 0 .. NumArenas
    BY <2>1
  <2>3. \A a \in Arena : a \in 0 .. NumArenas
    BY <2>1 DEF Arena
  <2>4. CASE WorkLock(t) \/ ReliefEnds(t) \/ ForceLockArena(t)
    BY <2>1, <2>2, <2>4 DEF WorkLock, ReliefEnds, ForceLockArena, LockArena
  <2>5. CASE WorkUnlock(t)
    <3>1. pc[t] = "relieving" => n[t] < NumArenas
      BY <2>1 DEF LocksOK, Arena
    <3>2. CASE pc[t] = "relieving"
      BY <2>1, <2>2, <2>5, <3>1, <3>2, ZenonT(30) DEF WorkUnlock
    <3>3. CASE pc[t] = "allocating"
      BY <2>1, <2>5, <3>3 DEF WorkUnlock
    <3> QED  BY <2>5, <3>2, <3>3 DEF WorkUnlock
  <2> QED  BY <1>3, <2>1, <2>3, <2>4, <2>5 DEF ArenaSteps, EnterArenas
<1>4. ASSUME NEW t \in Threads, Forks(t) PROVE TypeOK'
  BY <1>4, ZoneAssumption DEF Forks, ForceLockLarge, ForceUnlock
<1>5. ASSUME NEW t \in Threads, Calls(t) PROVE TypeOK'
  BY <1>5, LargeAssumption DEF Calls, LargeCall, Malloc, Free, Realloc, UsableSize,
     ClaimedAddress, Enter
<1>6. ASSUME NEW t \in Threads, LargeLock(t), UNCHANGED zoneVars PROVE TypeOK'
  BY <1>6 DEF LargeLock, Lock
<1>7. ASSUME NEW t \in Threads, Map(t), UNCHANGED zoneVars PROVE TypeOK'
  BY <1>7, TotalType DEF Map
<1>8. ASSUME NEW t \in Threads, Link(t), UNCHANGED zoneVars PROVE TypeOK'
  BY <1>8 DEF Link, OwnersOK
<1>9. ASSUME NEW t \in Threads, Unlink(t), UNCHANGED zoneVars PROVE TypeOK'
  BY <1>9 DEF Unlink, UnlinkTo, HeadWithout
<1>10. ASSUME NEW t \in Threads, MapFails(t) \/ Add(t) \/ Sub(t) \/ Unmap(t), UNCHANGED zoneVars
       PROVE  TypeOK'
  <2>1. CASE MapFails(t) \/ Sub(t)
    BY <1>10, <2>1 DEF MapFails, Sub, Return
  <2>2. CASE Add(t)
    <3>1. got[t] \in Bases
      BY <2>2 DEF Add, OwnersOK
    <3> QED  BY <1>10, <2>2, <3>1 DEF Add, Return
  <2>3. CASE Unmap(t)
    <3>1. la[t] \in Bases
      BY <2>3 DEF Unmap, OwnersOK
    <3>2. live' \in SUBSET Bases
      BY <2>3 DEF Unmap
    <3> QED  BY <1>10, <2>3, <3>1, <3>2 DEF Unmap, GiveBack, Return
  <2> QED  BY <1>10, <2>1, <2>2, <2>3
<1>11. ASSUME NEW t \in Threads, WalkOn(t) \/ NotFound(t) \/ Found(t) \/ Answer(t), UNCHANGED zoneVars
       PROVE  TypeOK'
  BY <1>11 DEF WalkOn, NotFound, Found, Answer, Return
<1>12. ASSUME NEW t \in Threads, Resize(t) \/ Grow(t) \/ FreeOld(t), UNCHANGED zoneVars
       PROVE  TypeOK'
  BY <1>12 DEF Resize, Grow, FreeOld, Return
<1>13. ASSUME NEW t \in Threads, GrowSlab(t), UNCHANGED zoneVars PROVE TypeOK'
  BY <1>13 DEF GrowSlab, Return
<1> QED
  BY <1>1, <1>2, <1>3, <1>4, <1>5, <1>6, <1>7, <1>8, <1>9, <1>10, <1>11, <1>12,
     <1>13, StepKinds DEF LargeSteps, LargeStep

\* Every step keeps the labels and the locks together.
LEMMA LocksStep == ZoneInv /\ [Next]_vars => LocksOK'
<1> SUFFICES ASSUME ZoneInv, [Next]_vars PROVE LocksOK'
  OBVIOUS
<1> USE LargeAssumption DEF ZoneInv, TypeOK, LocksOK, zoneVars, Goto, At
<1>1. CASE UNCHANGED vars
  BY <1>1 DEF vars, largeVars, callVars
<1>2. ASSUME NEW t \in Threads, QuerySteps(t) PROVE LocksOK'
  BY <1>2 DEF QuerySteps, QueryBytes, QueryPeak, QueryRaise, QueryEnds
<1>3. ASSUME NEW t \in Threads, ArenaSteps(t) PROVE LocksOK'
  <2>1. ASSUME NEW a \in Arena, EnterArenas(t, "alloc", a) PROVE LocksOK'
    BY <2>1 DEF EnterArenas
  <2>2. CASE EnterArenas(t, "relief", 0) \/ EnterArenas(t, "force", 0)
    <3>1. /\ UNCHANGED <<largeLock, arenaLock>>
          /\ n' = [n EXCEPT ![t] = 0]
          /\ pc[t] = "idle" /\ pc'[t] \in {"relief", "force"}
          /\ \A u \in Threads \ {t} : pc'[u] = pc[u] /\ n'[u] = n[u]
      BY <2>2 DEF EnterArenas
    <3>2. \A a \in Arena : ~(a < n'[t])
      BY <3>1, ZoneAssumption DEF Arena
    <3> QED  BY <3>1, <3>2
  <2>3. CASE WorkLock(t)
    BY <2>3, ZoneAssumption DEF WorkLock, LockArena, Arena
  <2>4. CASE WorkUnlock(t)
    <3>1. /\ UNCHANGED largeLock /\ n[t] \in Arena
          /\ pc[t] \in {"allocating", "relieving"} /\ pc'[t] \in {"idle", "relief"}
          /\ \A u \in Threads \ {t} : pc'[u] = pc[u] /\ n'[u] = n[u]
          /\ arenaLock' = [arenaLock EXCEPT ![n[t]] = NULL]
      BY <2>4 DEF WorkUnlock
    <3>2. \A a \in Arena : arenaLock[a] = t => a = n[t]
      BY <3>1
    <3> QED  BY <3>1, <3>2
  <2>5. CASE ReliefEnds(t)
    BY <2>5, ZoneAssumption DEF ReliefEnds, Arena
  <2>6. CASE ForceLockArena(t)
    BY <2>6, ZoneAssumption DEF ForceLockArena, LockArena, Arena
  <2> QED  BY <1>3, <2>1, <2>2, <2>3, <2>4, <2>5, <2>6 DEF ArenaSteps
<1>4. ASSUME NEW t \in Threads, Forks(t) PROVE LocksOK'
  <2>1. CASE ForceLockLarge(t)
    BY <2>1, ZoneAssumption DEF ForceLockLarge, Arena
  <2>2. ASSUME NEW S, ForceUnlock(t, S) PROVE LocksOK'
    BY <2>2, ZoneAssumption DEF ForceUnlock, Arena
  <2> QED  BY <1>4, <2>1, <2>2 DEF Forks
<1>5. ASSUME NEW t \in Threads, Calls(t) PROVE LocksOK'
  BY <1>5 DEF Calls, LargeCall, Malloc, Free, Realloc, UsableSize, ClaimedAddress, Enter
<1>6. ASSUME NEW t \in Threads, LargeLock(t), UNCHANGED zoneVars PROVE LocksOK'
  BY <1>6 DEF LargeLock, Lock
<1>7. ASSUME NEW t \in Threads, Link(t) \/ Unlink(t) \/ NotFound(t) \/ Found(t), UNCHANGED zoneVars
      PROVE  LocksOK'
  BY <1>7 DEF Link, Unlink, UnlinkTo, NotFound, Found, Return
<1>8. ASSUME NEW t \in Threads, UNCHANGED zoneVars,
             \/ Map(t) \/ MapFails(t) \/ Add(t) \/ Sub(t) \/ Unmap(t) \/ WalkOn(t)
             \/ Answer(t) \/ Resize(t) \/ Grow(t) \/ GrowSlab(t) \/ FreeOld(t)
      PROVE  LocksOK'
  BY <1>8 DEF Map, MapFails, Add, Sub, Unmap, GiveBack, WalkOn, Answer, Resize, Grow,
     GrowSlab, FreeOld, Return
<1> QED
  BY <1>1, <1>2, <1>3, <1>4, <1>5, <1>6, <1>7, <1>8, StepKinds DEF LargeSteps, LargeStep

\* Every step keeps the list linked both ways, and in mapped memory.
LEMMA ListStep == ZoneInv /\ [Next]_vars => ListOK'
<1> SUFFICES ASSUME ZoneInv, [Next]_vars PROVE ListOK'
  OBVIOUS
<1> USE LargeAssumption DEF ZoneInv, TypeOK, ListOK, listVars, memVars, stillVars, Goto,
            At
<1>1. CASE UNCHANGED <<listVars, memVars>>
  BY <1>1
<1>2. ASSUME NEW t \in Threads, Map(t) PROVE ListOK'
  BY <1>2 DEF Map
<1>3. ASSUME NEW t \in Threads, Link(t) PROVE ListOK'
  <2>1. got[t] \in mapped /\ got[t] \notin linked
    BY <1>3 DEF Link, OwnersOK, Owns
  <2> QED  BY <1>3, <2>1 DEF Link
<1>4. ASSUME NEW t \in Threads, Unlink(t) PROVE ListOK'
  <2>1. la[t] \in linked
    BY <1>4 DEF Unlink, UnlinkTo, OwnersOK
  <2> QED  BY <1>4, <2>1 DEF Unlink, UnlinkTo, HeadWithout
<1>5. ASSUME NEW t \in Threads, Unmap(t) PROVE ListOK'
  <2>1. la[t] \in mapped /\ la[t] \notin linked
    BY <1>5 DEF Unmap, OwnersOK, Owns, Freeing
  <2> QED  BY <1>5, <2>1 DEF Unmap, GiveBack
<1>6. ASSUME NEW t \in Threads, Resize(t) PROVE ListOK'
  BY <1>6 DEF Resize
<1>7. ASSUME NEW t \in Threads,
             \/ LargeLock(t) \/ MapFails(t) \/ Add(t) \/ Sub(t) \/ WalkOn(t) \/ NotFound(t)
             \/ Found(t) \/ Answer(t) \/ Grow(t) \/ GrowSlab(t) \/ FreeOld(t)
      PROVE  UNCHANGED <<listVars, memVars>>
  BY <1>7 DEF LargeLock, Lock, MapFails, Add, Sub, WalkOn, NotFound, Found, Answer, Grow,
     GrowSlab, FreeOld
<1>8. ASSUME NEW t \in Threads, QuerySteps(t) \/ Calls(t)
      PROVE  UNCHANGED <<listVars, memVars>>
  BY <1>8 DEF QuerySteps, QueryBytes, QueryPeak, QueryRaise, QueryEnds, Calls, LargeCall,
     Malloc, Free, Realloc, UsableSize, ClaimedAddress, Enter
<1>9. ASSUME NEW t \in Threads, ArenaSteps(t) \/ Forks(t)
      PROVE  UNCHANGED <<listVars, memVars>>
  BY <1>9 DEF ArenaSteps, Forks, EnterArenas, WorkLock, WorkUnlock, ReliefEnds,
     ForceLockArena, ForceLockLarge, ForceUnlock
<1> QED
  BY <1>1, <1>2, <1>3, <1>4, <1>5, <1>6, <1>7, <1>8, <1>9, StepKinds
  DEF LargeSteps, LargeStep, vars, largeVars

\* Every step leaves a block with one owner.
LEMMA OwnersStep == ZoneInv /\ [Next]_vars => OwnersOK'
<1> SUFFICES ASSUME ZoneInv, [Next]_vars PROVE OwnersOK'
  OBVIOUS
<1> USE LargeAssumption DEF ZoneInv, TypeOK, OwnersOK, Owns, Freeing, listVars, memVars,
            argVars, stillVars, Goto, At
<1>1. CASE UNCHANGED vars
  BY <1>1 DEF vars, largeVars, callVars
<1>2. ASSUME NEW t \in Threads, ArenaSteps(t) \/ QuerySteps(t) \/ Forks(t) PROVE OwnersOK'
  <2>1. PICK l : pc' = [pc EXCEPT ![t] = l] /\ l \notin LargeLabel
    BY <1>2, ZoneSteps
  <2>2. pc[t] \notin LargeLabel /\ UNCHANGED <<linked, mapped, live, ptr, la, got>>
    BY <1>2, ZoneSteps
  <2> QED  BY <2>1, <2>2 DEF LargeLabel
<1>3. ASSUME NEW t \in Threads, \E s \in Sizes : Malloc(t, s) PROVE OwnersOK'
  BY <1>3 DEF Malloc, Enter
<1>4. ASSUME NEW t \in Threads, \E b \in Bases : Free(t, b) PROVE OwnersOK'
  BY <1>4 DEF Free, Enter, ListOK
<1>5. ASSUME NEW t \in Threads,
             \E b \in Bases : \/ UsableSize(t, b) \/ ClaimedAddress(t, b)
                             \/ \E s \in NewSizes : Realloc(t, b, s)
      PROVE  OwnersOK'
  BY <1>5 DEF UsableSize, ClaimedAddress, Realloc, Enter
<1>6. ASSUME NEW t \in Threads, LargeLock(t) PROVE OwnersOK'
  BY <1>6 DEF LargeLock, Lock
<1>7. ASSUME NEW t \in Threads, Map(t) PROVE OwnersOK'
  BY <1>7 DEF Map, ListOK
<1>8. ASSUME NEW t \in Threads, MapFails(t) PROVE OwnersOK'
  BY <1>8 DEF MapFails, Return
<1>9. ASSUME NEW t \in Threads, Link(t) PROVE OwnersOK'
  BY <1>9 DEF Link
<1>10. ASSUME NEW t \in Threads, Add(t) PROVE OwnersOK'
  <2>1. got[t] \in linked /\ UNCHANGED <<linked, mapped>>
    BY <1>10 DEF Add
  <2>2. CASE op[t] = "malloc"
    <3>1. /\ pc' = [pc EXCEPT ![t] = "idle"] /\ got' = [got EXCEPT ![t] = NULL]
          /\ ptr' = [ptr EXCEPT ![t] = NULL] /\ la' = [la EXCEPT ![t] = NULL]
          /\ live' = live \cup {got[t]}
      BY <1>10, <2>2 DEF Add, Return
    <3>2. \A u \in Threads, b \in Bases : Owns(u, b)' => u # t /\ Owns(u, b)
      BY <3>1
    <3>3. \A u \in Threads : Owns(u, got[t]) => u = t
      BY <2>1
    <3> QED  BY <2>1, <3>1, <3>2, <3>3
  <2>3. CASE op[t] = "realloc"
    BY <1>10, <2>1, <2>3 DEF Add
  <2> QED  BY <1>10, <2>2, <2>3 DEF Add
<1>11. ASSUME NEW t \in Threads, Unlink(t) PROVE OwnersOK'
  BY <1>11 DEF Unlink, UnlinkTo
<1>12. ASSUME NEW t \in Threads, Sub(t) PROVE OwnersOK'
  BY <1>12 DEF Sub
<1>13. ASSUME NEW t \in Threads, Unmap(t) PROVE OwnersOK'
  BY <1>13 DEF Unmap, GiveBack, Return
<1>14. ASSUME NEW t \in Threads, WalkOn(t) PROVE OwnersOK'
  BY <1>14 DEF WalkOn
<1>15. ASSUME NEW t \in Threads, NotFound(t) PROVE OwnersOK'
  BY <1>15 DEF NotFound, Return
<1>16. ASSUME NEW t \in Threads, Found(t) PROVE OwnersOK'
  BY <1>16 DEF Found
<1>17. ASSUME NEW t \in Threads, Answer(t) PROVE OwnersOK'
  BY <1>17 DEF Answer, Return
<1>18. ASSUME NEW t \in Threads, Resize(t) PROVE OwnersOK'
  BY <1>18 DEF Resize, Return
<1>19. ASSUME NEW t \in Threads, Grow(t) PROVE OwnersOK'
  BY <1>19 DEF Grow
<1>20. ASSUME NEW t \in Threads, GrowSlab(t) PROVE OwnersOK'
  BY <1>20 DEF GrowSlab, Return
<1>21. ASSUME NEW t \in Threads, FreeOld(t) PROVE OwnersOK'
  BY <1>21 DEF FreeOld, ListOK, CallsOK
<1> QED
  BY <1>1, <1>2, <1>3, <1>4, <1>5, <1>6, <1>7, <1>8, <1>9, <1>10, <1>11, <1>12, <1>13,
     <1>14, <1>15, <1>16, <1>17, <1>18, <1>19, <1>20, <1>21, StepKinds, ZenonT(30)
  DEF Calls, LargeCall, LargeSteps, LargeStep

\* Every step leaves a call with the block of its argument.
LEMMA CallsStep == ZoneInv /\ [Next]_vars => CallsOK'
<1> SUFFICES ASSUME ZoneInv, [Next]_vars PROVE CallsOK'
  OBVIOUS
<1> USE LargeAssumption DEF ZoneInv, TypeOK, CallsOK, Freeing, listVars, memVars,
            argVars, stillVars, Goto, At
<1>1. CASE UNCHANGED vars
  BY <1>1 DEF vars, largeVars, callVars
<1>2. ASSUME NEW t \in Threads, ArenaSteps(t) \/ QuerySteps(t) \/ Forks(t) PROVE CallsOK'
  <2>1. PICK l : pc' = [pc EXCEPT ![t] = l] /\ l \notin LargeLabel
    BY <1>2, ZoneSteps
  <2>2. /\ pc[t] \notin LargeLabel
        /\ UNCHANGED <<linked, live, op, ptr, la>> /\ alive' \subseteq alive
    BY <1>2, ZoneSteps
  <2> QED  BY <2>1, <2>2 DEF LargeLabel
<1>3. ASSUME NEW t \in Threads, \E s \in Sizes : Malloc(t, s) PROVE CallsOK'
  BY <1>3 DEF Malloc, Enter
<1>4. ASSUME NEW t \in Threads, \E b \in Bases : Free(t, b) PROVE CallsOK'
  BY <1>4 DEF Free, Enter, Busy
<1>5. ASSUME NEW t \in Threads,
             \E b \in Bases : \/ UsableSize(t, b) \/ ClaimedAddress(t, b)
                             \/ \E s \in NewSizes : Realloc(t, b, s)
      PROVE  CallsOK'
  BY <1>5 DEF UsableSize, ClaimedAddress, Realloc, Enter, Busy
<1>6. ASSUME NEW t \in Threads, LargeLock(t) PROVE CallsOK'
  BY <1>6 DEF LargeLock, Lock, ListOK
<1>7. ASSUME NEW t \in Threads, Map(t) PROVE CallsOK'
  BY <1>7 DEF Map
<1>8. ASSUME NEW t \in Threads, MapFails(t) PROVE CallsOK'
  BY <1>8 DEF MapFails, Return
<1>9. ASSUME NEW t \in Threads, Link(t) PROVE CallsOK'
  BY <1>9 DEF Link
<1>10. ASSUME NEW t \in Threads, Add(t) PROVE CallsOK'
  BY <1>10 DEF Add, Return
<1>11. ASSUME NEW t \in Threads, Unlink(t) PROVE CallsOK'
  BY <1>11 DEF Unlink, UnlinkTo, OwnersOK, LocksOK
<1>12. ASSUME NEW t \in Threads, Sub(t) PROVE CallsOK'
  BY <1>12 DEF Sub
<1>13. ASSUME NEW t \in Threads, Unmap(t) PROVE CallsOK'
  BY <1>13 DEF Unmap, GiveBack, Return
<1>14. ASSUME NEW t \in Threads, WalkOn(t) PROVE CallsOK'
  BY <1>14 DEF WalkOn, ListOK
<1>15. ASSUME NEW t \in Threads, NotFound(t) PROVE CallsOK'
  BY <1>15 DEF NotFound, Return
<1>16. ASSUME NEW t \in Threads, Found(t) PROVE CallsOK'
  BY <1>16 DEF Found
<1>17. ASSUME NEW t \in Threads, Answer(t) PROVE CallsOK'
  BY <1>17 DEF Answer, Return
<1>18. ASSUME NEW t \in Threads, Resize(t) PROVE CallsOK'
  BY <1>18 DEF Resize, Return
<1>19. ASSUME NEW t \in Threads, Grow(t) PROVE CallsOK'
  BY <1>19 DEF Grow
<1>20. ASSUME NEW t \in Threads, GrowSlab(t) PROVE CallsOK'
  BY <1>20 DEF GrowSlab, Return
<1>21. ASSUME NEW t \in Threads, FreeOld(t) PROVE CallsOK'
  BY <1>21 DEF FreeOld
<1> QED
  BY <1>1, <1>2, <1>3, <1>4, <1>5, <1>6, <1>7, <1>8, <1>9, <1>10, <1>11, <1>12, <1>13,
     <1>14, <1>15, <1>16, <1>17, <1>18, <1>19, <1>20, <1>21, StepKinds, ZenonT(30)
  DEF Calls, LargeCall, LargeSteps, LargeStep

-----------------------------------------------------------------------------
(* The walks of large_free and large_find.                                 *)

\* A numbering of the headers that falls along the list: the head has the highest
\* number, and next[b] the highest below that of b.
Ranks(f) ==
    /\ \A b \in linked : largeList # NULL /\ f[b] <= f[largeList]
    /\ \A b \in linked : next[b] # NULL => f[next[b]] < f[b]
    /\ \A b, c \in linked : f[b] < f[c] => next[c] # NULL /\ f[b] <= f[next[c]]
    /\ \A b, c \in linked : f[b] = f[c] => b = c

\* A walk has not yet passed the block it looks for.
Walks(f) ==
    \A t \in Threads : pc[t] \in {"freewalk", "findwalk"} /\ ptr[t] \in linked =>
        la[t] # NULL /\ f[ptr[t]] <= f[la[t]]

Ranked == \E f \in [Bases -> Nat] : Ranks(f) /\ Walks(f)

\* The steps that leave the list alone and move no cursor.
LEMMA RankedQuiet ==
    ASSUME ZoneInv, Ranked, NEW t \in Threads, UNCHANGED listVars,
           \A u \in Threads \ {t} : pc'[u] = pc[u] /\ ptr'[u] = ptr[u] /\ la'[u] = la[u],
           pc'[t] \notin {"freewalk", "findwalk"}
    PROVE  Ranked'
<1>1. PICK f \in [Bases -> Nat] : Ranks(f) /\ Walks(f)
  BY DEF Ranked
<1>2. Ranks(f)'
  BY <1>1 DEF Ranks, listVars
<1>3. Walks(f)'
  BY <1>1 DEF Walks, listVars
<1> QED BY <1>2, <1>3 DEF Ranked

\* A lock that is taken for a walk puts the cursor at the head.
LEMMA RankedLock ==
    ASSUME ZoneInv, Ranked, NEW t \in Threads, LargeLock(t)
    PROVE  Ranked'
<1>1. PICK f \in [Bases -> Nat] : Ranks(f) /\ Walks(f)
  BY DEF Ranked
<1>2. /\ UNCHANGED <<listVars, ptr>> /\ la' = [la EXCEPT ![t] = largeList]
      /\ \A u \in Threads \ {t} : pc'[u] = pc[u]
  BY DEF LargeLock, Lock, Goto, At, argVars, listVars, ZoneInv, TypeOK
<1>3. Ranks(f)'
  BY <1>1, <1>2 DEF Ranks, listVars
<1>4. Walks(f)'
  BY <1>1, <1>2 DEF Walks, Ranks, listVars, ZoneInv, TypeOK
<1> QED BY <1>3, <1>4 DEF Ranked

\* A cursor that has not met the block stays in front of it.
LEMMA RankedWalkOn ==
    ASSUME ZoneInv, Ranked, NEW t \in Threads, WalkOn(t)
    PROVE  Ranked'
<1>1. PICK f \in [Bases -> Nat] : Ranks(f) /\ Walks(f)
  BY DEF Ranked
<1>2. /\ UNCHANGED <<listVars, ptr, pc>> /\ la' = [la EXCEPT ![t] = next[la[t]]]
      /\ la[t] \in linked /\ la[t] # ptr[t] /\ pc[t] \in {"freewalk", "findwalk"}
  BY DEF WalkOn, At, argVars, listVars, ZoneInv, TypeOK, CallsOK
<1>3. Ranks(f)'
  BY <1>1, <1>2 DEF Ranks, listVars
<1>4. ptr[t] \in linked => next[la[t]] # NULL /\ f[ptr[t]] <= f[next[la[t]]]
  <2>1. ptr[t] \in linked => f[ptr[t]] <= f[la[t]] /\ f[ptr[t]] # f[la[t]]
    BY <1>1, <1>2 DEF Walks, Ranks
  <2>2. ptr[t] \in linked => f[ptr[t]] \in Nat /\ f[la[t]] \in Nat
    BY <1>2 DEF ZoneInv, TypeOK
  <2>3. ptr[t] \in linked => f[ptr[t]] < f[la[t]]
    BY <2>1, <2>2
  <2> QED BY <1>1, <1>2, <2>3 DEF Ranks
<1>5. Walks(f)'
  BY <1>1, <1>2, <1>4 DEF Walks, listVars, ZoneInv, TypeOK
<1> QED BY <1>3, <1>5 DEF Ranked

\* A block that is linked is numbered above the others.
LEMMA RankedLink ==
    ASSUME ZoneInv, Ranked, NEW t \in Threads, Link(t)
    PROVE  Ranked'
<1>1. PICK f \in [Bases -> Nat] : Ranks(f) /\ Walks(f)
  BY DEF Ranked
<1>2. PICK h : h = got[t]
  OBVIOUS
<1>3. PICK k \in Nat : k = IF largeList = NULL THEN 0 ELSE f[largeList] + 1
  BY DEF ZoneInv, TypeOK
<1>4. h \in Bases /\ h \notin linked /\ largeLock = t /\ pc[t] = "link"
  BY <1>2 DEF Link, At, ZoneInv, OwnersOK, LocksOK
<1>5. /\ next' = [next EXCEPT ![h] = largeList] /\ largeList' = h /\ linked' = linked \cup {h}
      /\ pc' = [pc EXCEPT ![t] = "add"] /\ ptr' = ptr
      /\ \A u \in Threads : pc[u] \notin {"freewalk", "findwalk"}
  BY <1>2, <1>4 DEF Link, Goto, argVars, ZoneInv, LocksOK
<1>6. /\ next \in [Bases -> Bases \cup {NULL}] /\ linked \subseteq Bases
      /\ largeList \in linked \cup {NULL} /\ NULL \notin Bases /\ pc \in [Threads -> Label]
      /\ \A b \in linked : next[b] \in linked \cup {NULL}
  BY LargeAssumption DEF ZoneInv, TypeOK, ListOK
<1> DEFINE g == [f EXCEPT ![h] = k]
<1>7. g \in [Bases -> Nat] /\ g[h] = k /\ \A b \in linked : g[b] = f[b]
  BY <1>4, <1>6
<1>8. \A b \in linked : f[b] < k /\ f[b] \in Nat
  <2> TAKE b \in linked
  <2>1. largeList # NULL /\ f[b] <= f[largeList] /\ f[b] \in Nat /\ f[largeList] \in Nat
    BY <1>1, <1>6 DEF Ranks
  <2> QED BY <2>1, <1>3
<1> HIDE DEF g
<1>9. Ranks(g)'
  <2>0. next'[h] = largeList /\ \A b \in linked : next'[b] = next[b]
    BY <1>4, <1>5, <1>6
  <2>1. \A b \in linked' : largeList' # NULL /\ g[b] <= g[largeList']
    BY <1>4, <1>5, <1>6, <1>7, <1>8
  <2>2. \A b \in linked' : next'[b] # NULL => g[next'[b]] < g[b]
    BY <1>1, <1>5, <1>6, <1>7, <1>8, <2>0 DEF Ranks
  <2>3. \A b, c \in linked' : g[b] < g[c] => next'[c] # NULL /\ g[b] <= g[next'[c]]
    <3>1. ASSUME NEW b \in linked', g[b] < g[h] PROVE largeList # NULL /\ g[b] <= g[largeList]
      BY <3>1, <1>1, <1>3, <1>5, <1>6, <1>7 DEF Ranks
    <3>2. ASSUME NEW b \in linked', NEW c \in linked, g[b] < g[c]
          PROVE  next[c] # NULL /\ g[b] <= g[next[c]]
      <4>1. b \in linked
        BY <3>2, <1>5, <1>7, <1>8
      <4> QED BY <3>2, <4>1, <1>1, <1>6, <1>7 DEF Ranks
    <3> QED BY <3>1, <3>2, <2>0, <1>5
  <2>4. \A b, c \in linked' : g[b] = g[c] => b = c
    BY <1>1, <1>5, <1>7, <1>8 DEF Ranks
  <2> QED BY <2>1, <2>2, <2>3, <2>4 DEF Ranks
<1>10. Walks(g)'
  BY <1>5, <1>6 DEF Walks
<1> QED BY <1>7, <1>9, <1>10 DEF Ranked

\* The numbers stay right for the blocks around one that is unlinked.
LEMMA RankedUnlink ==
    ASSUME ZoneInv, Ranked, NEW t \in Threads, Unlink(t)
    PROVE  Ranked'
<1>1. PICK f \in [Bases -> Nat] : Ranks(f) /\ Walks(f)
  BY DEF Ranked
<1>2. PICK h : h = la[t]
  OBVIOUS
<1>3. h \in linked /\ largeLock = t /\ pc[t] = "freewalk"
  BY <1>2 DEF Unlink, UnlinkTo, At, ZoneInv, OwnersOK, LocksOK
<1>4. /\ next' = [b \in Bases |-> IF b = prev[h] THEN next[h] ELSE next[b]]
      /\ largeList' = (IF largeList = h THEN next[h] ELSE largeList)
      /\ linked' = linked \ {h}
      /\ pc' = [pc EXCEPT ![t] = "sub"]
      /\ \A u \in Threads \ {t} : pc[u] \notin {"freewalk", "findwalk"}
  BY <1>2, <1>3 DEF Unlink, UnlinkTo, HeadWithout, Goto, ZoneInv, LocksOK
<1>5. /\ linked \subseteq Bases /\ NULL \notin Bases
      /\ largeList \in linked \cup {NULL} /\ pc \in [Threads -> Label]
      /\ \A b \in linked : /\ next[b] \in linked \cup {NULL} /\ prev[b] \in linked \cup {NULL}
                           /\ next[b] # NULL => prev[next[b]] = b
                           /\ prev[b] # NULL => next[prev[b]] = b
  BY LargeAssumption DEF ZoneInv, TypeOK, ListOK
<1>6. \A b \in linked : f[b] \in Nat
  BY <1>5
<1>7. \A b \in linked \ {h} : next'[b] = IF next[b] = h THEN next[h] ELSE next[b]
  BY <1>3, <1>4, <1>5
<1>8. Ranks(f)'
  <2>0. \A b \in linked \ {h} : f[b] # f[h]
    BY <1>1, <1>3 DEF Ranks
  <2>1. \A b \in linked' : largeList' # NULL /\ f[b] <= f[largeList']
    <3> SUFFICES ASSUME NEW b \in linked \ {h} PROVE largeList' # NULL /\ f[b] <= f[largeList']
      BY <1>4
    <3>1. f[b] <= f[largeList] /\ largeList # NULL
      BY <1>1 DEF Ranks
    <3>2. CASE largeList = h
      <4>1. f[b] < f[h]
        BY <3>1, <3>2, <2>0, <1>3, <1>6
      <4> QED BY <4>1, <3>2, <1>1, <1>3, <1>4 DEF Ranks
    <3> QED BY <3>1, <3>2, <1>4
  <2>2. \A b \in linked' : next'[b] # NULL => f[next'[b]] < f[b]
    <3> SUFFICES ASSUME NEW b \in linked \ {h}, next'[b] # NULL PROVE f[next'[b]] < f[b]
      BY <1>4
    <3>1. CASE next[b] = h
      <4>1. next'[b] = next[h] /\ f[h] < f[b] /\ f[next[h]] < f[h] /\ next[h] \in linked
        BY <3>1, <1>1, <1>3, <1>5, <1>7 DEF Ranks
      <4> QED BY <4>1, <1>3, <1>6
    <3>2. CASE next[b] # h
      BY <3>2, <1>1, <1>7 DEF Ranks
    <3> QED BY <3>1, <3>2
  <2>3. \A b, c \in linked' : f[b] < f[c] => next'[c] # NULL /\ f[b] <= f[next'[c]]
    <3> SUFFICES ASSUME NEW b \in linked \ {h}, NEW c \in linked \ {h}, f[b] < f[c]
                 PROVE  next'[c] # NULL /\ f[b] <= f[next'[c]]
      BY <1>4
    <3>1. next[c] # NULL /\ f[b] <= f[next[c]]
      BY <1>1 DEF Ranks
    <3>2. CASE next[c] = h
      <4>1. f[b] < f[h]
        BY <3>1, <3>2, <2>0, <1>3, <1>6
      <4> QED BY <4>1, <3>2, <1>1, <1>3, <1>7 DEF Ranks
    <3> QED BY <3>1, <3>2, <1>7
  <2>4. \A b, c \in linked' : f[b] = f[c] => b = c
    BY <1>1, <1>4 DEF Ranks
  <2> QED BY <2>1, <2>2, <2>3, <2>4 DEF Ranks
<1>9. Walks(f)'
  BY <1>4, <1>5 DEF Walks
<1> QED BY <1>8, <1>9 DEF Ranked

\* The header of an unmapped block is on no list.
LEMMA RankedUnmap ==
    ASSUME ZoneInv, Ranked, NEW t \in Threads, Unmap(t)
    PROVE  Ranked'
<1>1. PICK f \in [Bases -> Nat] : Ranks(f) /\ Walks(f)
  BY DEF Ranked
<1>2. /\ next' = [next EXCEPT ![la[t]] = NULL] /\ UNCHANGED <<largeList, linked>>
      /\ la[t] \notin linked
      /\ \A u \in Threads \ {t} : pc'[u] = pc[u] /\ ptr'[u] = ptr[u] /\ la'[u] = la[u]
      /\ pc'[t] = "idle"
  BY DEF Unmap, GiveBack, Return, Goto, At, ZoneInv, TypeOK, OwnersOK
<1>3. \A b \in linked : next'[b] = next[b]
  BY <1>2 DEF ZoneInv, TypeOK
<1>4. Ranks(f)'
  BY <1>1, <1>2, <1>3 DEF Ranks
<1>5. Walks(f)'
  BY <1>1, <1>2 DEF Walks
<1> QED BY <1>4, <1>5 DEF Ranked

\* Every step leaves the list in order, and the walks in front of their blocks.
LEMMA RankedStep == ZoneInv /\ Ranked /\ [Next]_vars => Ranked'
<1> SUFFICES ASSUME ZoneInv, Ranked, [Next]_vars PROVE Ranked'
  OBVIOUS
<1>1. CASE UNCHANGED vars
  <2>1. UNCHANGED <<listVars, pc, ptr, la>>
    BY <1>1 DEF vars, largeVars, callVars, argVars
  <2> QED BY <2>1 DEF Ranked, Ranks, Walks, listVars
<1>2. ASSUME NEW t \in Threads, ArenaSteps(t) \/ QuerySteps(t) \/ Forks(t) PROVE Ranked'
  <2>1. PICK l : pc' = [pc EXCEPT ![t] = l] /\ l \notin LargeLabel
    BY <1>2, ZoneSteps DEF ZoneInv
  <2>2. UNCHANGED <<listVars, ptr, la>>
    BY <1>2, ZoneSteps DEF ZoneInv, stillVars, argVars
  <2>3. /\ pc'[t] \notin {"freewalk", "findwalk"}
        /\ \A u \in Threads \ {t} : pc'[u] = pc[u] /\ ptr'[u] = ptr[u] /\ la'[u] = la[u]
    BY <2>1, <2>2 DEF LargeLabel, Freeing, ZoneInv, TypeOK
  <2> QED BY <2>2, <2>3, RankedQuiet
<1>3. ASSUME NEW t \in Threads, Calls(t) PROVE Ranked'
  <2>1. /\ UNCHANGED <<listVars, la>> /\ pc'[t] \notin {"freewalk", "findwalk"}
        /\ \A u \in Threads \ {t} : pc'[u] = pc[u] /\ ptr'[u] = ptr[u]
    BY <1>3 DEF Calls, LargeCall, Malloc, Free, Realloc, UsableSize, ClaimedAddress, Enter,
       Goto, ZoneInv, TypeOK
  <2> QED BY <2>1, RankedQuiet
<1>4. ASSUME NEW t \in Threads,
             \/ Map(t) \/ MapFails(t) \/ Add(t) \/ Sub(t) \/ NotFound(t) \/ Found(t)
             \/ Answer(t) \/ Resize(t) \/ Grow(t) \/ GrowSlab(t) \/ FreeOld(t)
      PROVE  Ranked'
  <2>1. /\ UNCHANGED listVars /\ pc'[t] \notin {"freewalk", "findwalk"}
        /\ \A u \in Threads \ {t} : pc'[u] = pc[u] /\ ptr'[u] = ptr[u] /\ la'[u] = la[u]
    <3> USE DEF Return, Goto, argVars, ZoneInv, TypeOK
    <3>1. CASE Map(t) \/ MapFails(t) \/ Sub(t)
      BY <3>1 DEF Map, MapFails, Sub
    <3>2. CASE Add(t)
      BY <3>2 DEF Add
    <3>3. CASE NotFound(t) \/ Found(t) \/ Answer(t)
      BY <3>3 DEF NotFound, Found, Answer
    <3>4. CASE Resize(t) \/ Grow(t) \/ FreeOld(t)
      BY <3>4 DEF Resize, Grow, FreeOld
    <3>5. CASE GrowSlab(t)
      BY <3>5 DEF GrowSlab
    <3> QED BY <1>4, <3>1, <3>2, <3>3, <3>4, <3>5
  <2> QED BY <2>1, RankedQuiet
<1> QED
  BY <1>1, <1>2, <1>3, <1>4, StepKinds, RankedLock, RankedWalkOn, RankedLink, RankedUnlink,
     RankedUnmap, ZenonT(30) DEF LargeSteps, LargeStep

-----------------------------------------------------------------------------
(* The theorems.                                                           *)

\* large_lock, the arena locks, the list and the ownership of the blocks stay right, for
\* any number of threads, mappings, sizes and arenas, and whenever the process forks.
THEOREM ZoneSafety == Spec => []ZoneInv
<1>1. ZoneInv /\ [Next]_vars => ZoneInv'
  BY TypeStep, LocksStep, ListStep, OwnersStep, CallsStep DEF ZoneInv
<1> QED  BY ZoneInit, <1>1, PTL DEF Spec

\* No call of large_free, large_find, my_realloc or large_usable_size reads or writes a
\* mapping that another call has given back.
THEOREM ZoneMemory == Spec => []NoUseAfterUnmap
<1>1. ASSUME ZoneInv PROVE NoUseAfterUnmap
  <2> USE <1>1 DEF ZoneInv, TypeOK, ListOK, OwnersOK, CallsOK
  <2>1. live \subseteq mapped
    OBVIOUS
  <2>2. ASSUME NEW t \in alive PROVE Touched(t) \subseteq mapped \cup {NULL}
    <3>1. CASE pc[t] = "link"
      BY <3>1, LargeAssumption DEF Touched, Owns
    <3>2. CASE pc[t] = "freewalk"
      BY <3>2 DEF Touched
    <3>3. CASE pc[t] \in {"findwalk", "unmap"}
      BY <3>3, LargeAssumption DEF Touched, Owns, Freeing
    <3>4. CASE pc[t] = "found" /\ op[t] # "claimed"
      BY <3>4, <2>1 DEF Touched, Freeing
    <3>5. CASE pc[t] = "moved"
      BY <3>5, <2>1 DEF Touched, Freeing
    <3> QED  BY <3>1, <3>2, <3>3, <3>4, <3>5 DEF Touched
  <2> QED  BY <2>1, <2>2 DEF NoUseAfterUnmap
<1> QED  BY ZoneSafety, <1>1, PTL

\* However calls of zone_statistics overlap, peak_in_use never goes down.
THEOREM ZonePeak == Spec => PeakNeverFalls
<1>1. ASSUME ZoneInv, [Next]_vars PROVE [peak' >= peak]_vars
  <2> USE DEF ZoneInv, TypeOK
  <2>1. ASSUME NEW t \in Threads, QuerySteps(t) PROVE peak' >= peak
    BY <1>1, <2>1 DEF QuerySteps, QueryBytes, QueryPeak, QueryRaise, QueryEnds
  <2>2. ASSUME NEW t \in Threads, ArenaSteps(t) \/ Forks(t) PROVE peak' = peak
    BY <2>2 DEF ArenaSteps, Forks, EnterArenas, WorkLock, WorkUnlock, ReliefEnds,
       ForceLockArena, ForceLockLarge, ForceUnlock, zoneVars
  <2>3. UNCHANGED zoneVars => peak' >= peak
    BY <1>1 DEF zoneVars
  <2>4. \A t \in Threads : ArenaSteps(t) \/ Forks(t) => peak' >= peak
    BY <1>1, <2>2
  <2> QED  BY <1>1, <2>1, <2>3, <2>4, StepKinds DEF Calls, LargeSteps
<1> QED  BY ZoneSafety, <1>1, PTL DEF PeakNeverFalls, Spec

-----------------------------------------------------------------------------
(* The large allocations implement Heap.                                   *)

\* What a program holds, block by block.
LEMMA HeldIs ==
    \A b : b \in Held <=>
        b \in live \/ (b # NULL /\ \E u \in Threads : Moved(u) /\ got[u] = b)
BY DEF Held

\* A step of the thread t, for the others.
Alone(t) ==
    \A u \in Threads \ {t} : pc'[u] = pc[u] /\ ptr'[u] = ptr[u] /\ got'[u] = got[u]

\* A step of one thread changes what that thread has in hand.
LEMMA HandsStep ==
    ASSUME NEW t \in Threads, Alone(t)
    PROVE  Hands' = [Hands EXCEPT ![t] = Hand(t)']
<1>1. \A u \in Threads \ {t} : Hand(u)' = Hand(u)
  BY DEF Alone, Hand
<1> QED  BY <1>1 DEF Hands

\* A step of one thread changes what the program holds by what that thread changes.
LEMMA HeldStep ==
    ASSUME NEW t \in Threads, Alone(t)
    PROVE  \A b : b \in Held' <=>
               \/ b \in live'
               \/ b # NULL /\ Moved(t)' /\ got'[t] = b
               \/ b # NULL /\ \E u \in Threads \ {t} : Moved(u) /\ got[u] = b
<1>1. \A b : b \in Held' <=>
          b \in live' \/ (b # NULL /\ \E u \in Threads : Moved(u)' /\ got'[u] = b)
  BY DEF Held
<1>2. \A u \in Threads \ {t} : Moved(u)' = Moved(u) /\ got'[u] = got[u]
  BY DEF Alone, Moved
<1> QED  BY <1>1, <1>2

\* A step of a thread that has the same block in hand afterwards.
LEMMA QuietStep ==
    ASSUME NEW t \in Threads, Alone(t), live' = live, Hand(t)' = Hand(t),
           Moved(t)' <=> Moved(t), Moved(t) => got'[t] = got[t]
    PROVE  UNCHANGED <<Held, Hands>>
<1>1. Hands' = Hands
  BY HandsStep DEF Hands
<1>2. \A b : b \in Held' <=> b \in Held
  BY HeldStep, HeldIs
<1> QED  BY <1>1, <1>2

\* Blocks held or in hand are mapped, and a held block is in no thread's hand.
LEMMA HeldMapped ==
    ASSUME ZoneInv
    PROVE  /\ Held \subseteq mapped
           /\ \A u \in Threads : Hand(u) = NULL \/ Hand(u) \in mapped
<1> USE LargeAssumption DEF ZoneInv, TypeOK, ListOK, OwnersOK, Owns
<1>1. Held \subseteq mapped
  BY HeldIs
<1>2. ASSUME NEW u \in Threads PROVE Hand(u) = NULL \/ Hand(u) \in mapped
  BY DEF Hand
<1> QED  BY <1>1, <1>2

-----------------------------------------------------------------------------
(* Step by step.                                                           *)

\* A mapping is made: the call has chosen its block.
LEMMA MapStep ==
    ASSUME ZoneInv, NEW t \in Threads, Map(t)
    PROVE  \E b \in Bases : heap!Choose(t, b)
<1> USE DEF ZoneInv, TypeOK, Map, Goto, At
<1>1. PICK b \in Bases \ mapped : got' = [got EXCEPT ![t] = b]
  OBVIOUS
<1>2. Alone(t) /\ live' = live /\ got[t] = NULL
  BY <1>1 DEF Alone, argVars, OwnersOK, Freeing
<1>3. Hand(t) = NULL /\ Hand(t)' = b /\ ~Moved(t) /\ ~Moved(t)'
  BY <1>1, <1>2 DEF Hand, Moved, Freeing
<1>4. Hands[t] = NULL /\ Hands' = [Hands EXCEPT ![t] = b]
  BY <1>2, <1>3, HandsStep DEF Hands
<1>5. \A c : c \in Held' <=> c \in Held
  BY <1>2, <1>3, HeldStep, HeldIs
<1>6. b \notin Held /\ \A u \in Threads : Hands[u] # b
  BY <1>1, HeldMapped, LargeAssumption DEF Hands
<1> HIDE DEF ZoneInv, TypeOK, Map, Goto, At
<1>7. heap!Choose(t, b)
  BY <1>4, <1>5, <1>6 DEF heap!Choose
<1> QED  BY <1>1, <1>7

\* The block is linked and counted: my_malloc returns it, or my_realloc has it.
LEMMA AddStep ==
    ASSUME ZoneInv, NEW t \in Threads, Add(t)
    PROVE  heap!Malloc(t)
<1> USE DEF ZoneInv, TypeOK, Add, Goto, At
<1>1. got[t] # NULL /\ Hand(t) = got[t] /\ ~Moved(t)
  BY LargeAssumption DEF OwnersOK, Hand, Moved, Freeing
<1>2. Alone(t)
  BY DEF Alone, Return, argVars
<1>3. Hand(t)' = NULL
  BY DEF Hand, Return, Freeing
<1>4. Hands[t] = got[t] /\ Hands' = [Hands EXCEPT ![t] = NULL]
  BY <1>1, <1>2, <1>3, HandsStep DEF Hands
<1>5. CASE op[t] = "malloc"
  <2>1. live' = live \cup {got[t]} /\ ~Moved(t)'
    BY <1>5 DEF Return, Moved, Freeing
  <2>2. \A c : c \in Held' <=> c \in Held \cup {got[t]}
    BY <1>1, <1>2, <2>1, HeldStep, HeldIs
  <2> QED  BY <1>1, <1>4, <2>2 DEF heap!Malloc
<1>6. CASE op[t] = "realloc"
  <2>1. live' = live /\ Moved(t)' /\ got' = got
    BY <1>6 DEF Moved
  <2>2. \A c : c \in Held' <=> c \in Held \cup {got[t]}
    BY <1>1, <1>2, <2>1, HeldStep, HeldIs
  <2> QED  BY <1>1, <1>4, <2>2 DEF heap!Malloc
<1> QED  BY <1>5, <1>6

\* A block is passed to my_free.
LEMMA FreeStep ==
    ASSUME ZoneInv, NEW t \in Threads, NEW b \in Bases, Free(t, b)
    PROVE  heap!Free(t, b)
<1> USE DEF ZoneInv, TypeOK, Free, Enter, Goto
<1>1. b \in live /\ live' = live \ {b} /\ got[t] = NULL /\ got' = got
  BY DEF OwnersOK, Freeing
<1>2. Alone(t) /\ Hand(t) = NULL /\ Hand(t)' = b /\ ~Moved(t)
  BY <1>1 DEF Alone, Hand, Moved, Freeing
<1>3. Hands[t] = NULL /\ Hands' = [Hands EXCEPT ![t] = b]
  BY <1>2, HandsStep DEF Hands
<1>4. \A u \in Threads : got[u] # b
  BY <1>1 DEF OwnersOK, Owns
<1>5. \A c : c \in Held' <=> c \in Held \ {b}
  BY <1>1, <1>2, <1>4, HeldStep, HeldIs
<1>6. b \in Held
  BY <1>1, HeldIs
<1> QED  BY <1>3, <1>5, <1>6 DEF heap!Free

\* my_realloc has moved the contents, and frees the old block.
LEMMA FreeOldStep ==
    ASSUME ZoneInv, NEW t \in Threads, FreeOld(t)
    PROVE  heap!Free(t, ptr[t])
<1> USE DEF ZoneInv, TypeOK, FreeOld, Goto, At
<1>1. ptr[t] \in live /\ live' = live \ {ptr[t]} /\ got' = got
  BY DEF CallsOK, Freeing
<1>2. Alone(t) /\ Hand(t) = NULL /\ Hand(t)' = ptr[t] /\ Moved(t) /\ Moved(t)'
  BY DEF Alone, Hand, Moved, Freeing
<1>3. Hands[t] = NULL /\ Hands' = [Hands EXCEPT ![t] = ptr[t]]
  BY <1>2, HandsStep DEF Hands
<1>4. \A u \in Threads : got[u] # ptr[t]
  BY <1>1 DEF OwnersOK, Owns
<1>5. \A c : c \in Held' <=> c \in Held \ {ptr[t]}
  BY <1>1, <1>2, <1>4, HeldStep, HeldIs
<1>6. ptr[t] \in Held
  BY <1>1, HeldIs
<1> QED  BY <1>3, <1>5, <1>6 DEF heap!Free

\* The mapping is gone, or the walk has ended without it: the call returns.
LEMMA RecycleStep ==
    ASSUME ZoneInv, NEW t \in Threads, Unmap(t) \/ (NotFound(t) /\ pc[t] = "freewalk")
    PROVE  heap!Recycle(t)
<1> USE DEF ZoneInv, TypeOK, Goto, At
<1>1. pc[t] \in {"unmap", "freewalk"} /\ live' = live \cup ({got[t]} \ {NULL}) /\ Return(t)
  BY DEF Unmap, NotFound
<1>2. Hand(t) = ptr[t] /\ ptr[t] # NULL /\ Moved(t)
  BY <1>1, LargeAssumption DEF Hand, Moved, Freeing, OwnersOK
<1>3. Alone(t) /\ Hand(t)' = NULL /\ ~Moved(t)'
  BY <1>1 DEF Alone, Hand, Moved, Freeing, Return
<1>4. Hands[t] # NULL /\ Hands' = [Hands EXCEPT ![t] = NULL]
  BY <1>2, <1>3, HandsStep DEF Hands
<1>5. \A c : c \in Held' <=> c \in Held
  BY <1>1, <1>2, <1>3, HeldStep, HeldIs
<1> QED  BY <1>4, <1>5 DEF heap!Recycle

\* The steps of the callbacks are none of Heap's, ...
LEMMA CallbackStep ==
    ASSUME ZoneInv, NEW t \in Threads, ArenaSteps(t) \/ QuerySteps(t) \/ Forks(t)
    PROVE  UNCHANGED <<Held, Hands>>
<1> USE DEF ZoneInv
<1>1. PICK l : pc' = [pc EXCEPT ![t] = l] /\ l \notin LargeLabel
  BY ZoneSteps
<1>2. pc[t] \notin LargeLabel /\ UNCHANGED <<live, ptr, got>>
  BY ZoneSteps
<1>3. Alone(t) /\ Hand(t)' = Hand(t) /\ ~Moved(t) /\ ~Moved(t)'
  BY <1>1, <1>2 DEF TypeOK, Alone, Hand, Moved, LargeLabel
<1> QED  BY <1>2, <1>3, QuietStep

\* ... and neither is the start of another call than my_free, ...
LEMMA EnterStep ==
    ASSUME ZoneInv, NEW t \in Threads, NEW f, NEW b, NEW k, live' = live,
           Enter(t, f, b, k, "map") \/ Enter(t, f, b, k, "findlock")
    PROVE  UNCHANGED <<Held, Hands>>
<1> USE DEF ZoneInv, TypeOK, Enter, Goto
<1>1. Alone(t) /\ Hand(t)' = Hand(t) /\ ~Moved(t) /\ ~Moved(t)'
  BY DEF Alone, Hand, Moved, Freeing
<1> QED  BY <1>1, QuietStep

\* ... the work on the list and on the counters, ...
LEMMA ListWorkStep ==
    ASSUME ZoneInv, NEW t \in Threads,
           LargeLock(t) \/ Link(t) \/ Unlink(t) \/ Sub(t) \/ WalkOn(t) \/ Found(t) \/ Grow(t)
    PROVE  UNCHANGED <<Held, Hands>>
<1> USE DEF ZoneInv, TypeOK, Goto, At, Freeing
<1>1. live' = live /\ ptr' = ptr /\ got' = got
  BY DEF LargeLock, Lock, Link, Unlink, UnlinkTo, Sub, WalkOn, Found, Grow, argVars
<1>2. PICK l : /\ pc' = [pc EXCEPT ![t] = l]
               /\ l \in Freeing <=> pc[t] \in Freeing
               /\ l # "moved" /\ pc[t] # "moved"
  <2>1. CASE LargeLock(t)
    BY <2>1 DEF LargeLock, Lock
  <2>2. CASE Link(t) \/ Unlink(t) \/ Sub(t) \/ Found(t) \/ Grow(t)
    BY <2>2 DEF Link, Unlink, UnlinkTo, Sub, Found, Grow
  <2>3. CASE WalkOn(t)
    <3>1. pc' = [pc EXCEPT ![t] = pc[t]]
      BY <2>3 DEF WalkOn
    <3> QED  BY <2>3, <3>1 DEF WalkOn
  <2> QED  BY <2>1, <2>2, <2>3
<1>3. Alone(t) /\ Hand(t)' = Hand(t) /\ (Moved(t)' <=> Moved(t))
  BY <1>1, <1>2 DEF Alone, Hand, Moved
<1> QED  BY <1>1, <1>3, QuietStep

\* ... and the return of a call that has neither a new block nor one to free.
LEMMA ReturnStep ==
    ASSUME ZoneInv, NEW t \in Threads,
           \/ MapFails(t) \/ Answer(t) \/ Resize(t)
           \/ NotFound(t) /\ pc[t] = "findwalk"
    PROVE  UNCHANGED <<Held, Hands>>
<1> USE DEF ZoneInv, TypeOK, Goto, At
<1>1. pc[t] \in {"map", "found", "findwalk"} /\ Return(t)
  BY DEF MapFails, Answer, Resize, NotFound
<1>2. got[t] = NULL
  BY <1>1 DEF OwnersOK, Freeing
<1>3. live' = live
  BY <1>2 DEF MapFails, Answer, Resize, NotFound
<1>4. Alone(t) /\ Hand(t)' = Hand(t) /\ ~Moved(t) /\ ~Moved(t)'
  BY <1>1, <1>2 DEF Alone, Hand, Moved, Freeing, Return
<1> QED  BY <1>3, <1>4, QuietStep

\* A my_realloc that has a slot for its new block has no large one.
LEMMA GrowSlabStep ==
    ASSUME ZoneInv, NEW t \in Threads, GrowSlab(t)
    PROVE  UNCHANGED <<Held, Hands>>
<1> USE DEF ZoneInv, TypeOK, Goto, At
<1>1. pc[t] = "found" /\ got[t] = NULL /\ live' = live
  BY DEF GrowSlab, OwnersOK, Freeing
<1>2. got'[t] = NULL /\ pc'[t] \in {"moved", "idle"} /\ Alone(t)
  BY <1>1 DEF GrowSlab, Return, Alone, argVars
<1>3. Hand(t) = NULL /\ Hand(t)' = NULL /\ ~Moved(t)
  BY <1>1, <1>2 DEF Hand, Moved, Freeing
<1>4. Hands' = Hands
  BY <1>2, <1>3, HandsStep DEF Hands
<1>5. \A b : b \in Held' <=>
          b \in live \/ (b # NULL /\ \E u \in Threads \ {t} : Moved(u) /\ got[u] = b)
  <2> HIDE DEF ZoneInv, TypeOK, Goto, At
  <2> QED BY <1>1, <1>2, HeldStep
<1>6. \A b : b \in Held' <=> b \in Held
  <2> HIDE DEF ZoneInv, TypeOK, Goto, At
  <2> QED BY <1>3, <1>5, HeldIs
<1> QED BY <1>4, <1>6

-----------------------------------------------------------------------------
\* The large allocations keep the promises of malloc and free, for every number of
\* threads, blocks, sizes and arenas, and in the child of a fork too.
THEOREM ZoneImplementsHeap == Spec => HeapSpec
<1>1. Init => heap!Init
  <2> SUFFICES ASSUME Init PROVE heap!Init
    OBVIOUS
  <2>1. \A t \in Threads : Hand(t) = NULL /\ ~Moved(t)
    BY DEF Init, LargeInit, Hand, Moved, Freeing
  <2>2. Hands = [t \in Threads |-> NULL]
    BY <2>1 DEF Hands
  <2>3. Held = {}
    BY <2>1, HeldIs DEF Init, LargeInit
  <2> QED  BY <2>2, <2>3 DEF heap!Init
<1>2. ASSUME ZoneInv, [Next]_vars PROVE [heap!Next]_<<Held, Hands>>
  <2>1. CASE UNCHANGED vars
    BY <2>1 DEF vars, largeVars, callVars, argVars, Held, Hands, Hand, Moved
  <2>2. ASSUME NEW t \in Threads, Calls(t) PROVE heap!Next \/ UNCHANGED <<Held, Hands>>
    <3>1. ASSUME NEW b \in Bases, Free(t, b) PROVE heap!Next
      BY <1>2, <3>1, FreeStep DEF heap!Next
    <3>2. ASSUME NEW b, Malloc(t, b) PROVE UNCHANGED <<Held, Hands>>
      BY <1>2, <3>2, EnterStep DEF Malloc
    <3>3. ASSUME NEW b, NEW k, UsableSize(t, b) \/ ClaimedAddress(t, b) \/ Realloc(t, b, k)
          PROVE  UNCHANGED <<Held, Hands>>
      BY <1>2, <3>3, EnterStep DEF UsableSize, ClaimedAddress, Realloc
    <3> QED  BY <2>2, <3>1, <3>2, <3>3 DEF Calls, LargeCall
  <2>3. ASSUME NEW t \in Threads, LargeSteps(t) PROVE heap!Next \/ UNCHANGED <<Held, Hands>>
    <3>1. CASE Map(t) \/ Add(t) \/ FreeOld(t)
      <4>1. FreeOld(t) => ptr[t] \in Bases
        BY <1>2 DEF ZoneInv, TypeOK, CallsOK, FreeOld, At, Freeing
      <4> QED  BY <1>2, <3>1, <4>1, MapStep, AddStep, FreeOldStep DEF heap!Next
    <3>2. CASE Unmap(t) \/ (NotFound(t) /\ pc[t] = "freewalk")
      BY <1>2, <3>2, RecycleStep DEF heap!Next
    <3>3. NotFound(t) => pc[t] \in {"freewalk", "findwalk"}
      BY DEF NotFound, At
    <3> QED  BY <1>2, <2>3, <3>1, <3>2, <3>3, ListWorkStep, ReturnStep,
                GrowSlabStep
             DEF LargeSteps, LargeStep
  <2> QED  BY <1>2, <2>1, <2>2, <2>3, CallbackStep, StepKinds
<1> QED  BY ZoneSafety, <1>1, <1>2, PTL DEF Spec, HeapSpec, heap!Spec
=============================================================================
