--------------------------- MODULE PressureRelief ---------------------------
(***************************************************************************)
(* zone_pressure_relief and the page of FreeLists.  The callback takes the *)
(* lock of the arena, but the owner and the threads that free remotely do  *)
(* not, so only their steps matter here.  It tests page_is_empty and then  *)
(* passes the whole page to madvise(MADV_FREE); from then on the system    *)
(* may replace any part of it by zeros that has not been written since.    *)
(***************************************************************************)
EXTENDS FreeLists

VARIABLES
    zpc,            \* the callback: "idle", or "advise" once it has found the page empty
    lazy            \* the slots whose contents the system may discard

reliefVars == <<zpc, lazy>>

ReliefInit == Init /\ zpc = "idle" /\ lazy = {}

\* page_is_empty, where every slot has been bumped.
PageIsEmpty == used = 0

\* The page, whose state is PAGE_ACTIVE, is found empty.
ReliefTest ==
    /\ zpc = "idle"
    /\ PageIsEmpty
    /\ zpc' = "advise"
    /\ UNCHANGED <<vars, lazy>>

\* os_madvise_free on the page.
ReliefAdvise ==
    /\ zpc = "advise"
    /\ lazy' = Slots
    /\ zpc' = "idle"
    /\ UNCHANGED vars

\* The system takes back memory: the link of the slot reads as NULL.
Reclaim(s) ==
    /\ s \in lazy
    /\ link' = [link EXCEPT ![s] = NULL]
    /\ lazy' = lazy \ {s}
    /\ UNCHANGED <<head, localFree, localCount, remoteCount, used, bitmap, live,
                   ownerVars, remoteVars, zpc>>

\* A step of FreeLists that writes the slots in written.
Writing(written) == lazy' = lazy \ written /\ UNCHANGED zpc

PageStep ==
    \/ Pop /\ Writing({localFree})
    \/ \E s \in Slots : FreeLocal(s) /\ Writing({s})
    \/ Splice /\ Writing({current})
    \/ (CollectLoad \/ CollectCAS \/ CollectFails \/ Walk) /\ Writing({})
    \/ \E r \in Remotes :
          \/ PushLoad(r) /\ Writing({node[r]})
          \/ (PushCAS(r) \/ PushFails(r) \/ PushCounted(r) \/ PushReturns(r))
               /\ Writing({})
          \/ \E s \in Slots : FreeRemote(r, s) /\ Writing({})

ReliefNext == PageStep \/ ReliefTest \/ ReliefAdvise \/ (\E s \in Slots : Reclaim(s))

ReliefSpec == ReliefInit /\ [][ReliefNext]_<<vars, reliefVars>>

-----------------------------------------------------------------------------
(* Properties.                                                             *)

\* zone_pressure_relief is advice about empty pages: what the system may discard is never
\* in a block of the program, be it handed out between the test and the madvise, and a
\* page at rest still passes debug_heap_check.
ReliefHarmless == live \cap lazy = {} /\ QuiescentHeapOK
=============================================================================
