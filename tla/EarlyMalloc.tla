----------------------------- MODULE EarlyMalloc ----------------------------
(***************************************************************************)
(* Startup, where pthread_key_create, which malloc_init calls from         *)
(* tld_init, may call malloc itself.  That call is a second activation of  *)
(* my_malloc in the thread that initializes; malloc_init goes on when it   *)
(* has returned.                                                           *)
(***************************************************************************)
EXTENDS Startup

VARIABLE inner      \* thread -> whether it is in a malloc called from malloc_init

EarlyInit == StartInit /\ inner = [t \in Threads |-> FALSE]

\* size_class_init, and tld_init, in which pthread_key_create allocates.
InnerMalloc(t) ==
    /\ Move(t, "sizes", "ensure")
    /\ sizes' = TRUE
    /\ inner' = [inner EXCEPT ![t] = TRUE]
    /\ UNCHANGED <<vars, initialized, bootstrapUsed, arenaVars, tldVars, step, arena>>

\* The inner call has returned, and then tld_init.
InnerReturns(t) ==
    /\ inner[t]
    /\ Move(t, "out", "arenas")
    /\ inner' = [inner EXCEPT ![t] = FALSE]
    /\ UNCHANGED <<vars, bootVars, arenaVars, tldVars, step, arena>>

EarlyCall(t) == ~inner[t] /\ StartCall(t) /\ UNCHANGED inner

EarlyStep(t) ==
    \/ StartStep(t) /\ UNCHANGED inner
    \/ InnerMalloc(t) \/ InnerReturns(t)

EarlyNext == \E t \in Threads : EarlyCall(t) \/ EarlyStep(t)

earlyVars == <<vars, startVars, inner>>

\* A thread in a call keeps running.
EarlySpec ==
    /\ EarlyInit /\ [][EarlyNext]_earlyVars
    /\ \A t \in Threads : WF_earlyVars(EarlyStep(t))

-----------------------------------------------------------------------------
(* Properties.                                                             *)

\* A call of malloc from a function that malloc_init calls is served, from the bootstrap
\* buffer or otherwise, and returns to it.
EarlyMallocReturns == \A t \in Threads : inner[t] ~> ~inner[t]
=============================================================================
