-------------------------------- MODULE Heap --------------------------------
(***************************************************************************)
(* What malloc and free promise a program, whatever the allocator does     *)
(* inside: at any time a block is free, or in one call of malloc or free,  *)
(* or held by the program.                                                 *)
(***************************************************************************)
CONSTANTS
    Threads,
    Block,          \* every block the allocator could ever return
    NULL

VARIABLES
    live,           \* the blocks the program holds
    hand            \* thread -> the block its call is about to return or recycle

Init ==
    /\ live = {}
    /\ hand = [t \in Threads |-> NULL]

\* A call of malloc settles on a block nobody has.
Choose(t, b) ==
    /\ hand[t] = NULL
    /\ b \notin live
    /\ \A u \in Threads : hand[u] # b
    /\ hand' = [hand EXCEPT ![t] = b]
    /\ UNCHANGED live

\* malloc returns it.
Malloc(t) ==
    /\ hand[t] # NULL
    /\ live' = live \cup {hand[t]}
    /\ hand' = [hand EXCEPT ![t] = NULL]

\* The program passes b to free, which recycles it at once or a little later.
Free(t, b) ==
    /\ hand[t] = NULL
    /\ b \in live
    /\ live' = live \ {b}
    /\ hand' \in {hand, [hand EXCEPT ![t] = b]}

Recycle(t) ==
    /\ hand[t] # NULL
    /\ hand' = [hand EXCEPT ![t] = NULL]
    /\ UNCHANGED live

Next == \E t \in Threads :
            \/ Malloc(t)
            \/ Recycle(t)
            \/ \E b \in Block : Choose(t, b) \/ Free(t, b)

Spec == Init /\ [][Next]_<<live, hand>>
=============================================================================
