----------------------------- MODULE PageLists ------------------------------
(***************************************************************************)
(* The free lists of a page whose slots have all been handed out once, as  *)
(* Slab uses them: two sequences and four atomic operations.               *)
(***************************************************************************)
EXTENDS Sequences

CONSTANT Slots

VARIABLES
    localFree,      \* the owner's list, head first
    remoteFree,     \* the list the other threads free onto, head first
    out             \* the slots on neither list

vars == <<localFree, remoteFree, out>>

Init ==
    /\ localFree = <<>>
    /\ remoteFree = <<>>
    /\ out = Slots

Pop ==
    /\ localFree # <<>>
    /\ localFree' = Tail(localFree)
    /\ out' = out \cup {Head(localFree)}
    /\ UNCHANGED remoteFree

FreeLocal(s) ==
    /\ s \in out
    /\ localFree' = <<s>> \o localFree
    /\ out' = out \ {s}
    /\ UNCHANGED remoteFree

Push(s) ==
    /\ s \in out
    /\ remoteFree' = <<s>> \o remoteFree
    /\ out' = out \ {s}
    /\ UNCHANGED localFree

Collect ==
    /\ localFree = <<>>
    /\ remoteFree # <<>>
    /\ localFree' = remoteFree
    /\ remoteFree' = <<>>
    /\ UNCHANGED out

Next == Pop \/ Collect \/ \E s \in Slots : FreeLocal(s) \/ Push(s)

Spec == Init /\ [][Next]_vars
=============================================================================
