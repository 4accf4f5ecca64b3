--------------------------- MODULE SegmentRegistry --------------------------
(***************************************************************************)
(* The segment registry of segment.c: an open-addressing hash set that     *)
(* threads fill and search at the same time without a lock.  Slab has it   *)
(* as an atomic set of bounded size.                                       *)
(*                                                                         *)
(* Nothing is ever removed: segment_unregister is only called by           *)
(* segment_destroy, which is not called.                                   *)
(***************************************************************************)
EXTENDS Integers

CONSTANTS
    Threads,
    Bases,          \* addresses at which a segment may be mapped
    Size,           \* SEGMENT_REGISTRY_SIZE
    Hash,           \* seg_hash
    NULL            \* the value 0 of a free slot

ASSUME RegistryAssumption ==
    /\ Size \in Nat \ {0}
    /\ Hash \in [Bases -> 0 .. Size - 1]
    /\ NULL \notin Bases

Slot == 0 .. Size - 1

\* The slot of the i-th probe for base b: (idx + i) & (SEGMENT_REGISTRY_SIZE - 1).
Probe(b, i) == IF Hash[b] + i < Size THEN Hash[b] + i ELSE Hash[b] + i - Size

VARIABLES
    table,          \* g_state.segment_registry
    mapped,         \* the segments created so far
    pc, base, i,    \* thread -> the call it is in, its argument and loop counter
    answer          \* thread -> what its last segment_is_registered returned

callVars == <<pc, base, i>>
vars == <<table, mapped, callVars, answer>>

Init ==
    /\ table = [k \in Slot |-> NULL]
    /\ mapped = {}
    /\ pc = [t \in Threads |-> "idle"]
    /\ base = [t \in Threads |-> NULL]
    /\ i = [t \in Threads |-> 0]
    /\ answer = [t \in Threads |-> FALSE]

Call(t, f, b) ==
    /\ pc[t] = "idle"
    /\ pc' = [pc EXCEPT ![t] = f]
    /\ base' = [base EXCEPT ![t] = b]
    /\ i' = [i EXCEPT ![t] = 0]

Return(t) ==
    /\ pc' = [pc EXCEPT ![t] = "idle"]
    /\ base' = [base EXCEPT ![t] = NULL]
    /\ i' = [i EXCEPT ![t] = 0]

Seen(t) == table[Probe(base[t], i[t])]

\* The slot is taken by another base: the loop goes on, or ends with its last turn.
TryNext(t) ==
    /\ i[t] + 1 < Size
    /\ Seen(t) \notin {NULL, base[t]}
    /\ i' = [i EXCEPT ![t] = i[t] + 1]
    /\ UNCHANGED <<table, mapped, pc, base, answer>>

-----------------------------------------------------------------------------
\* segment_create registers the segment that it has just mapped.
Create(t, b) ==
    /\ b \notin mapped
    /\ mapped' = mapped \cup {b}
    /\ Call(t, "register", b)
    /\ UNCHANGED <<table, answer>>

\* Mutant of RegisterHere: the slot is stored without a compare-and-swap.
RegisterHereBlind(t) ==
    /\ pc[t] = "register"
    /\ table' = [table EXCEPT ![Probe(base[t], i[t])] = base[t]]
    /\ Return(t)
    /\ UNCHANGED <<mapped, answer>>

\* The compare-and-swap fills a free slot, or finds the base.
RegisterHere(t) ==
    /\ pc[t] = "register"
    /\ Seen(t) \in {NULL, base[t]}
    /\ table' = [table EXCEPT ![Probe(base[t], i[t])] = base[t]]
    /\ Return(t)
    /\ UNCHANGED <<mapped, answer>>

RegisterNext(t) == pc[t] = "register" /\ TryNext(t)

\* Mutant of RegisterGivesUp: the last slot is not probed.
RegisterGivesUpEarly(t) ==
    /\ pc[t] = "register"
    /\ i[t] + 1 >= Size - 1
    /\ Seen(t) \notin {NULL, base[t]}
    /\ Return(t)
    /\ UNCHANGED <<table, mapped, answer>>

\* The loop has run out of slots, and the segment stays unregistered.
RegisterGivesUp(t) ==
    /\ pc[t] = "register"
    /\ i[t] + 1 = Size
    /\ Seen(t) \notin {NULL, base[t]}
    /\ Return(t)
    /\ UNCHANGED <<table, mapped, answer>>

\* ptr_to_segment looks up the base of any pointer it is given.
Ask(t, b) ==
    /\ Call(t, "lookup", b)
    /\ UNCHANGED <<table, mapped, answer>>

LookupNext(t) == pc[t] = "lookup" /\ TryNext(t)

\* Mutant of LookupEnds: the last slot is not probed.
LookupEndsEarly(t) ==
    /\ pc[t] = "lookup"
    /\ Seen(t) \in {NULL, base[t]} \/ i[t] + 1 >= Size - 1
    /\ answer' = [answer EXCEPT ![t] = (Seen(t) = base[t])]
    /\ Return(t)
    /\ UNCHANGED <<table, mapped>>

\* The base is found, a free slot ends the probe sequence, or the loop has run out.
LookupEnds(t) ==
    /\ pc[t] = "lookup"
    /\ Seen(t) \in {NULL, base[t]} \/ i[t] + 1 = Size
    /\ answer' = [answer EXCEPT ![t] = (Seen(t) = base[t])]
    /\ Return(t)
    /\ UNCHANGED <<table, mapped>>

Next ==
    \E t \in Threads :
        \/ \E b \in Bases : Create(t, b) \/ Ask(t, b)
        \/ RegisterHere(t) \/ RegisterNext(t) \/ RegisterGivesUp(t)
        \/ LookupNext(t) \/ LookupEnds(t)

Spec == Init /\ [][Next]_vars

-----------------------------------------------------------------------------
(* Properties.                                                             *)

Registered == {b \in Bases : \E k \in Slot : table[k] = b}

\* Every variable keeps its type.
TypeOK ==
    /\ table \in [Slot -> Bases \cup {NULL}]
    /\ mapped \in SUBSET Bases
    /\ pc \in [Threads -> {"idle", "register", "lookup"}]
    /\ base \in [Threads -> Bases \cup {NULL}]
    /\ i \in [Threads -> Slot]
    /\ answer \in [Threads -> BOOLEAN]

\* A base in the table sits where its probe sequence first met a free slot.
TableOK ==
    \A k \in Slot : table[k] # NULL =>
        \E j \in Slot : /\ Probe(table[k], j) = k
                        /\ \A n \in 0 .. j - 1 :
                             table[Probe(table[k], n)] \notin {NULL, table[k]}

\* What a call has probed is taken by other bases, and stays so.
ProbesOK ==
    \A t \in Threads : pc[t] # "idle" =>
        /\ base[t] \in Bases
        /\ \A n \in 0 .. i[t] - 1 : table[Probe(base[t], n)] \notin {NULL, base[t]}

RegistryInv == TypeOK /\ TableOK /\ ProbesOK

\* A lookup is atomic: the answer that segment_is_registered gives is right at the
\* moment of its last probe, whatever other threads have stored in the slots it has
\* passed.  So a base whose registration had returned before the call is found.
LookupRight ==
    [][\A t \in Threads : pc[t] = "lookup" /\ pc'[t] = "idle" =>
         answer'[t] = (base[t] \in Registered)]_vars

\* A segment stays unregistered only if the registry is full of other bases, although
\* the slots are probed at different times.
DropsOnlyWhenFull ==
    [][\A t \in Threads : pc[t] = "register" /\ pc'[t] = "idle" =>
         base[t] \in Registered' \/ NULL \notin {table[k] : k \in Slot}]_vars
=============================================================================
