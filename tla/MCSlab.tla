------------------------------- MODULE MCSlab -------------------------------
(* Slab on small instances for TLC.                                        *)
EXTENDS SlabInv, TLC

\* Bound: no more than two pages are taken, two by one thread or one by each.
TwoPages == Cardinality({p \in Page : pstate[p] # "UNUSED"}) <= 2

Symmetry == Permutations(Threads) \cup Permutations(Segments)
=============================================================================
