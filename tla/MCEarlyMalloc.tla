--------------------------- MODULE MCEarlyMalloc ----------------------------
(* EarlyMalloc, with one segment, on a small instance for TLC.             *)
EXTENDS EarlyMalloc

MCHash == [b \in Bases |-> 0]
=============================================================================
