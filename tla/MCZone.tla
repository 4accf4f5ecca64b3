------------------------------- MODULE MCZone -------------------------------
(* Zone on a small instance for TLC.                                       *)
EXTENDS Zone, TLC
=============================================================================
