---------------------------- MODULE MCFreeLists -----------------------------
(* FreeLists on a small instance for TLC.                                  *)
EXTENDS FreeLists, TLC
=============================================================================
