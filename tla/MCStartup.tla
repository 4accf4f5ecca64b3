----------------------------- MODULE MCStartup ------------------------------
(* Startup, with the registry, on a small instance for TLC.                *)
EXTENDS Startup

\* Three bases for two slots; two of them collide, in the last slot.
MCBases == {"p", "q", "r"}
MCHash == [b \in MCBases |-> IF b = "r" THEN 0 ELSE 1]
=============================================================================
