----------------------------- MODULE MCWatchdog -----------------------------
(* An instance of Watchdog for TLC: four agents, two of which have the same
   instance number. *)
EXTENDS Watchdog

CONSTANTS a1, a2, b1, b2

MCNumber == [a \in {a1, a2, b1, b2} |-> IF a \in {a1, b1} THEN 1 ELSE 2]
=============================================================================
