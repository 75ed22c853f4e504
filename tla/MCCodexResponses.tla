-------------------------- MODULE MCCodexResponses --------------------------
(* Instances of CodexResponses for TLC: the second of three requests may be made
   with another account than the first and the last. *)
EXTENDS CodexResponses

CONSTANTS a, b

MCAccounts == {a, b}
MCAccountsOf == <<{a}, {a, b}, {a}>>
=============================================================================
