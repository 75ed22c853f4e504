--------------------------- MODULE FileOwnership ---------------------------
(***************************************************************************)
(* What the lease layer of pi-chorus promises, with no lease, scope or     *)
(* directory in sight: every path has at most one owner, an agent acquires *)
(* only paths that nobody else owns, and gives up only its own.            *)
(***************************************************************************)
CONSTANTS Agents,   \* agent instances
          Paths,    \* files and directories of the repository
          Nobody    \* owner of a path that no agent may write

VARIABLE owner      \* owner[p]: the agent that may write p

Init == owner = [p \in Paths |-> Nobody]

(* Agent a becomes the owner of every path of S, none of which belongs to
   another agent. *)
Acquire(a, S) ==
    /\ \A p \in S : owner[p] \in {Nobody, a}
    /\ owner' = [p \in Paths |-> IF p \in S THEN a ELSE owner[p]]

(* Agent a gives up the paths of S, all of them its own. *)
Yield(a, S) ==
    /\ \A p \in S : owner[p] = a
    /\ owner' = [p \in Paths |-> IF p \in S THEN Nobody ELSE owner[p]]

Next == \E a \in Agents, S \in SUBSET Paths : Acquire(a, S) \/ Yield(a, S)

Spec == Init /\ [][Next]_owner
=============================================================================
