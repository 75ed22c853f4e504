---------------------------- MODULE LeaseManager ----------------------------
(***************************************************************************)
(* The lease manager of packages/coordination together with its callers:   *)
(* the claim and release tools of packages/orchestrator/agent-runner.ts    *)
(* and the orchestrator.  One LeaseManager is shared by all the agents of  *)
(* a mission; each of its methods is synchronous, so it is one step, and   *)
(* the calls of the agents interleave freely.                              *)
(*                                                                         *)
(* A path is an element of Paths and Below is the relation that            *)
(* path.startsWith(claimed + "/") decides.  A lease is the set of the      *)
(* paths claimed: the code keeps an array that may hold a path twice, and  *)
(* every reader of it asks "some" and every removal removes all copies.    *)
(***************************************************************************)
EXTENDS FiniteSets

CONSTANTS
    Agents,     \* agent instances, e.g. "backend#1"
    Roles,      \* roles of the catalog
    RoleOf,     \* RoleOf[a]: the role agent a was spawned from
    Scopes,     \* roleScopes: for each registered role, the paths its
                \* pathScope patterns match
    Paths,      \* files and directories of the repository
    Below,      \* <<p, c>> : p lies strictly below directory c
    Nobody      \* no holder (null)

ConstantsAssumption ==
    /\ RoleOf \in [Agents -> Roles]
    /\ DOMAIN Scopes \subseteq Roles
    /\ \A r \in DOMAIN Scopes : Scopes[r] \subseteq Paths
    /\ Nobody \notin Agents

ASSUME LeaseConstants == ConstantsAssumption

(* Below is the strict order of a file tree: the directories above a path
   are nested in one another. *)
TreeAssumption ==
    /\ Below \subseteq Paths \X Paths
    /\ \A p \in Paths : <<p, p>> \notin Below
    /\ \A p, q, r \in Paths :
          <<p, q>> \in Below /\ <<q, r>> \in Below => <<p, r>> \in Below
    /\ \A p, q, r \in Paths :
          <<p, q>> \in Below /\ <<p, r>> \in Below
             => q = r \/ <<q, r>> \in Below \/ <<r, q>> \in Below

ASSUME PathTree == TreeAssumption

VARIABLES
    leases,     \* leases[a]: paths claimed by a; {} when the Map has no entry
    stage       \* stage[a]: "unborn", "running", "ended" or "gone"

leaseVars == <<leases, stage>>

Stages == {"unborn", "running", "ended", "gone"}

Init ==
    /\ leases  = [a \in Agents |-> {}]
    /\ stage   = [a \in Agents |-> "unborn"]

-----------------------------------------------------------------------------
(* The tests the manager makes *)

AtOrBelow(p, c) == p = c \/ <<p, c>> \in Below

(* Mutants of Overlap: one of the two prefix tests forgotten. *)
OverlapFromBelow(p, q) == AtOrBelow(p, q)
OverlapFromAbove(p, q) == AtOrBelow(q, p)

Overlap(p, q) == AtOrBelow(p, q) \/ AtOrBelow(q, p)

(* Mutant of ClaimedByOther: only the very same path counts. *)
ClaimedByOtherExactly(p, a) == \E b \in Agents \ {a} : p \in leases[b]

ClaimedByOther(p, a) ==
    \E b \in Agents \ {a} : \E c \in leases[b] : Overlap(p, c)

(* A role whose scope was never registered is not restricted. *)
InScope(a, p) == RoleOf[a] \in DOMAIN Scopes => p \in Scopes[RoleOf[a]]

Granted(a, request) ==
    {p \in request : InScope(a, p) /\ ~ ClaimedByOther(p, a)}

CanWrite(a, p) == \E c \in leases[a] : AtOrBelow(p, c)

(* getHolder walks the Map in insertion order and returns the first match;
   every agent it could return is in this set. *)
Holders(p) == {a \in Agents : CanWrite(a, p)}

-----------------------------------------------------------------------------
(* Actions *)

(* The orchestrator starts the agent's runner. *)
Start(a) ==
    /\ stage[a] = "unborn"
    /\ stage' = [stage EXCEPT ![a] = "running"]
    /\ UNCHANGED leases

(* The claim tool: what is in scope and overlaps no other agent's claim is
   granted, the rest of the request is denied. *)
Claim(a, request) ==
    /\ stage[a] = "running"
    /\ leases' = [leases EXCEPT ![a] = @ \cup Granted(a, request)]
    /\ UNCHANGED stage

(* The release tool: exact paths only. *)
ReleasePaths(a, request) ==
    /\ stage[a] = "running"
    /\ leases' = [leases EXCEPT ![a] = @ \ request]
    /\ UNCHANGED stage

(* The agent's run resolves, done or failed. *)
End(a) ==
    /\ stage[a] = "running"
    /\ stage' = [stage EXCEPT ![a] = "ended"]
    /\ UNCHANGED leases

(* release(agentId): on failure or in cleanupAgent, once the run is over. *)
Release(a) ==
    /\ stage[a] = "ended"
    /\ leases' = [leases EXCEPT ![a] = {}]
    /\ stage' = [stage EXCEPT ![a] = "gone"]

Next ==
    \E a \in Agents :
        \/ Start(a)
        \/ End(a)
        \/ Release(a)
        \/ \E request \in SUBSET Paths :
              Claim(a, request) \/ ReleasePaths(a, request)

Spec == Init /\ [][Next]_leaseVars

-----------------------------------------------------------------------------
(* Properties *)

(* Types; what is claimed lies in the scope of the claimant's role. *)
TypeOK ==
    /\ leases \in [Agents -> SUBSET Paths]
    /\ stage \in [Agents -> Stages]
    /\ \A a \in Agents : \A p \in leases[a] : InScope(a, p)

(* No path claimed by one agent equals, contains or lies below a path claimed
   by another, however the claims and releases of files and of whole
   directories interleave. *)
LeasesDisjoint ==
    \A a, b \in Agents :
        a # b => \A p \in leases[a], q \in leases[b] : ~ Overlap(p, q)

(* At most one agent passes the write check for a path, so getHolder names the
   only agent that can be meant, in whatever order the Map lists the leases. *)
AtMostOneWriter ==
    \A p \in Paths : \A a, b \in Holders(p) : a = b

(* The right to write a path never goes from one agent to another in one step:
   somebody gave it up first. *)
NoDirectHandOver ==
    [][\A p \in Paths : \A a \in Holders(p), b \in Holders(p)' : a = b]_leaseVars

(* The owner of a path, as FileOwnership sees it. *)
OwnerOf(p) ==
    IF \E a \in Agents : CanWrite(a, p)
    THEN CHOOSE a \in Agents : CanWrite(a, p)
    ELSE Nobody

Ownership ==
    INSTANCE FileOwnership WITH owner <- [p \in Paths |-> OwnerOf(p)]

(* The lease manager implements exclusive ownership of single paths. *)
ImplementsOwnership == Ownership!Spec
=============================================================================
