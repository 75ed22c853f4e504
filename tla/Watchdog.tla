------------------------------ MODULE Watchdog ------------------------------
(***************************************************************************)
(* The wait-for graph of packages/orchestrator/src/watchdog.ts and its     *)
(* cycle detection.  The edges are kept in an array; every agent waits for *)
(* at most one other, so from each waiter there is one path to follow.     *)
(* detectDeadlocks walks from every waiter in the order of the array and   *)
(* never enters a node that an earlier walk has visited.                   *)
(*                                                                         *)
(* Left out: how long a wait has lasted (getTimedOutWaits is a filter the  *)
(* orchestrator applies), and agentHealth, which nothing in the            *)
(* orchestrator reads.                                                     *)
(***************************************************************************)
EXTENDS Integers, SequencesExt

CONSTANTS
    Nodes,    \* the ids of agents: whoever may wait or be waited for
    Number    \* Number[a]: the instance number in the id of a, 0 if it has none

ASSUME WatchdogAssumption == Number \in [Nodes -> Nat]

VARIABLE waitEdges   \* <<waiter, waitingFor>>, oldest first

WatchdogInit == waitEdges = << >>

-----------------------------------------------------------------------------
(* Operations *)

(* Mutant of WithoutFirst: an earlier wait is left in place. *)
WithoutNone(waiter) == waitEdges

WithoutFirst(waiter) ==
    LET mine == {k \in DOMAIN waitEdges : waitEdges[k][1] = waiter}
    IN  IF mine = {} THEN waitEdges ELSE RemoveAt(waitEdges, Min(mine))

(* addWait: on a BLOCKED_ON message; replaces the wait of the waiter. *)
AddWait(waiter, waitingFor) ==
    waitEdges' = Append(WithoutFirst(waiter), <<waiter, waitingFor>>)

(* removeWait: the first edge of the waiter. *)
RemoveWait(waiter) == waitEdges' = WithoutFirst(waiter)

(* Mutant of RemoveAgent: the waits for it are left in place. *)
RemoveOwnWait(a) == waitEdges' = WithoutFirst(a)

NotFor(a, edges) ==
    FoldLeft(LAMBDA kept, e : IF e[2] = a THEN kept ELSE Append(kept, e), << >>, edges)

(* removeAgent: its own wait and every wait for it. *)
RemoveAgent(a) == waitEdges' = NotFor(a, WithoutFirst(a))

WatchdogNext ==
    \E a \in Nodes :
        \/ \E b \in Nodes : AddWait(a, b)
        \/ RemoveWait(a)
        \/ RemoveAgent(a)

WatchdogSpec == WatchdogInit /\ [][WatchdogNext]_waitEdges

-----------------------------------------------------------------------------
(* detectDeadlocks *)

Waiters == {waitEdges[k][1] : k \in DOMAIN waitEdges}

(* graph: a later edge of the same waiter would overwrite an earlier one. *)
WaitsFor(a) ==
    waitEdges[Max({k \in DOMAIN waitEdges : waitEdges[k][1] = a})][2]

(* One step further, unless the walk has left the graph, would enter a visited
   node or has returned to itself. *)
Further(path, visited) ==
    LET last == path[Len(path)]
    IN  IF last \in Waiters /\ WaitsFor(last) \notin visited \cup ToSet(path)
        THEN Append(path, WaitsFor(last)) ELSE path

(* The path walked from start; no walk is longer than there are waits. *)
Path(start, visited) ==
    FoldLeft(LAMBDA path, e : Further(path, visited), << start >>, waitEdges)

(* Mutants of CycleOf: the chain that leads into the cycle is taken for a part
   of it; the cycle is not closed. *)
CycleFromStart(path) ==
    LET last == path[Len(path)]
    IN  IF last \in Waiters /\ WaitsFor(last) \in ToSet(path)
        THEN Append(path, WaitsFor(last)) ELSE << >>

CycleLeftOpen(path) ==
    LET last == path[Len(path)]
        back == {k \in DOMAIN path : last \in Waiters /\ path[k] = WaitsFor(last)}
    IN  IF back = {} THEN << >> ELSE SubSeq(path, Min(back), Len(path))

(* The cycle a path ends in, closed by its first node, or << >>. *)
CycleOf(path) ==
    LET last == path[Len(path)]
        back == {k \in DOMAIN path : last \in Waiters /\ path[k] = WaitsFor(last)}
    IN  IF back = {} THEN << >>
        ELSE Append(SubSeq(path, Min(back), Len(path)), WaitsFor(last))

(* Mutant of Younger: the comparison is turned round. *)
Older(y, a) == IF Number[a] < Number[y] THEN a ELSE y
Younger(y, a) == IF Number[a] > Number[y] THEN a ELSE y

(* findYoungest: the first of those with the highest number. *)
FindYoungest(cycle) == FoldLeft(Younger, cycle[1], cycle)

(* From every waiter in the order of the array. *)
Visit(acc, edge) ==
    IF edge[1] \in acc.visited THEN acc
    ELSE LET path  == Path(edge[1], acc.visited)
             cycle == CycleOf(path)
         IN  [visited |-> acc.visited \cup ToSet(path),
              found |-> IF cycle = << >> THEN acc.found
                        ELSE Append(acc.found, [cycle |-> cycle, youngest |-> FindYoungest(cycle)])]

DetectDeadlocks == FoldLeft(Visit, [visited |-> {}, found |-> << >>], waitEdges).found

-----------------------------------------------------------------------------
(* What it should return, by definition: the smallest nonempty sets of agents
   that all wait for one another. *)

Closed(C) == \A k \in DOMAIN waitEdges : waitEdges[k][1] \in C => waitEdges[k][2] \in C

Cycles ==
    {C \in SUBSET Waiters :
        /\ C # {}
        /\ Closed(C)
        /\ \A D \in SUBSET C : D # {} /\ Closed(D) => D = C}

(* Properties *)

(* Every deadlock is reported, once, whatever the order of the edges and the
   chains that lead into it, and nothing else; a report follows the waits from
   agent to agent until it closes and meets nobody twice; and it names for the
   kill an agent of the cycle that nobody in it is younger than, by the numbers
   in the ids of agents of all roles. *)
ReportsExactlyTheCycles ==
    /\ {ToSet(DetectDeadlocks[k].cycle) : k \in DOMAIN DetectDeadlocks} = Cycles
    /\ Len(DetectDeadlocks) = Cardinality(Cycles)
    /\ \A k \in DOMAIN DetectDeadlocks :
        LET c == DetectDeadlocks[k].cycle
            youngest == DetectDeadlocks[k].youngest
        IN  /\ c[1] = c[Len(c)]
            /\ IsInjective(Tail(c))
            /\ \A n \in 1 .. Len(c) - 1 : WaitsFor(c[n]) = c[n + 1]
            /\ youngest \in ToSet(c)
            /\ \A a \in ToSet(c) : Number[a] <= Number[youngest]

(* Removing an agent leaves no wait of it and none for it, so that nobody who
   waited for it can appear in a later report; other waits stay. *)
RemovalIsComplete ==
    [][\A a \in Nodes :
          RemoveAgent(a) =>
              ToSet(waitEdges') = {e \in ToSet(waitEdges) : a \notin {e[1], e[2]}}]_waitEdges
=============================================================================
