---------------------------- MODULE Orchestrator ----------------------------
(***************************************************************************)
(* Orchestrator.run of packages/orchestrator: the mission from the         *)
(* approved plan through dependency waves, respawns, capability requests,  *)
(* merges and cleanup to the verification gate and its repair rounds, with *)
(* the capability registry, the worktree table and the wait-for graph that *)
(* it keeps about its agents.                                              *)
(*                                                                         *)
(* The orchestrator is one JavaScript function: between two awaits nothing *)
(* else runs.  pc is the place it has reached; the agents take their steps *)
(* only while it awaits one of them (pc = "await" or "capAwait").  Agent i *)
(* is the i-th entry of mission.agents, and agents[i] gathers what the     *)
(* registry, the worktree manager and the lease manager hold about it.     *)
(***************************************************************************)
EXTENDS Integers, SequencesExt

CONSTANTS
    Plan,             \* the names of the plan's subtasks, in its order
    DependsOn,        \* DependsOn[t]: the names in t.dependsOn
    RoleOf,           \* RoleOf[t]: the role that spawnAgent settles on for t
    NoRole,           \* no role matches, not even nearly
    Roles,            \* the role catalog
    Provides,         \* Provides[r]: capability tags of role r
    Capabilities,     \* tags an agent may request
    NoSubtask,        \* task of an agent spawned for a capability request
    MaxAgents,        \* caps.maxAgents
    MaxRepairRounds,  \* caps.maxRepairRounds
    MaxRespawns,      \* maxRespawns (2 in the code)
    MaxRequests,      \* bound: capability requests of a mission
    MaxBlocks         \* bound: BLOCKED_ON messages of a mission

Tasks == {Plan[k] : k \in DOMAIN Plan}

MissionConstants ==
    /\ IsInjective(Plan)
    /\ \A t \in Tasks : RoleOf[t] \in Roles \cup {NoRole}
    /\ NoRole \notin Roles
    /\ NoSubtask \notin Tasks
    /\ MaxAgents \in Nat
    /\ MaxRepairRounds \in Nat
    /\ MaxRespawns \in Nat

ASSUME MissionAssumption == MissionConstants

VARIABLES
    pc,           \* where run() is
    status,       \* mission.status
    agents,       \* mission.agents, with what the managers hold about each
    remaining,    \* remainingSubtasks
    completed,    \* completedSubtasks
    queue,        \* the ready subtasks of this wave that are not yet spawned
    wave,         \* keys of wavePromises, in insertion order
    cursor,       \* the key of wavePromises being awaited
    attempts,     \* respawnCounts
    requests,     \* capabilityRequests
    capAgent,     \* the agent handleCapabilityRequests awaits
    waits,        \* wait edges of the watchdog: <<waiter, waitingFor>>
    round,        \* repairRound
    gatePassed,   \* gatePassed
    late,         \* the wall-time budget is used up
    asked,        \* capability requests made so far
    blocked       \* BLOCKED_ON messages sent so far

waveVars == <<remaining, completed, queue, wave, cursor>>
missionVars == <<status, round, gatePassed>>
boundVars == <<asked, blocked>>
vars == <<pc, status, agents, remaining, completed, queue, wave, cursor,
          attempts, requests, capAgent, waits, round, gatePassed, late,
          asked, blocked>>

Init ==
    /\ pc = "approve"
    /\ status = "planning"
    /\ agents = << >>
    /\ remaining = {}
    /\ completed = {}
    /\ queue = {}
    /\ wave = << >>
    /\ cursor = 1
    /\ attempts = [t \in Tasks |-> 0]
    /\ requests = << >>
    /\ capAgent = 0
    /\ waits = {}
    /\ round = 0
    /\ gatePassed = FALSE
    /\ late = FALSE
    /\ asked = 0
    /\ blocked = 0

-----------------------------------------------------------------------------
(* The capability registry *)

Active == {i \in DOMAIN agents : agents[i].active}

(* Mutant of AtCap: off by one. *)
OverCap == Cardinality(Active) > MaxAgents

AtCap == Cardinality(Active) >= MaxAgents

Provider(c) == \E i \in Active : c \in Provides[agents[i].role]

(* Mutant of NumbersOf: numbers of agents that are gone are forgotten. *)
NumbersInUse(r) == {agents[i].num : i \in {j \in Active : agents[j].role = r}}

(* nextInstanceId: one more than the highest number the role ever had;
   entries are deactivated, never deleted. *)
NumbersOf(r) == {agents[i].num : i \in {j \in DOMAIN agents : agents[j].role = r}}

NextInstance(r) == 1 + Max({0} \cup NumbersOf(r))

(* spawnAgentFromRole: register, create the worktree, start the runner. An
   agent is taken to hold leases from its spawn until they are released. *)
NewAgent(r, t) ==
    [role |-> r, num |-> NextInstance(r), task |-> t, round |-> round,
     state |-> "running", active |-> TRUE, tree |-> TRUE, leases |-> TRUE,
     merge |-> "none"]

(* cleanupAgent: worktree, registry entry and leases of the agents in S. *)
CleanedUp(S) ==
    [i \in DOMAIN agents |->
        IF i \in S
        THEN [agents[i] EXCEPT !.active = FALSE, !.tree = FALSE, !.leases = FALSE]
        ELSE agents[i]]

-----------------------------------------------------------------------------
(* The wait-for graph: every waiter has one edge *)

Waiters == {e[1] : e \in waits}

(* Mutant of WithoutAgent: the watchdog is not told that an agent is over. *)
WithAgentStill(i) == waits

WithoutAgent(i) == {e \in waits : e[1] # i /\ e[2] # i}

(* Nobody in C waits for an agent outside C. *)
Closed(C) == \A e \in waits : e[1] \in C => e[2] \in C

(* The cycles detectDeadlocks returns. *)
Cycles ==
    {C \in SUBSET Waiters :
        /\ C # {}
        /\ Closed(C)
        /\ \A D \in SUBSET C : D # {} /\ Closed(D) => D = C}

(* findYoungest: the highest instance number, the first one met on a tie. *)
Youngest(C) == {i \in C : \A j \in C : agents[j].num <= agents[i].num}

-----------------------------------------------------------------------------
(* Plan approval and the repair loop *)

ApprovePlan ==
    /\ pc = "approve"
    /\ status' = "running"
    /\ pc' = "round"
    /\ UNCHANGED <<agents, waveVars, attempts, requests, capAgent, waits,
                   round, gatePassed, late, boundVars>>

RejectPlan ==
    /\ pc = "approve"
    /\ status' = "aborted"
    /\ pc' = "done"
    /\ UNCHANGED <<agents, waveVars, attempts, requests, capAgent, waits,
                   round, gatePassed, late, boundVars>>

(* Mutant of MayRepair: the gate's verdict is not looked at. *)
MayRepairAnyway == round <= MaxRepairRounds /\ ~ late

MayRepair == round <= MaxRepairRounds /\ ~ gatePassed /\ ~ late

(* Mutant of BeginRound: every round has its own respawns. *)
BeginRoundAfresh ==
    /\ pc = "round"
    /\ MayRepair
    /\ remaining' = Tasks
    /\ completed' = {}
    /\ attempts' = [t \in Tasks |-> 0]
    /\ pc' = "wave"
    /\ UNCHANGED <<agents, queue, wave, cursor, requests, capAgent, waits,
                   missionVars, late, boundVars>>

(* A round runs every subtask of the plan again. *)
BeginRound ==
    /\ pc = "round"
    /\ MayRepair
    /\ remaining' = Tasks
    /\ completed' = {}
    /\ pc' = "wave"
    /\ UNCHANGED <<agents, queue, wave, cursor, attempts, requests, capAgent,
                   waits, missionVars, late, boundVars>>

EndMission ==
    /\ pc = "round"
    /\ ~ MayRepair
    /\ status' = IF gatePassed THEN "succeeded" ELSE "failed"
    /\ pc' = "done"
    /\ UNCHANGED <<agents, waveVars, attempts, requests, capAgent, waits,
                   round, gatePassed, late, boundVars>>

-----------------------------------------------------------------------------
(* Waves *)

(* Mutant of Ready: a dependency that has been tried counts as completed. *)
ReadyOnceTried == {t \in remaining : DependsOn[t] \cap remaining = {}}

Ready == {t \in remaining : DependsOn[t] \subseteq completed}

BeginWave ==
    /\ pc = "wave"
    /\ ~ late
    /\ Ready # {}
    /\ remaining' = remaining \ Ready
    /\ queue' = Ready
    /\ wave' = << >>
    /\ cursor' = 1
    /\ pc' = "spawn"
    /\ UNCHANGED <<agents, completed, attempts, requests, capAgent, waits,
                   missionVars, late, boundVars>>

(* Nothing left, dependency_deadlock, or out of time: on to the gate. *)
EndWaves ==
    /\ pc = "wave"
    /\ late \/ Ready = {}
    /\ pc' = "gate"
    /\ UNCHANGED <<agents, waveVars, attempts, requests, capAgent, waits,
                   missionVars, late, boundVars>>

(* The ready subtasks are spawned in the order of the plan. *)
IsNext(t) ==
    /\ t \in queue
    /\ \A k, l \in DOMAIN Plan : Plan[k] = t /\ Plan[l] \in queue => k <= l

(* A subtask that meets the cap, or that no role matches, is passed over. *)
Deny(t) ==
    /\ pc = "spawn"
    /\ IsNext(t)
    /\ AtCap \/ RoleOf[t] = NoRole
    /\ queue' = queue \ {t}
    /\ UNCHANGED <<pc, agents, remaining, completed, wave, cursor, attempts,
                   requests, capAgent, waits, missionVars, late, boundVars>>

Spawn(t) ==
    /\ pc = "spawn"
    /\ IsNext(t)
    /\ ~ AtCap
    /\ RoleOf[t] # NoRole
    /\ agents' = Append(agents, NewAgent(RoleOf[t], t))
    /\ wave' = Append(wave, Len(agents) + 1)
    /\ queue' = queue \ {t}
    /\ UNCHANGED <<pc, remaining, completed, cursor, attempts, requests,
                   capAgent, waits, missionVars, late, boundVars>>

AwaitWave ==
    /\ pc = "spawn"
    /\ queue = {}
    /\ pc' = "await"
    /\ UNCHANGED <<agents, waveVars, attempts, requests, capAgent, waits,
                   missionVars, late, boundVars>>

(* The agent being awaited succeeded. *)
TakeSuccess ==
    /\ pc = "await"
    /\ cursor <= Len(wave)
    /\ agents[wave[cursor]].state = "done"
    /\ completed' = completed \cup {agents[wave[cursor]].task}
    /\ waits' = WithoutAgent(wave[cursor])
    /\ cursor' = cursor + 1
    /\ UNCHANGED <<pc, agents, remaining, queue, wave, attempts, requests,
                   capAgent, missionVars, late, boundVars>>

(* Mutant of Joined: the loop runs over a snapshot of the wave. *)
NotJoined(respawn) == wave

(* The loop over the wave is extended while it runs. *)
Joined(respawn) == IF respawn THEN Append(wave, Len(agents) + 1) ELSE wave

(* The agent being awaited failed: its leases are released and a new agent
   takes over its subtask, appended to the wave, unless the cap is reached
   (the failed agent still counts); after MaxRespawns the subtask is marked
   completed to unblock its dependents. *)
TakeFailure ==
    /\ pc = "await"
    /\ cursor <= Len(wave)
    /\ agents[wave[cursor]].state = "failed"
    /\ LET i        == wave[cursor]
           t        == agents[i].task
           released == [agents EXCEPT ![i].leases = FALSE]
           retry    == attempts[t] < MaxRespawns
           respawn  == retry /\ ~ AtCap
       IN  /\ attempts' = [attempts EXCEPT ![t] = @ + 1]
           /\ completed' = IF retry THEN completed ELSE completed \cup {t}
           /\ agents' = IF respawn
                        THEN Append(released, NewAgent(agents[i].role, t))
                        ELSE released
           /\ wave' = Joined(respawn)
           /\ waits' = WithoutAgent(i)
    /\ cursor' = cursor + 1
    /\ UNCHANGED <<pc, remaining, queue, requests, capAgent, missionVars, late,
                   boundVars>>

(* Mutant of ResolveDeadlocks: it does not wait for the wave to settle. *)
ResolveDeadlocksAtOnce ==
    /\ pc = "await"
    /\ \E killed \in SUBSET UNION Cycles :
          /\ \A C \in Cycles : \E i \in Youngest(C) : killed \cap C = {i}
          /\ agents' = CleanedUp(killed)
    /\ pc' = IF cursor > Len(wave) THEN "capability" ELSE pc
    /\ UNCHANGED <<waveVars, attempts, requests, capAgent, waits, missionVars,
                   late, boundVars>>

(* resolveDeadlocks, once the whole wave has settled: the youngest agent of
   each cycle is cleaned up, edges past the timeout are dropped. *)
ResolveDeadlocks ==
    /\ pc = "await"
    /\ cursor > Len(wave)
    /\ \E killed \in SUBSET UNION Cycles :
          /\ \A C \in Cycles : \E i \in Youngest(C) : killed \cap C = {i}
          /\ agents' = CleanedUp(killed)
    /\ \E timedOut \in SUBSET waits : waits' = waits \ timedOut
    /\ pc' = "capability"
    /\ UNCHANGED <<waveVars, attempts, requests, capAgent, missionVars, late,
                   boundVars>>

-----------------------------------------------------------------------------
(* Capability requests *)

HasRole(c) == \E r \in Roles : c \in Provides[r]

(* Mutant of Refuse: the request stays in the queue. *)
RefuseForNow ==
    /\ pc = "capability"
    /\ requests # << >>
    /\ Provider(Head(requests)) \/ AtCap \/ ~ HasRole(Head(requests))
    /\ UNCHANGED vars

Refuse ==
    /\ pc = "capability"
    /\ requests # << >>
    /\ Provider(Head(requests)) \/ AtCap \/ ~ HasRole(Head(requests))
    /\ requests' = Tail(requests)
    /\ UNCHANGED <<pc, agents, waveVars, attempts, capAgent, waits, missionVars,
                   late, boundVars>>

SpawnProvider ==
    /\ pc = "capability"
    /\ requests # << >>
    /\ ~ Provider(Head(requests))
    /\ ~ AtCap
    /\ \E r \in Roles :
          /\ Head(requests) \in Provides[r]
          /\ agents' = Append(agents, NewAgent(r, NoSubtask))
    /\ requests' = Tail(requests)
    /\ capAgent' = Len(agents) + 1
    /\ pc' = "capAwait"
    /\ UNCHANGED <<waveVars, attempts, waits, missionVars, late, boundVars>>

(* Whether it succeeded or failed, nothing of it is merged or cleaned up. *)
TakeProvider ==
    /\ pc = "capAwait"
    /\ agents[capAgent].state # "running"
    /\ pc' = "capability"
    /\ capAgent' = 0
    /\ UNCHANGED <<agents, waveVars, attempts, requests, waits, missionVars,
                   late, boundVars>>

-----------------------------------------------------------------------------
(* Merge, cleanup and gate *)

(* Mutant of Mergeable: the outcome of the run is not looked at. *)
MergeableAnyway == {i \in ToSet(wave) : agents[i].tree}

Mergeable == {i \in ToSet(wave) : agents[i].state = "done" /\ agents[i].tree}

(* Each successful agent of the wave that still has its worktree is merged;
   a conflict is recorded and nothing else is done about it. *)
MergeWave ==
    /\ pc = "capability"
    /\ requests = << >>
    /\ \E conflicts \in SUBSET Mergeable :
          agents' = [i \in DOMAIN agents |->
              IF i \in Mergeable
              THEN [agents[i] EXCEPT !.merge =
                       IF i \in conflicts THEN "conflict" ELSE "merged"]
              ELSE agents[i]]
    /\ pc' = "cleanup"
    /\ UNCHANGED <<waveVars, attempts, requests, capAgent, waits, missionVars,
                   late, boundVars>>

(* Mutant of CleanUpWave: only what was merged is cleaned up. *)
CleanUpMerged ==
    /\ pc = "cleanup"
    /\ agents' = CleanedUp(Mergeable)
    /\ pc' = "wave"
    /\ UNCHANGED <<waveVars, attempts, requests, capAgent, waits, missionVars,
                   late, boundVars>>

CleanUpWave ==
    /\ pc = "cleanup"
    /\ agents' = CleanedUp(ToSet(wave))
    /\ pc' = "wave"
    /\ UNCHANGED <<waveVars, attempts, requests, capAgent, waits, missionVars,
                   late, boundVars>>

RunGate(passes) ==
    /\ pc = "gate"
    /\ gatePassed' = passes
    /\ round' = IF passes THEN round ELSE round + 1
    /\ pc' = "round"
    /\ UNCHANGED <<status, agents, waveVars, attempts, requests, capAgent, waits,
                   late, boundVars>>

-----------------------------------------------------------------------------
(* The agents, while the orchestrator awaits *)

Running(i) == pc \in {"await", "capAwait"} /\ agents[i].state = "running"

AgentEnds(i, outcome) ==
    /\ Running(i)
    /\ agents' = [agents EXCEPT ![i].state = outcome]
    /\ UNCHANGED <<pc, waveVars, attempts, requests, capAgent, waits,
                   missionVars, late, boundVars>>

(* request_capability: the tool asks the registry before the orchestrator. *)
RequestCapability(i, c) ==
    /\ Running(i)
    /\ asked < MaxRequests
    /\ ~ Provider(c)
    /\ requests' = Append(requests, c)
    /\ asked' = asked + 1
    /\ UNCHANGED <<pc, agents, waveVars, attempts, capAgent, waits, missionVars,
                   late, blocked>>

(* send(BLOCKED_ON), to any agent, also one not spawned yet: addWait
   replaces the edge of the waiter. *)
BlockOn(i, j) ==
    /\ Running(i)
    /\ blocked < MaxBlocks
    /\ waits' = {e \in waits : e[1] # i} \cup {<<i, j>>}
    /\ blocked' = blocked + 1
    /\ UNCHANGED <<pc, agents, waveVars, attempts, requests, capAgent,
                   missionVars, late, asked>>

(* send(DONE) to anybody: removeWait of the sender. *)
SayDone(i) ==
    /\ Running(i)
    /\ i \in Waiters
    /\ waits' = {e \in waits : e[1] # i}
    /\ UNCHANGED <<pc, agents, waveVars, attempts, requests, capAgent,
                   missionVars, late, boundVars>>

(* The wall-time budget runs out; it is looked at between waves only. *)
RunOutOfTime ==
    /\ ~ late
    /\ pc \notin {"approve", "done", "thrown"}
    /\ late' = TRUE
    /\ UNCHANGED <<pc, agents, waveVars, attempts, requests, capAgent, waits,
                   missionVars, boundVars>>

(* git or an agent's run throws: run() rejects as it stands, nothing catches
   it and nothing is cleaned up. *)
Throw ==
    /\ pc \in {"spawn", "await", "capability", "capAwait"}
    /\ pc' = "thrown"
    /\ UNCHANGED <<agents, waveVars, attempts, requests, capAgent, waits,
                   missionVars, late, boundVars>>

(* The mission is over: stuttering here is not a deadlock. *)
Over == pc \in {"done", "thrown"} /\ UNCHANGED vars

-----------------------------------------------------------------------------

Progress ==
    \/ ApprovePlan \/ RejectPlan
    \/ BeginRound \/ EndMission
    \/ BeginWave \/ EndWaves
    \/ \E t \in Tasks : Deny(t) \/ Spawn(t)
    \/ AwaitWave
    \/ TakeSuccess \/ TakeFailure \/ ResolveDeadlocks
    \/ Refuse \/ SpawnProvider \/ TakeProvider
    \/ MergeWave \/ CleanUpWave
    \/ \E passes \in BOOLEAN : RunGate(passes)

AnAgentEnds ==
    \E i \in DOMAIN agents, outcome \in {"done", "failed"} : AgentEnds(i, outcome)

Next ==
    \/ Progress
    \/ AnAgentEnds
    \/ \E i \in DOMAIN agents, c \in Capabilities : RequestCapability(i, c)
    \/ \E i \in DOMAIN agents, j \in 1 .. Len(agents) + 1 : BlockOn(i, j)
    \/ \E i \in DOMAIN agents : SayDone(i)
    \/ RunOutOfTime
    \/ Throw
    \/ Over

Spec == Init /\ [][Next]_vars

(* run() goes on whenever what it awaits has settled, and the runs of the
   agents end: nothing in the orchestrator makes them. *)
FairSpec == Spec /\ WF_vars(Progress) /\ WF_vars(AnAgentEnds)

-----------------------------------------------------------------------------
(* Properties *)

(* The three places that spawn an agent (a wave, a respawn, a capability
   request) together never take the registry over maxAgents, never give out the id
   of an earlier instance with its branch and worktree, and over all the rounds
   spend at most one agent per round and MaxRespawns more on a subtask. *)
SpawnsAreBounded ==
    /\ Cardinality(Active) <= MaxAgents
    /\ \A i, k \in DOMAIN agents :
        agents[i].role = agents[k].role /\ agents[i].num = agents[k].num => i = k
    /\ \A t \in Tasks :
        Cardinality({i \in DOMAIN agents : agents[i].task = t}) <= round + 1 + MaxRespawns

(* An agent that runs is in the registry and has its worktree and its leases:
   no cleanup, of a wave or of a deadlock, pulls them from under it. *)
RunningKeepsItsResources ==
    \A i \in DOMAIN agents :
        agents[i].state = "running" =>
            agents[i].active /\ agents[i].tree /\ agents[i].leases

BetweenWaves == pc \in {"wave", "gate", "round", "done"}

(* While the orchestrator merges, cleans up, runs the gate or has finished, no
   agent is running and changing the repository; between waves the work of every
   agent that succeeded on a subtask has been put to a merge, one agent's for each
   subtask and round, and none of them keeps a registry entry, a worktree or a
   lease, whichever way its run ended and however often it was respawned. *)
WavesAreSettled ==
    /\ BetweenWaves \/ pc \in {"capability", "cleanup"} =>
        \A i \in DOMAIN agents : agents[i].state # "running"
    /\ BetweenWaves => \A i \in DOMAIN agents : agents[i].task # NoSubtask =>
        /\ agents[i].state = "done" => agents[i].merge # "none"
        /\ ~ agents[i].active /\ ~ agents[i].tree /\ ~ agents[i].leases
    /\ \A i, k \in DOMAIN agents :
        /\ agents[i].merge = "merged" /\ agents[k].merge = "merged"
        /\ agents[i].task = agents[k].task /\ agents[i].round = agents[k].round
        => i = k

(* An agent works on a subtask only when, in this round, each subtask it
   depends on was put to a merge, or has used up its respawns. *)
DependenciesComeFirst ==
    \A i \in DOMAIN agents :
        agents[i].state = "running" /\ agents[i].task # NoSubtask =>
            \A d \in DependsOn[agents[i].task] :
                \/ d \in Tasks /\ attempts[d] > MaxRespawns
                \/ \E k \in DOMAIN agents :
                      /\ agents[k].task = d
                      /\ agents[k].round = round
                      /\ agents[k].merge # "none"

(* Once the gate has passed no agent is spawned, torn down or merged. *)
GateEndsTheWork == [][gatePassed => agents' = agents]_vars

(* Whatever the agents do, with their runs ending, the mission ends. *)
MissionEnds == <>(pc \in {"done", "thrown"})
=============================================================================
