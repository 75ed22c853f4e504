------------------------- MODULE OrchestratorProofs -------------------------
(***************************************************************************)
(* Proofs about Orchestrator, for any plan, roles and caps: what run() and *)
(* the agents do at any step leaves the agents of a wave in the registry   *)
(* with their resources until they are over, and counts them.              *)
(***************************************************************************)
EXTENDS Orchestrator, FiniteSetTheorems, WellFoundedInduction, TLAPS

AgentType ==
    [role : Roles, num : Nat \ {0}, task : Tasks \cup {NoSubtask}, round : Nat,
     state : {"running", "done", "failed"}, active : BOOLEAN, tree : BOOLEAN, leases : BOOLEAN,
     merge : {"none", "merged", "conflict"}]

TypeOK ==
    /\ pc \in {"approve", "round", "wave", "spawn", "await", "capability", "capAwait", "cleanup",
               "gate", "done", "thrown"}
    /\ agents \in Seq(AgentType)
    /\ remaining \subseteq Tasks /\ queue \subseteq Tasks /\ completed \subseteq Tasks
    /\ wave \in Seq(Nat) /\ cursor \in Nat \ {0}
    /\ attempts \in [Tasks -> Nat] /\ round \in Nat /\ gatePassed \in BOOLEAN

InWave == pc \in {"spawn", "await", "capability", "capAwait", "cleanup"}
InRound == InWave \/ pc \in {"wave", "gate"}

(* What is true of the agents wherever the orchestrator is: a number is no higher than the
   place of its agent, only work that was done is merged, and of the agents that took one
   subtask in one round all but one have failed. *)
AgentsOK ==
    /\ \A i \in 1..Len(agents) : agents[i].num <= i
    /\ \A i, k \in 1..Len(agents) :
          agents[i].role = agents[k].role /\ agents[i].num = agents[k].num => i = k
    /\ Cardinality(Active) <= MaxAgents
    /\ \A i \in 1..Len(agents) : agents[i].merge # "none" =>
          agents[i].state = "done" /\ agents[i].task # NoSubtask
    /\ \A i, k \in 1..Len(agents) :
          /\ agents[i].task = agents[k].task /\ agents[i].task # NoSubtask
          /\ agents[i].round = agents[k].round /\ i # k
          => agents[i].state = "failed" \/ agents[k].state = "failed"
    /\ RunningKeepsItsResources

(* Where the control is, relative to the wave. *)
ControlOK ==
    /\ gatePassed => pc \in {"round", "done"}
    /\ pc = "approve" => agents = << >> /\ waits = {}
    /\ pc = "spawn" => cursor = 1
    /\ pc # "spawn" /\ (InRound \/ pc \in {"approve", "round"}) => queue = {}
    /\ queue \cap remaining = {}
    /\ pc = "capAwait" => capAgent \in 1..Len(agents) /\ agents[capAgent].task = NoSubtask

(* The places of the wave that are still to be awaited. *)
ToAwait(i) == \E k \in cursor..Len(wave) : wave[k] = i

(* Of the agents that took one subtask in the round, at most one is still to be awaited, and
   then the others have failed. *)
AloneOK == pc \in {"spawn", "await"} =>
    /\ \A k, l \in cursor..Len(wave) : agents[wave[k]].task = agents[wave[l]].task => k = l
    /\ \A k \in cursor..Len(wave) : \A i \in 1..Len(agents) :
          agents[i].task = agents[wave[k]].task /\ agents[i].round = round /\ i # wave[k]
          => agents[i].state = "failed"

(* Nobody runs but who is to be awaited. *)
RunningOK == pc # "thrown" =>
    \A i \in 1..Len(agents) : agents[i].state = "running" =>
        \/ pc \in {"spawn", "await"} /\ ToAwait(i)
        \/ pc = "capAwait" /\ i = capAgent

(* The agents of the wave keep their worktrees until the cleanup. *)
WaveOK == InWave =>
    \A k \in 1..Len(wave) :
        /\ wave[k] \in 1..Len(agents)
        /\ agents[wave[k]].task # NoSubtask /\ agents[wave[k]].round = round
        /\ pc # "cleanup" => agents[wave[k]].tree
        /\ pc = "cleanup" /\ agents[wave[k]].state = "done" => agents[wave[k]].merge # "none"
        /\ pc # "cleanup" => agents[wave[k]].merge = "none"

(* The agents of earlier waves are settled. *)
Settled(i) ==
    /\ agents[i].state = "done" => agents[i].merge # "none"
    /\ ~agents[i].active /\ ~agents[i].tree /\ ~agents[i].leases /\ agents[i].state # "running"

SettledOK == \A i \in 1..Len(agents) :
    /\ agents[i].task # NoSubtask
    /\ BetweenWaves \/ (InWave /\ \A k \in 1..Len(wave) : wave[k] # i)
    => Settled(i)

(* The subtasks that have no agent yet in the round that is on or comes next. *)
Unspawned ==
    IF pc = "approve" \/ (pc = "round" /\ ~gatePassed) THEN Tasks
    ELSE IF InRound THEN remaining \cup queue ELSE {}

Takers(t) == {i \in DOMAIN agents : agents[i].task = t}

CountsOK ==
    /\ \A i \in 1..Len(agents) : agents[i].round <= round
    /\ \A t \in Unspawned : \A i \in 1..Len(agents) : agents[i].task = t => agents[i].round < round
    /\ \A t \in Tasks :
          Cardinality(Takers(t)) <= round + (IF attempts[t] <= MaxRespawns THEN attempts[t] ELSE MaxRespawns)
                                          + (IF t \in Unspawned THEN 0 ELSE 1)

(* A subtask is behind us in this round: its work was put to a merge, or it is given up. *)
Put(d) ==
    \/ d \in Tasks /\ attempts[d] > MaxRespawns
    \/ \E k \in 1..Len(agents) :
          agents[k].task = d /\ agents[k].round = round /\ agents[k].merge # "none"

DependenciesOK ==
    /\ DependenciesComeFirst
    /\ pc = "spawn" => \A t \in queue : \A d \in DependsOn[t] : Put(d)
    /\ pc \in {"spawn", "await"} =>
          \A k \in 1..Len(wave) : \A d \in DependsOn[agents[wave[k]].task] : Put(d)
    /\ InRound => \A d \in completed :
          \/ d \in Tasks /\ attempts[d] > MaxRespawns
          \/ \E k \in 1..Len(agents) :
                agents[k].task = d /\ agents[k].round = round /\ agents[k].state = "done"

(* Who waits is still to be awaited, or provides a capability: no cleanup of a deadlock
   reaches the others. *)
WaitsOK == pc # "thrown" =>
    \A e \in waits :
        /\ e[1] \in 1..Len(agents)
        /\ agents[e[1]].task = NoSubtask \/ (pc = "await" /\ ToAwait(e[1]))

IInv ==
    /\ TypeOK /\ AgentsOK /\ ControlOK /\ AloneOK /\ RunningOK /\ WaveOK /\ SettledOK /\ CountsOK
    /\ DependenciesOK /\ WaitsOK

-----------------------------------------------------------------------------
(* Agents that stay as they are *)

(* The agents of a subtask, like those in the registry, are finitely many. *)
LEMMA TakersAreFinite ==
    ASSUME agents \in Seq(AgentType)
    PROVE  /\ DOMAIN agents = 1..Len(agents) /\ Len(agents) \in Nat
           /\ \A i \in 1..Len(agents) : agents[i] \in AgentType
           /\ IsFiniteSet(Active) /\ Cardinality(Active) \in Nat
           /\ \A t : IsFiniteSet(Takers(t)) /\ Cardinality(Takers(t)) \in Nat
<1>1. DOMAIN agents = 1..Len(agents) /\ Len(agents) \in Nat /\ \A i \in 1..Len(agents) : agents[i] \in AgentType
  OBVIOUS
<1>2. IsFiniteSet(1..Len(agents))
  BY <1>1, FS_Interval
<1>3. Active \subseteq 1..Len(agents) /\ \A t : Takers(t) \subseteq 1..Len(agents)
  BY <1>1 DEF Active, Takers
<1>4. \A S \in SUBSET (1..Len(agents)) : IsFiniteSet(S) /\ Cardinality(S) \in Nat
  BY <1>2, FS_Subset, FS_CardinalityType
<1> QED
  BY <1>1, <1>3, <1>4

(* When no agent changes, the subtasks without an agent may only get fewer. *)
LEMMA SameAgents ==
    ASSUME IInv, UNCHANGED <<agents, attempts, round>>
    PROVE  /\ AgentsOK' /\ DependenciesComeFirst'
           /\ \A d : Put(d)' <=> Put(d)
           /\ \A i : Settled(i)' <=> Settled(i)
           /\ Unspawned' \subseteq Unspawned => CountsOK'
<1>1. TypeOK /\ AgentsOK /\ DependenciesOK /\ CountsOK
  BY DEF IInv
<1>2. AgentsOK'
  BY <1>1 DEF AgentsOK, Active, RunningKeepsItsResources
<1>3. DependenciesComeFirst'
  BY <1>1 DEF DependenciesOK, DependenciesComeFirst
<1>4. (\A d : Put(d)' <=> Put(d)) /\ \A i : Settled(i)' <=> Settled(i)
  BY DEF Put, Settled
<1>5. ASSUME Unspawned' \subseteq Unspawned PROVE CountsOK'
  <2>1. \A t : Takers(t)' = Takers(t) /\ Cardinality(Takers(t)) \in Nat
    BY <1>1, TakersAreFinite DEF TypeOK, Takers
  <2>2. ASSUME NEW t \in Tasks
        PROVE  Cardinality(Takers(t)') <=
                 round + (IF attempts[t] <= MaxRespawns THEN attempts[t] ELSE MaxRespawns)
                       + (IF t \in Unspawned' THEN 0 ELSE 1)
    <3>1. Cardinality(Takers(t)) <=
                 round + (IF attempts[t] <= MaxRespawns THEN attempts[t] ELSE MaxRespawns)
                       + (IF t \in Unspawned THEN 0 ELSE 1)
      BY <1>1 DEF CountsOK
    <3>2. attempts[t] \in Nat /\ round \in Nat /\ MaxRespawns \in Nat
      BY <1>1, MissionAssumption DEF TypeOK, MissionConstants
    <3>3. t \in Unspawned' => t \in Unspawned
      BY <1>5
    <3> QED
      BY <2>1, <3>1, <3>2, <3>3
  <2>3. /\ \A i \in 1..Len(agents) : agents[i].round <= round
        /\ \A t \in Unspawned' : \A i \in 1..Len(agents) : agents[i].task = t => agents[i].round < round
    BY <1>1, <1>5 DEF CountsOK
  <2> QED
    BY <2>2, <2>3 DEF CountsOK
<1> QED
  BY <1>2, <1>3, <1>4, <1>5

(* The facts that steps on the agents start from. *)
LEMMA Facts ==
    ASSUME IInv
    PROVE  /\ TypeOK /\ AgentsOK /\ ControlOK /\ AloneOK /\ RunningOK /\ WaveOK /\ SettledOK /\ CountsOK
           /\ DependenciesOK /\ WaitsOK
           /\ DOMAIN agents = 1..Len(agents) /\ Len(agents) \in Nat /\ Len(wave) \in Nat
           /\ \A i \in 1..Len(agents) : agents[i] \in AgentType
           /\ MaxRespawns \in Nat /\ NoSubtask \notin Tasks /\ NoRole \notin Roles
           /\ \A t \in Tasks : RoleOf[t] \in Roles \cup {NoRole}
BY TakersAreFinite, MissionAssumption DEF IInv, TypeOK, MissionConstants

-----------------------------------------------------------------------------
(* Steps of the control *)

(* Steps between the waves. *)
LEMMA BetweenWavesInv ==
    ASSUME IInv, ApprovePlan \/ RejectPlan \/ BeginRound \/ EndMission \/ EndWaves
    PROVE  IInv'
<1>1. /\ TypeOK /\ ControlOK /\ AloneOK /\ RunningOK /\ SettledOK /\ DependenciesOK /\ WaitsOK
  BY Facts
<1>2. /\ UNCHANGED <<agents, attempts, round, waits, wave, cursor, queue, gatePassed>>
      /\ \/ pc = "approve" /\ pc' \in {"round", "done"} /\ UNCHANGED <<remaining, completed>>
         \/ pc = "round" /\ ~gatePassed /\ pc' = "wave" /\ remaining' = Tasks /\ completed' = {}
         \/ pc = "round" /\ pc' = "done" /\ UNCHANGED <<remaining, completed>>
         \/ pc = "wave" /\ pc' = "gate" /\ UNCHANGED <<remaining, completed>>
  BY DEF ApprovePlan, RejectPlan, BeginRound, EndMission, EndWaves, MayRepair, waveVars, missionVars
<1>3. TypeOK' /\ ControlOK' /\ AloneOK'
  BY <1>1, <1>2 DEF TypeOK, ControlOK, AloneOK, InRound, InWave
<1>4. Unspawned' \subseteq Unspawned
  BY <1>1, <1>2 DEF Unspawned, ControlOK, InRound, InWave, TypeOK
<1>5. AgentsOK' /\ DependenciesComeFirst' /\ CountsOK' /\ \A i : Settled(i)' <=> Settled(i)
  BY <1>2, <1>4, SameAgents
<1>6. RunningOK' /\ WaitsOK'
  BY <1>1, <1>2 DEF RunningOK, WaitsOK, ToAwait
<1>7. WaveOK' /\ SettledOK'
  BY <1>1, <1>2, <1>5 DEF WaveOK, SettledOK, InWave, BetweenWaves, ControlOK
<1>8. DependenciesOK'
  BY <1>1, <1>2, <1>5 DEF DependenciesOK, InRound, InWave
<1> QED
  BY <1>3, <1>5, <1>6, <1>7, <1>8 DEF IInv

(* A wave begins when all the work on what its subtasks depend on was put to a merge. *)
LEMMA BeginWaveInv == ASSUME IInv, BeginWave PROVE IInv'
<1>1. /\ TypeOK /\ ControlOK /\ RunningOK /\ SettledOK /\ DependenciesOK /\ WaitsOK /\ NoSubtask \notin Tasks
  BY Facts
<1>2. /\ pc = "wave" /\ pc' = "spawn" /\ Ready \subseteq remaining
      /\ remaining' = remaining \ Ready /\ queue' = Ready /\ wave' = << >> /\ cursor' = 1
      /\ UNCHANGED <<agents, attempts, round, waits, completed, gatePassed>>
  BY DEF BeginWave, Ready, missionVars
<1>3. TypeOK' /\ ControlOK' /\ AloneOK'
  BY <1>1, <1>2 DEF TypeOK, ControlOK, AloneOK, InRound, InWave
<1>4. Unspawned' \subseteq Unspawned
  BY <1>1, <1>2 DEF Unspawned, ControlOK, InRound, InWave
<1>5. /\ AgentsOK' /\ DependenciesComeFirst' /\ CountsOK'
      /\ (\A i : Settled(i)' <=> Settled(i)) /\ \A d : Put(d)' <=> Put(d)
  BY <1>2, <1>4, SameAgents
<1>6. RunningOK' /\ WaitsOK'
  BY <1>1, <1>2 DEF RunningOK, WaitsOK, ToAwait
<1>7. WaveOK' /\ SettledOK'
  BY <1>1, <1>2, <1>5 DEF WaveOK, SettledOK, InWave, BetweenWaves
<1>8. ASSUME NEW t \in Ready, NEW d \in DependsOn[t] PROVE Put(d)
  <2>1. d \in completed
    BY <1>8 DEF Ready
  <2>2. CASE d \in Tasks /\ attempts[d] > MaxRespawns
    BY <2>2 DEF Put
  <2>3. CASE \E k \in 1..Len(agents) :
                agents[k].task = d /\ agents[k].round = round /\ agents[k].state = "done"
    <3>1. PICK k \in 1..Len(agents) :
                agents[k].task = d /\ agents[k].round = round /\ agents[k].state = "done"
      BY <2>3
    <3>2. agents[k].task # NoSubtask /\ BetweenWaves
      BY <1>1, <1>2, <2>1, <3>1 DEF BetweenWaves, TypeOK
    <3>3. Settled(k)
      BY <1>1, <3>2 DEF SettledOK
    <3>4. agents[k].merge # "none"
      BY <3>1, <3>3 DEF Settled
    <3> QED
      BY <3>1, <3>4 DEF Put
  <2> QED
    BY <1>1, <1>2, <2>1, <2>2, <2>3 DEF DependenciesOK, InRound
<1>9. DependenciesOK'
  BY <1>1, <1>2, <1>5, <1>8 DEF DependenciesOK, InRound, InWave
<1> QED
  BY <1>3, <1>5, <1>6, <1>7, <1>9 DEF IInv

(* Steps within a wave that no agent notices. *)
LEMMA WithinWaveInv ==
    ASSUME IInv, (\E t \in Tasks : Deny(t)) \/ AwaitWave \/ Refuse \/ TakeProvider \/ Throw
    PROVE  IInv'
<1>1. /\ TypeOK /\ ControlOK /\ AloneOK /\ RunningOK /\ WaveOK /\ SettledOK /\ DependenciesOK /\ WaitsOK
  BY Facts
<1>2. /\ UNCHANGED <<agents, attempts, round, waits, wave, cursor, remaining, completed, gatePassed>>
      /\ \/ pc = "spawn" /\ pc' = "spawn" /\ queue' \subseteq queue
         \/ pc = "spawn" /\ pc' = "await" /\ queue = {} /\ queue' = queue
         \/ pc = "capability" /\ pc' = "capability" /\ queue' = queue
         \/ /\ pc = "capAwait" /\ pc' = "capability" /\ queue' = queue
            /\ agents[capAgent].state # "running"
         \/ InWave /\ pc' = "thrown" /\ queue' = queue
  BY DEF Deny, AwaitWave, Refuse, TakeProvider, Throw, waveVars, missionVars, InWave
<1>3. TypeOK' /\ ControlOK' /\ AloneOK'
  BY <1>1, <1>2 DEF TypeOK, ControlOK, AloneOK, InRound, InWave
<1>4. Unspawned' \subseteq Unspawned
  BY <1>1, <1>2 DEF Unspawned, ControlOK, InRound, InWave
<1>5. /\ AgentsOK' /\ DependenciesComeFirst' /\ CountsOK'
      /\ (\A i : Settled(i)' <=> Settled(i)) /\ \A d : Put(d)' <=> Put(d)
  BY <1>2, <1>4, SameAgents
<1>6. RunningOK' /\ WaitsOK'
  BY <1>1, <1>2 DEF RunningOK, WaitsOK, ToAwait, InWave
<1>7. WaveOK' /\ SettledOK'
  BY <1>1, <1>2, <1>5 DEF WaveOK, SettledOK, InWave, BetweenWaves
<1>8. DependenciesOK'
  BY <1>1, <1>2, <1>5 DEF DependenciesOK, InRound, InWave
<1> QED
  BY <1>3, <1>5, <1>6, <1>7, <1>8 DEF IInv

(* The agents talk, and time runs out: only the waits change. *)
LEMMA TalkInv ==
    ASSUME IInv,
           \/ \E i \in DOMAIN agents, c \in Capabilities : RequestCapability(i, c)
           \/ \E i \in DOMAIN agents, j \in 1 .. Len(agents) + 1 : BlockOn(i, j)
           \/ \E i \in DOMAIN agents : SayDone(i)
           \/ RunOutOfTime \/ UNCHANGED vars
    PROVE  IInv'
<1>1. /\ TypeOK /\ ControlOK /\ AloneOK /\ RunningOK /\ WaveOK /\ SettledOK /\ DependenciesOK /\ WaitsOK
      /\ DOMAIN agents = 1..Len(agents)
  BY Facts
<1>2. UNCHANGED <<agents, attempts, round, wave, cursor, queue, remaining, completed, gatePassed, pc>>
  BY DEF RequestCapability, BlockOn, SayDone, RunOutOfTime, waveVars, missionVars, vars
<1>3. /\ pc = "approve" => waits' = waits
      /\ \A e \in waits' :
           \/ e \in waits
           \/ pc \in {"await", "capAwait"} /\ e[1] \in 1..Len(agents) /\ agents[e[1]].state = "running"
  BY <1>1 DEF RequestCapability, BlockOn, SayDone, RunOutOfTime, Running, vars
<1>4. TypeOK' /\ ControlOK' /\ AloneOK'
  <2>1. pc = "capAwait" => capAgent' = capAgent
    BY DEF RequestCapability, BlockOn, SayDone, RunOutOfTime, vars
  <2> QED
    BY <1>1, <1>2, <1>3, <2>1 DEF TypeOK, ControlOK, AloneOK, InRound, InWave
<1>5. /\ AgentsOK' /\ DependenciesComeFirst' /\ CountsOK'
      /\ (\A i : Settled(i)' <=> Settled(i)) /\ \A d : Put(d)' <=> Put(d)
  <2>1. Unspawned' = Unspawned
    BY <1>2 DEF Unspawned, InRound, InWave
  <2> QED
    BY <1>2, <2>1, SameAgents
<1>6. RunningOK'
  <2>1. capAgent' = capAgent
    BY DEF RequestCapability, BlockOn, SayDone, RunOutOfTime, vars
  <2> QED
    BY <1>1, <1>2, <2>1 DEF RunningOK, ToAwait
<1>7. WaitsOK'
  BY <1>1, <1>2, <1>3 DEF WaitsOK, RunningOK, ControlOK, ToAwait
<1>8. WaveOK' /\ SettledOK' /\ DependenciesOK'
  BY <1>1, <1>2, <1>5 DEF WaveOK, SettledOK, InWave, BetweenWaves, DependenciesOK, InRound
<1> QED
  BY <1>4, <1>5, <1>6, <1>7, <1>8 DEF IInv

(* The awaited agent succeeded: only the place in the wave and what counts as completed change. *)
LEMMA TakeSuccessInv == ASSUME IInv, TakeSuccess PROVE IInv'
<1>1. /\ TypeOK /\ ControlOK /\ AloneOK /\ RunningOK /\ WaveOK /\ SettledOK /\ DependenciesOK /\ WaitsOK
      /\ Len(wave) \in Nat /\ \A i \in 1..Len(agents) : agents[i] \in AgentType
  BY Facts
<1>2. /\ pc = "await" /\ pc' = "await" /\ cursor <= Len(wave) /\ cursor' = cursor + 1
      /\ agents[wave[cursor]].state = "done"
      /\ completed' = completed \cup {agents[wave[cursor]].task}
      /\ waits' = WithoutAgent(wave[cursor])
      /\ UNCHANGED <<agents, attempts, round, wave, remaining, queue, capAgent, gatePassed>>
  BY DEF TakeSuccess, missionVars
<1>3. cursor \in 1..Len(wave)
  BY <1>1, <1>2 DEF TypeOK
<1>4. /\ wave[cursor] \in 1..Len(agents) /\ agents[wave[cursor]].task \in Tasks
      /\ agents[wave[cursor]].round = round
  <2>1. /\ wave[cursor] \in 1..Len(agents) /\ agents[wave[cursor]].task # NoSubtask
        /\ agents[wave[cursor]].round = round
    BY <1>1, <1>2, <1>3 DEF WaveOK, InWave
  <2> QED
    BY <1>1, <2>1 DEF AgentType
<1>5. TypeOK' /\ ControlOK' /\ AloneOK'
  BY <1>1, <1>2, <1>4 DEF TypeOK, ControlOK, AloneOK, InRound, InWave
<1>6. Unspawned' \subseteq Unspawned
  BY <1>1, <1>2 DEF Unspawned, InRound, InWave
<1>7. /\ AgentsOK' /\ DependenciesComeFirst' /\ CountsOK'
      /\ (\A i : Settled(i)' <=> Settled(i)) /\ \A d : Put(d)' <=> Put(d)
  BY <1>2, <1>6, SameAgents
<1>8. \A i : ToAwait(i) /\ i # wave[cursor] => ToAwait(i)'
  BY <1>1, <1>2, <1>3 DEF ToAwait, TypeOK
<1>9. RunningOK'
  BY <1>1, <1>2, <1>8 DEF RunningOK
<1>10. WaitsOK'
  <2>1. \A e \in waits' : e \in waits /\ e[1] # wave[cursor]
    BY <1>2 DEF WithoutAgent
  <2> QED
    BY <1>1, <1>2, <1>8, <2>1 DEF WaitsOK
<1>11. WaveOK' /\ SettledOK'
  BY <1>1, <1>2, <1>7 DEF WaveOK, SettledOK, InWave, BetweenWaves
<1>12. DependenciesOK'
  <2>1. \A d \in completed' :
          \/ d \in Tasks /\ attempts[d] > MaxRespawns
          \/ \E k \in 1..Len(agents) :
                agents[k].task = d /\ agents[k].round = round /\ agents[k].state = "done"
    BY <1>1, <1>2, <1>4 DEF DependenciesOK, InRound, InWave
  <2> QED
    BY <1>1, <1>2, <1>7, <2>1 DEF DependenciesOK
<1> QED
  BY <1>5, <1>7, <1>9, <1>10, <1>11, <1>12 DEF IInv

(* The gate: a round that fails leaves all its agents in an earlier round. *)
LEMMA RunGateInv == ASSUME IInv, NEW passes \in BOOLEAN, RunGate(passes) PROVE IInv'
<1>1. /\ TypeOK /\ AgentsOK /\ ControlOK /\ RunningOK /\ SettledOK /\ CountsOK /\ DependenciesOK /\ WaitsOK
      /\ DOMAIN agents = 1..Len(agents) /\ MaxRespawns \in Nat /\ NoSubtask \notin Tasks
      /\ \A i \in 1..Len(agents) : agents[i] \in AgentType
  BY Facts
<1>2. /\ pc = "gate" /\ pc' = "round" /\ gatePassed' = passes
      /\ round' = IF passes THEN round ELSE round + 1
      /\ UNCHANGED <<agents, attempts, waits, wave, cursor, queue, remaining, completed>>
  BY DEF RunGate, waveVars
<1>3. TypeOK' /\ ControlOK' /\ AloneOK'
  BY <1>1, <1>2 DEF TypeOK, ControlOK, AloneOK, InRound, InWave
<1>4. AgentsOK'
  BY <1>1, <1>2 DEF AgentsOK, Active, RunningKeepsItsResources
<1>5. \A i \in 1..Len(agents) : agents[i].state # "running"
  BY <1>1, <1>2 DEF RunningOK
<1>6. RunningOK' /\ WaitsOK'
  BY <1>1, <1>2, <1>5 DEF RunningOK, WaitsOK
<1>7. WaveOK' /\ SettledOK'
  <2>1. \A i : Settled(i)' <=> Settled(i)
    BY <1>2 DEF Settled
  <2> QED
    BY <1>1, <1>2, <2>1 DEF WaveOK, SettledOK, InWave, BetweenWaves
<1>8. DependenciesOK'
  <2>1. DependenciesComeFirst'
    BY <1>1, <1>2, <1>5 DEF DependenciesComeFirst
  <2> QED
    BY <1>2, <2>1 DEF DependenciesOK, InRound, InWave
<1>9. CountsOK'
  <2>1. /\ Unspawned = remaining \cup queue
        /\ Unspawned' = IF passes THEN {} ELSE Tasks
    BY <1>2 DEF Unspawned, InRound, InWave
  <2>2. round \in Nat /\ attempts \in [Tasks -> Nat]
    BY <1>1 DEF TypeOK
  <2>3. \A i \in 1..Len(agents) : agents[i].round \in Nat /\ agents[i].round <= round
    BY <1>1 DEF CountsOK, AgentType
  <2>4. /\ \A i \in 1..Len(agents) : agents[i].round <= round'
        /\ \A t \in Unspawned' : \A i \in 1..Len(agents) : agents[i].task = t => agents[i].round < round'
    BY <1>2, <2>1, <2>2, <2>3
  <2>5. ASSUME NEW t \in Tasks
        PROVE  Cardinality(Takers(t)') <=
                 round' + (IF attempts[t] <= MaxRespawns THEN attempts[t] ELSE MaxRespawns)
                       + (IF t \in Unspawned' THEN 0 ELSE 1)
    <3>1. Takers(t)' = Takers(t) /\ Cardinality(Takers(t)) \in Nat
      BY <1>1, <1>2, TakersAreFinite DEF TypeOK, Takers
    <3>2. Cardinality(Takers(t)) <=
                 round + (IF attempts[t] <= MaxRespawns THEN attempts[t] ELSE MaxRespawns)
                       + (IF t \in Unspawned THEN 0 ELSE 1)
      BY <1>1 DEF CountsOK
    <3> QED
      BY <1>1, <1>2, <2>1, <2>2, <3>1, <3>2
  <2> QED
    BY <1>2, <2>4, <2>5 DEF CountsOK
<1> QED
  BY <1>3, <1>4, <1>6, <1>7, <1>8, <1>9 DEF IInv

-----------------------------------------------------------------------------
(* An agent is added *)

(* nextInstanceId gives out a number above every number the role ever had, and no higher than
   the place the new agent takes. *)
LEMMA NumberIsNew ==
    ASSUME IInv, NEW r \in Roles
    PROVE  /\ NextInstance(r) \in 1..(Len(agents) + 1)
           /\ \A i \in 1..Len(agents) : agents[i].role = r => agents[i].num < NextInstance(r)
<1> DEFINE S == {0} \cup NumbersOf(r)
           n == Len(agents)
           Above(x) == {y \in S : y > x}
<1>1. DOMAIN agents = 1..n /\ n \in Nat /\ \A i \in 1..n : agents[i].num \in Nat /\ agents[i].num <= i
  BY Facts DEF AgentsOK, AgentType
<1>2. /\ \A y \in S : y \in Nat /\ y <= n
      /\ \A i \in 1..n : agents[i].role = r => agents[i].num \in S
  BY <1>1 DEF NumbersOf
<1>3. PICK A \in {Above(x) : x \in S} :
        \A B \in {Above(x) : x \in S} : ~ (<<B, A>> \in StrictSubsetOrdering(S))
  <2>1. IsFiniteSet(S)
    BY <1>1, <1>2, FS_BoundedSetOfNaturals
  <2>2. {Above(x) : x \in S} \subseteq FiniteSubsetsOf(S)
    BY <2>1, FS_FiniteSubsetsOfFinite
  <2>3. {Above(x) : x \in S} # {}
    OBVIOUS
  <2> QED
    BY <2>2, <2>3, FS_StrictSubsetOrderingWellFounded, WFMin
<1>4. PICK m \in S : \A y \in S : y <= m
  <2>1. PICK m \in S : A = Above(m)
    OBVIOUS
  <2>2. ASSUME NEW y \in S, ~ (y <= m) PROVE FALSE
    <3>0. y \in Nat /\ m \in Nat /\ y > m
      BY <1>2, <2>2
    <3>1. y \in Above(m) /\ y \notin Above(y) /\ Above(y) \subseteq Above(m)
      <4>1. y \in Above(m) /\ y \notin Above(y)
        BY <3>0
      <4>2. \A z \in Above(y) : z \in Nat /\ z > m
        BY <1>2, <3>0
      <4> QED
        BY <4>1, <4>2
    <3>2. <<Above(y), A>> \in StrictSubsetOrdering(S)
      BY <2>1, <3>1 DEF StrictSubsetOrdering
    <3> QED
      BY <1>3, <3>2
  <2> QED
    BY <2>2
<1>5. Max(S) = m
  <2>1. m \in S /\ \A y \in S : m >= y
    BY <1>2, <1>4
  <2>2. \A x \in S : (\A y \in S : x >= y) => x = m
    BY <1>2, <2>1
  <2> QED
    BY <2>1, <2>2 DEF Max
<1>6. NextInstance(r) = 1 + m
  BY <1>5 DEF NextInstance
<1> QED
  BY <1>1, <1>2, <1>4, <1>6

(* An agent that joins, below the cap and for a subtask whose other agents in the round have
   failed, leaves the agents as they should be.  base is what the others have become. *)
LEMMA AgentJoins ==
    ASSUME IInv, ~AtCap, NEW r \in Roles, NEW t \in Tasks \cup {NoSubtask}, NEW base \in Seq(AgentType),
           Len(base) = Len(agents),
           \A i \in 1..Len(agents) :
              /\ base[i].role = agents[i].role /\ base[i].num = agents[i].num
              /\ base[i].task = agents[i].task /\ base[i].round = agents[i].round
              /\ base[i].state = agents[i].state /\ base[i].active = agents[i].active
              /\ base[i].merge = agents[i].merge
              /\ agents[i].state = "running" => base[i] = agents[i],
           t # NoSubtask =>
              \A i \in 1..Len(agents) :
                 agents[i].task = t /\ agents[i].round = round => agents[i].state = "failed",
           agents' = Append(base, NewAgent(r, t)), round' = round
    PROVE  /\ AgentsOK' /\ agents' \in Seq(AgentType) /\ Len(agents') = Len(agents) + 1
           /\ \A i \in 1..Len(agents) : agents'[i] = base[i]
           /\ agents'[Len(agents) + 1].task = t /\ agents'[Len(agents) + 1].round = round
           /\ agents'[Len(agents) + 1].tree /\ agents'[Len(agents) + 1].merge = "none"
           /\ agents'[Len(agents) + 1].state = "running"
           /\ \A s : s # t => Takers(s)' = Takers(s)
           /\ Cardinality(Takers(t)') = Cardinality(Takers(t)) + 1
<1> DEFINE n == Len(agents)
<1>1. /\ DOMAIN agents = 1..n /\ n \in Nat /\ round \in Nat /\ MaxAgents \in Nat /\ AgentsOK
      /\ \A i \in 1..n : agents[i] \in AgentType
  BY Facts, MissionAssumption DEF TypeOK, MissionConstants
<1>2. /\ NextInstance(r) \in 1..(n + 1)
      /\ \A i \in 1..n : agents[i].role = r => agents[i].num < NextInstance(r)
  BY NumberIsNew
<1>3. PICK new \in AgentType :
        /\ agents' = Append(base, new)
        /\ new.role = r /\ new.num = NextInstance(r) /\ new.task = t /\ new.round = round
        /\ new.state = "running" /\ new.active = TRUE /\ new.tree = TRUE /\ new.leases = TRUE /\ new.merge = "none"
  <2> DEFINE made == NewAgent(r, t)
  <2>1. /\ made.role = r /\ made.num = NextInstance(r) /\ made.task = t /\ made.round = round
        /\ made.state = "running" /\ made.active = TRUE /\ made.tree = TRUE /\ made.leases = TRUE /\ made.merge = "none"
    BY DEF NewAgent
  <2>2. NextInstance(r) \in Nat \ {0}
    BY <1>1, <1>2
  <2>3. made \in AgentType
    BY <1>1, <2>2 DEF NewAgent, AgentType
  <2>4. agents' = Append(base, made)
    OBVIOUS
  <2> HIDE DEF made
  <2> QED
    BY <2>1, <2>3, <2>4
<1>4. /\ agents' \in Seq(AgentType) /\ Len(agents') = n + 1 /\ DOMAIN agents' = 1..(n + 1)
      /\ agents'[n + 1] = new /\ \A i \in 1..n : agents'[i] = base[i]
  BY <1>1, <1>3
<1>5. IsFiniteSet(Active) /\ Cardinality(Active) \in Nat /\ n + 1 \notin Active
      /\ \A s : IsFiniteSet(Takers(s)) /\ n + 1 \notin Takers(s)
  <2>1. agents \in Seq(AgentType)
    BY Facts DEF TypeOK
  <2>2. n + 1 \notin Active /\ \A s : n + 1 \notin Takers(s)
    BY <1>1 DEF Active, Takers
  <2> QED
    BY <2>1, <2>2, TakersAreFinite
<1>6. Cardinality(Active') <= MaxAgents
  <2>1. Active' = Active \cup {n + 1}
    BY <1>1, <1>3, <1>4 DEF Active
  <2>2. Cardinality(Active') = Cardinality(Active) + 1
    BY <1>5, <2>1, FS_AddElement
  <2> QED
    BY <1>1, <1>5, <2>2 DEF AtCap
<1>7. \A i \in 1..(n + 1) : agents'[i].num <= i
  BY <1>1, <1>2, <1>3, <1>4 DEF AgentsOK
<1>8. \A i, k \in 1..(n + 1) :
          agents'[i].role = agents'[k].role /\ agents'[i].num = agents'[k].num => i = k
  <2> TAKE i, k \in 1..(n + 1)
  <2>1. CASE i \in 1..n /\ k \in 1..n
    <3>1. agents'[i].role = agents[i].role /\ agents'[i].num = agents[i].num
      BY <1>4, <2>1
    <3>2. agents'[k].role = agents[k].role /\ agents'[k].num = agents[k].num
      BY <1>4, <2>1
    <3> QED
      BY <1>1, <2>1, <3>1, <3>2 DEF AgentsOK
  <2>2. CASE i = n + 1 /\ k \in 1..n
    BY SMTT(60), <1>1, <1>2, <1>3, <1>4, <2>2 DEF AgentType
  <2>3. CASE k = n + 1 /\ i \in 1..n
    BY <1>1, <1>2, <1>3, <1>4, <2>3 DEF AgentType
  <2>4. CASE i = n + 1 /\ k = n + 1
    BY <2>4
  <2>5. (i \in 1..n \/ i = n + 1) /\ (k \in 1..n \/ k = n + 1)
    BY <1>1
  <2> QED
    BY <2>1, <2>2, <2>3, <2>4, <2>5
<1>9. \A i \in 1..(n + 1) : agents'[i].merge # "none" =>
          agents'[i].state = "done" /\ agents'[i].task # NoSubtask
  BY <1>1, <1>3, <1>4 DEF AgentsOK
<1>10. \A i, k \in 1..(n + 1) :
          /\ agents'[i].task = agents'[k].task /\ agents'[i].task # NoSubtask
          /\ agents'[i].round = agents'[k].round /\ i # k
          => agents'[i].state = "failed" \/ agents'[k].state = "failed"
  <2> TAKE i, k \in 1..(n + 1)
  <2>1. CASE i \in 1..n /\ k \in 1..n
    BY <1>1, <1>4, <2>1 DEF AgentsOK
  <2>2. CASE i = n + 1 /\ k \in 1..n
    BY <1>1, <1>3, <1>4, <2>2
  <2>3. CASE k = n + 1 /\ i \in 1..n
    BY <1>1, <1>3, <1>4, <2>3
  <2> QED
    BY <1>1, <2>1, <2>2, <2>3
<1>11. RunningKeepsItsResources'
  BY <1>1, <1>3, <1>4 DEF RunningKeepsItsResources, AgentsOK
<1>12. AgentsOK'
  BY <1>4, <1>6, <1>7, <1>8, <1>9, <1>10, <1>11 DEF AgentsOK
<1>13. /\ \A s : s # t => Takers(s)' = Takers(s)
       /\ Takers(t)' = Takers(t) \cup {n + 1}
  BY <1>1, <1>3, <1>4 DEF Takers
<1>14. Cardinality(Takers(t)') = Cardinality(Takers(t)) + 1
  <2>1. IsFiniteSet(Takers(t)) /\ n + 1 \notin Takers(t)
    BY <1>5
  <2>2. Cardinality(Takers(t) \cup {n + 1}) = Cardinality(Takers(t)) + 1
    BY <2>1, FS_AddElement
  <2>3. Takers(t)' = Takers(t) \cup {n + 1}
    BY <1>13
  <2> QED
    BY <2>2, <2>3
<1> QED
  BY <1>3, <1>4, <1>12, <1>13, <1>14

(* What is behind us in the round stays so while no agent changes what it did. *)
LEMMA WorkStays ==
    ASSUME Len(agents) \in Nat, Len(agents') \in Nat, Len(agents') >= Len(agents), round' = round,
           \A i \in 1..Len(agents) :
              /\ agents'[i].task = agents[i].task /\ agents'[i].round = agents[i].round
              /\ agents'[i].state = agents[i].state
              /\ agents[i].merge # "none" => agents'[i].merge # "none",
           MaxRespawns \in Nat, attempts \in [Tasks -> Nat], attempts' \in [Tasks -> Nat],
           \A d \in Tasks : attempts'[d] >= attempts[d]
    PROVE  /\ \A d : Put(d) => Put(d)'
           /\ \A d : \/ d \in Tasks /\ attempts[d] > MaxRespawns
                     \/ \E k \in 1..Len(agents) :
                           agents[k].task = d /\ agents[k].round = round /\ agents[k].state = "done"
                  => \/ d \in Tasks /\ attempts'[d] > MaxRespawns
                     \/ \E k \in 1..Len(agents') :
                           agents'[k].task = d /\ agents'[k].round = round' /\ agents'[k].state = "done"
<1>1. \A k \in 1..Len(agents) : k \in 1..Len(agents')
  OBVIOUS
<1>2. \A d \in Tasks : attempts[d] > MaxRespawns => attempts'[d] > MaxRespawns
  OBVIOUS
<1>3. ASSUME NEW d, Put(d) PROVE Put(d)'
  <2>1. CASE d \in Tasks /\ attempts[d] > MaxRespawns
    BY <1>2, <2>1 DEF Put
  <2>2. CASE \E k \in 1..Len(agents) :
                agents[k].task = d /\ agents[k].round = round /\ agents[k].merge # "none"
    <3>1. PICK k \in 1..Len(agents) :
                agents[k].task = d /\ agents[k].round = round /\ agents[k].merge # "none"
      BY <2>2
    <3>2. k \in 1..Len(agents') /\ agents'[k].task = d /\ agents'[k].round = round'
          /\ agents'[k].merge # "none"
      BY <1>1, <3>1
    <3> QED
      BY <3>2 DEF Put
  <2> QED
    BY <1>3, <2>1, <2>2 DEF Put
<1>4. ASSUME NEW d,
             \/ d \in Tasks /\ attempts[d] > MaxRespawns
             \/ \E k \in 1..Len(agents) :
                   agents[k].task = d /\ agents[k].round = round /\ agents[k].state = "done"
      PROVE  \/ d \in Tasks /\ attempts'[d] > MaxRespawns
             \/ \E k \in 1..Len(agents') :
                   agents'[k].task = d /\ agents'[k].round = round' /\ agents'[k].state = "done"
  <2>1. CASE d \in Tasks /\ attempts[d] > MaxRespawns
    BY <1>2, <2>1
  <2>2. CASE \E k \in 1..Len(agents) :
                agents[k].task = d /\ agents[k].round = round /\ agents[k].state = "done"
    <3>1. PICK k \in 1..Len(agents) :
                agents[k].task = d /\ agents[k].round = round /\ agents[k].state = "done"
      BY <2>2
    <3>2. k \in 1..Len(agents') /\ agents'[k].task = d /\ agents'[k].round = round'
          /\ agents'[k].state = "done"
      BY <1>1, <3>1
    <3> QED
      BY <3>2
  <2> QED
    BY <1>4, <2>1, <2>2
<1> QED
  BY <1>3, <1>4

(* A ready subtask of the wave gets its agent. *)
LEMMA SpawnInv == ASSUME IInv, NEW t \in Tasks, Spawn(t) PROVE IInv'
<1> DEFINE n == Len(agents)
           m == Len(wave)
<1>1. /\ TypeOK /\ AgentsOK /\ ControlOK /\ AloneOK /\ RunningOK /\ WaveOK /\ SettledOK /\ CountsOK
      /\ DependenciesOK /\ WaitsOK /\ DOMAIN agents = 1..n /\ n \in Nat /\ m \in Nat
      /\ MaxRespawns \in Nat /\ NoSubtask \notin Tasks
      /\ \A i \in 1..n : agents[i] \in AgentType
  BY Facts
<1>2. /\ pc = "spawn" /\ pc' = "spawn" /\ t \in queue /\ queue' = queue \ {t}
      /\ ~AtCap /\ RoleOf[t] \in Roles
      /\ agents' = Append(agents, NewAgent(RoleOf[t], t)) /\ wave' = Append(wave, n + 1)
      /\ UNCHANGED <<attempts, round, waits, cursor, remaining, completed, gatePassed>>
  <2>1. RoleOf[t] # NoRole /\ RoleOf[t] \in Roles \cup {NoRole}
    BY Facts DEF Spawn
  <2> QED
    BY <2>1 DEF Spawn, IsNext, missionVars
<1>3. Unspawned = remaining \cup queue /\ Unspawned' = Unspawned \ {t} /\ t \in Unspawned
  BY <1>1, <1>2 DEF Unspawned, InRound, InWave, ControlOK
<1>4. \A i \in 1..n : agents[i].task = t => agents[i].round < round
  BY <1>1, <1>3 DEF CountsOK
<1>5. round \in Nat /\ attempts \in [Tasks -> Nat] /\ \A i \in 1..n : agents[i].round \in Nat
  BY <1>1 DEF TypeOK, AgentType
<1>6. \A i \in 1..n : ~ (agents[i].task = t /\ agents[i].round = round)
  BY <1>4, <1>5
<1>7. /\ AgentsOK' /\ agents' \in Seq(AgentType) /\ Len(agents') = n + 1
      /\ \A i \in 1..n : agents'[i] = agents[i]
      /\ agents'[n + 1].task = t /\ agents'[n + 1].round = round
      /\ agents'[n + 1].tree /\ agents'[n + 1].merge = "none" /\ agents'[n + 1].state = "running"
      /\ \A s : s # t => Takers(s)' = Takers(s)
      /\ Cardinality(Takers(t)') = Cardinality(Takers(t)) + 1
  <2>1. agents \in Seq(AgentType)
    BY <1>1 DEF TypeOK
  <2> QED
    BY <1>2, <1>6, <2>1, AgentJoins
<1>8. /\ wave' \in Seq(Nat) /\ Len(wave') = m + 1 /\ wave'[m + 1] = n + 1
      /\ \A k \in 1..m : wave'[k] = wave[k]
      /\ \A k \in 1..m : wave[k] \in 1..n /\ agents[wave[k]].task # NoSubtask
                         /\ agents[wave[k]].round = round /\ agents[wave[k]].tree
                         /\ agents[wave[k]].merge = "none" /\ agents[wave[k]].task # t
  <2>1. wave \in Seq(Nat) /\ n + 1 \in Nat
    BY <1>1 DEF TypeOK
  <2>2. \A k \in 1..m : wave[k] \in 1..n /\ agents[wave[k]].task # NoSubtask
                         /\ agents[wave[k]].round = round /\ agents[wave[k]].tree
                         /\ agents[wave[k]].merge = "none"
    BY <1>1, <1>2 DEF WaveOK, InWave
  <2> QED
    BY <1>1, <1>2, <1>6, <2>1, <2>2
<1>9. cursor = 1
  BY <1>1, <1>2 DEF ControlOK
<1>10. TypeOK'
  BY <1>1, <1>2, <1>7, <1>8 DEF TypeOK
<1>11. ControlOK'
  BY <1>1, <1>2 DEF ControlOK, InRound, InWave
<1>12. AloneOK'
  <2>1. \A k, l \in 1..(m + 1) : agents'[wave'[k]].task = agents'[wave'[l]].task => k = l
    <3> TAKE k, l \in 1..(m + 1)
    <3>1. CASE k \in 1..m /\ l \in 1..m
      <4>1. agents'[wave'[k]].task = agents[wave[k]].task /\ agents'[wave'[l]].task = agents[wave[l]].task
        BY SMTT(60), <1>7, <1>8, <3>1
      <4> QED
        BY <1>1, <1>2, <1>9, <3>1, <4>1 DEF AloneOK
    <3>2. CASE k = m + 1 /\ l \in 1..m
      <4>1. agents'[wave'[l]].task # t /\ agents'[wave'[k]].task = t
        BY SMTT(60), <1>7, <1>8, <3>2
      <4> QED
        BY <4>1
    <3>3. CASE l = m + 1 /\ k \in 1..m
      <4>1. agents'[wave'[k]].task # t /\ agents'[wave'[l]].task = t
        BY <1>7, <1>8, <3>3
      <4> QED
        BY <4>1
    <3>4. CASE k = m + 1 /\ l = m + 1
      BY <3>4
    <3>5. (k \in 1..m \/ k = m + 1) /\ (l \in 1..m \/ l = m + 1)
      BY <1>1
    <3> QED
      BY <3>1, <3>2, <3>3, <3>4, <3>5
  <2>2. ASSUME NEW k \in 1..(m + 1), NEW i \in 1..(n + 1),
               agents'[i].task = agents'[wave'[k]].task, agents'[i].round = round, i # wave'[k]
        PROVE  agents'[i].state = "failed"
    <3>1. CASE k \in 1..m /\ i \in 1..n
      <4>1. /\ agents'[i] = agents[i] /\ agents'[wave'[k]] = agents[wave[k]] /\ wave'[k] = wave[k]
        BY SMTT(60), <1>7, <1>8, <3>1
      <4> QED
        BY <1>1, <1>2, <1>9, <2>2, <3>1, <4>1 DEF AloneOK
    <3>2. CASE k \in 1..m /\ i = n + 1
      <4>1. wave'[k] = wave[k] /\ wave[k] \in 1..n /\ agents[wave[k]].task # t
        BY <1>8, <3>2
      <4>2. agents'[wave'[k]].task # t
        BY <1>7, <4>1
      <4>3. agents'[i].task = t
        BY <1>7, <3>2
      <4> QED
        BY <2>2, <4>2, <4>3
    <3>3. CASE k = m + 1 /\ i \in 1..n
      <4>1. agents[i].task = t /\ agents[i].round = round
        BY <1>7, <1>8, <2>2, <3>3
      <4> QED
        BY <1>6, <3>3, <4>1
    <3>4. CASE k = m + 1 /\ i = n + 1
      BY <1>8, <2>2, <3>4
    <3>5. (k \in 1..m \/ k = m + 1) /\ (i \in 1..n \/ i = n + 1)
      BY <1>1
    <3> QED
      BY <3>1, <3>2, <3>3, <3>4, <3>5
  <2> QED
    BY SMTT(60), <1>2, <1>7, <1>8, <1>9, <2>1, <2>2 DEF AloneOK
<1>13. RunningOK'
  <2>1. \A i \in 1..(n + 1) : agents'[i].state = "running" => \E k \in 1..(m + 1) : wave'[k] = i
    <3>1. \A i \in 1..n : agents'[i].state = "running" => \E k \in 1..m : wave'[k] = i
      BY <1>1, <1>2, <1>7, <1>8, <1>9 DEF RunningOK, ToAwait
    <3> QED
      BY <1>1, <1>8, <3>1
  <2> QED
    BY <1>2, <1>7, <1>8, <1>9, <2>1 DEF RunningOK, ToAwait
<1>14. WaveOK'
  <2>1. \A k \in 1..(m + 1) :
          /\ wave'[k] \in 1..(n + 1)
          /\ agents'[wave'[k]].task # NoSubtask /\ agents'[wave'[k]].round = round
          /\ agents'[wave'[k]].tree /\ agents'[wave'[k]].merge = "none"
    <3> TAKE k \in 1..(m + 1)
    <3>1. CASE k \in 1..m
      <4>1. wave'[k] = wave[k] /\ wave[k] \in 1..n /\ agents'[wave[k]] = agents[wave[k]]
        BY <1>7, <1>8, <3>1
      <4> QED
        BY <1>1, <1>8, <3>1, <4>1
    <3>2. CASE k = m + 1
      BY <1>1, <1>7, <1>8, <3>2
    <3> QED
      BY <1>1, <3>1, <3>2
  <2> QED
    BY <1>2, <1>7, <1>8, <2>1 DEF WaveOK
<1>15. SettledOK'
  <2>1. ASSUME NEW i \in 1..(n + 1), \A k \in 1..(m + 1) : wave'[k] # i
        PROVE  i \in 1..n /\ \A k \in 1..m : wave[k] # i
    <3>1. i # n + 1 /\ \A k \in 1..m : wave'[k] # i
      BY <1>1, <1>8, <2>1
    <3> QED
      BY <1>1, <1>8, <3>1
  <2>2. \A i \in 1..n : Settled(i) => Settled(i)'
    BY <1>7 DEF Settled
  <2>3. \A i \in 1..n : agents[i].task # NoSubtask /\ (\A k \in 1..m : wave[k] # i) => Settled(i)
    BY <1>1, <1>2 DEF SettledOK, InWave
  <2>4. \A i \in 1..n : agents'[i].task = agents[i].task
    BY <1>7
  <2>5. ASSUME NEW i \in 1..(n + 1), agents'[i].task # NoSubtask, \A k \in 1..(m + 1) : wave'[k] # i
        PROVE  Settled(i)'
    BY <2>1, <2>2, <2>3, <2>4, <2>5
  <2> QED
    BY <1>2, <1>7, <1>8, <2>5 DEF SettledOK, BetweenWaves
<1>16. CountsOK'
  <2>1. \A i \in 1..(n + 1) : agents'[i].round <= round
    BY <1>1, <1>5, <1>7 DEF CountsOK
  <2>2. ASSUME NEW s \in Unspawned', NEW i \in 1..(n + 1), agents'[i].task = s
        PROVE  agents'[i].round < round
    BY <1>1, <1>3, <1>7, <2>2 DEF CountsOK
  <2>3. ASSUME NEW s \in Tasks
        PROVE  Cardinality(Takers(s)') <=
                 round + (IF attempts[s] <= MaxRespawns THEN attempts[s] ELSE MaxRespawns)
                       + (IF s \in Unspawned' THEN 0 ELSE 1)
    <3>1. Cardinality(Takers(s)) \in Nat
      BY <1>1, TakersAreFinite DEF TypeOK
    <3>2. Cardinality(Takers(s)) <=
                 round + (IF attempts[s] <= MaxRespawns THEN attempts[s] ELSE MaxRespawns)
                       + (IF s \in Unspawned THEN 0 ELSE 1)
      BY <1>1 DEF CountsOK
    <3>3. CASE s = t
      BY <1>1, <1>3, <1>5, <1>7, <3>1, <3>2, <3>3
    <3>4. CASE s # t
      BY <1>3, <1>7, <3>2, <3>4
    <3> QED
      BY <3>3, <3>4
  <2> QED
    BY <1>2, <1>7, <2>1, <2>2, <2>3 DEF CountsOK
<1>17. /\ \A d : Put(d) => Put(d)'
       /\ \A d : \/ d \in Tasks /\ attempts[d] > MaxRespawns
                 \/ \E k \in 1..Len(agents) :
                       agents[k].task = d /\ agents[k].round = round /\ agents[k].state = "done"
              => \/ d \in Tasks /\ attempts'[d] > MaxRespawns
                 \/ \E k \in 1..Len(agents') :
                       agents'[k].task = d /\ agents'[k].round = round' /\ agents'[k].state = "done"
  <2>1. \A d \in Tasks : attempts'[d] >= attempts[d]
    BY <1>2, <1>5
  <2> QED
    BY <1>1, <1>2, <1>5, <1>7, <2>1, WorkStays
<1>18. DependenciesOK'
  <2>1. \A s \in queue : \A d \in DependsOn[s] : Put(d)'
    BY <1>1, <1>2, <1>17 DEF DependenciesOK
  <2>2. \A k \in 1..(m + 1) : \A d \in DependsOn[agents'[wave'[k]].task] : Put(d)'
    <3>1. \A k \in 1..m : \A d \in DependsOn[agents[wave[k]].task] : Put(d)'
      BY <1>1, <1>2, <1>17 DEF DependenciesOK
    <3>2. \A k \in 1..m : agents'[wave'[k]] = agents[wave[k]]
      BY <1>7, <1>8
    <3> QED
      BY <1>1, <1>2, <1>7, <1>8, <2>1, <3>1, <3>2
  <2>3. DependenciesComeFirst'
    <3>1. ASSUME NEW i \in 1..(n + 1), agents'[i].state = "running", agents'[i].task # NoSubtask,
                 NEW d \in DependsOn[agents'[i].task]
          PROVE  Put(d)'
      <4>1. \E k \in 1..(m + 1) : wave'[k] = i
        BY <1>2, <1>7, <1>8, <1>9, <1>13, <3>1 DEF RunningOK, ToAwait
      <4> QED
        BY <2>2, <3>1, <4>1
    <3>2. DOMAIN agents' = 1..(n + 1)
      BY <1>7
    <3> QED
      BY <1>2, <3>1, <3>2 DEF DependenciesComeFirst, Put
  <2>4. \A d \in completed' : \/ d \in Tasks /\ attempts'[d] > MaxRespawns
                 \/ \E k \in 1..Len(agents') :
                       agents'[k].task = d /\ agents'[k].round = round' /\ agents'[k].state = "done"
    BY <1>1, <1>2, <1>17 DEF DependenciesOK, InRound, InWave
  <2> QED
    BY <1>2, <1>8, <2>1, <2>2, <2>3, <2>4 DEF DependenciesOK
<1>19. WaitsOK'
  BY <1>1, <1>2, <1>7 DEF WaitsOK
<1> QED
  BY <1>7, <1>10, <1>11, <1>12, <1>13, <1>14, <1>15, <1>16, <1>18, <1>19 DEF IInv

(* A capability's provider: an agent of no subtask, and the only one that runs. *)
LEMMA SpawnProviderInv == ASSUME IInv, SpawnProvider PROVE IInv'
<1> DEFINE n == Len(agents)
<1>1. /\ TypeOK /\ AgentsOK /\ ControlOK /\ RunningOK /\ WaveOK /\ SettledOK /\ CountsOK
      /\ DependenciesOK /\ WaitsOK /\ n \in Nat /\ DOMAIN agents = 1..n
      /\ MaxRespawns \in Nat /\ NoSubtask \notin Tasks
      /\ \A i \in 1..n : agents[i] \in AgentType
  BY Facts
<1>2. PICK r \in Roles : ~AtCap /\ agents' = Append(agents, NewAgent(r, NoSubtask))
  BY DEF SpawnProvider
<1>3. /\ pc = "capability" /\ pc' = "capAwait" /\ capAgent' = n + 1
      /\ UNCHANGED <<attempts, round, waits, wave, cursor, queue, remaining, completed, gatePassed>>
  BY DEF SpawnProvider, waveVars, missionVars
<1>4. /\ AgentsOK' /\ agents' \in Seq(AgentType) /\ Len(agents') = n + 1
      /\ \A i \in 1..n : agents'[i] = agents[i]
      /\ agents'[n + 1].task = NoSubtask /\ agents'[n + 1].round = round
      /\ \A s : s # NoSubtask => Takers(s)' = Takers(s)
  <2>1. agents \in Seq(AgentType) /\ round' = round
    BY <1>1, <1>3 DEF TypeOK
  <2> QED
    BY <1>2, <2>1, AgentJoins
<1>5. TypeOK' /\ ControlOK'
  BY <1>1, <1>3, <1>4 DEF TypeOK, ControlOK, InRound, InWave
<1>6. AloneOK' /\ RunningOK' /\ WaitsOK'
  BY <1>1, <1>3, <1>4 DEF AloneOK, RunningOK, WaitsOK
<1>7. WaveOK'
  BY <1>1, <1>3, <1>4 DEF WaveOK, InWave
<1>8. SettledOK'
  <2>1. \A i \in 1..n : Settled(i) => Settled(i)'
    BY <1>4 DEF Settled
  <2>2. \A i \in 1..n : agents[i].task # NoSubtask /\ (\A k \in 1..Len(wave) : wave[k] # i) => Settled(i)
    BY <1>1, <1>3 DEF SettledOK, InWave
  <2>3. ASSUME NEW i \in 1..(n + 1), agents'[i].task # NoSubtask, \A k \in 1..Len(wave) : wave[k] # i
        PROVE  Settled(i)'
    <3>1. i \in 1..n /\ agents'[i].task = agents[i].task
      BY <1>1, <1>4, <2>3
    <3> QED
      BY <2>1, <2>2, <2>3, <3>1
  <2> QED
    BY <1>3, <1>4, <2>3 DEF SettledOK, BetweenWaves
<1>9. CountsOK'
  <2>1. Unspawned' = Unspawned /\ Unspawned \subseteq Tasks /\ round \in Nat
    BY <1>1, <1>3 DEF Unspawned, InRound, InWave, TypeOK
  <2>2. \A s \in Tasks : Takers(s)' = Takers(s)
    BY <1>1, <1>4
  <2>3. \A i \in 1..(n + 1) : agents'[i].round <= round
    BY <1>1, <1>4, <2>1 DEF CountsOK
  <2>4. ASSUME NEW s \in Unspawned', NEW i \in 1..(n + 1), agents'[i].task = s
        PROVE  agents'[i].round < round
    <3>1. i \in 1..n /\ agents'[i] = agents[i]
      BY <1>1, <1>4, <2>1, <2>4
    <3> QED
      BY <1>1, <2>1, <2>4, <3>1 DEF CountsOK
  <2>5. \A s \in Tasks : Cardinality(Takers(s)') <=
            round + (IF attempts[s] <= MaxRespawns THEN attempts[s] ELSE MaxRespawns)
                  + (IF s \in Unspawned' THEN 0 ELSE 1)
    BY <1>1, <2>1, <2>2 DEF CountsOK
  <2> QED
    BY <1>3, <1>4, <2>3, <2>4, <2>5 DEF CountsOK
<1>10. DependenciesOK'
  <2>1. \A i \in 1..n : agents[i].state # "running"
    BY <1>1, <1>3 DEF RunningOK
  <2>2. DependenciesComeFirst'
    BY <1>1, <1>4, <2>1 DEF DependenciesComeFirst
  <2>3. \A d \in completed : \/ d \in Tasks /\ attempts[d] > MaxRespawns
                 \/ \E k \in 1..n :
                       agents[k].task = d /\ agents[k].round = round /\ agents[k].state = "done"
    BY <1>1, <1>3 DEF DependenciesOK, InRound, InWave
  <2>4. \A k \in 1..n : k \in 1..(n + 1) /\ agents'[k] = agents[k]
    BY <1>1, <1>4
  <2>5. \A d \in completed : \/ d \in Tasks /\ attempts[d] > MaxRespawns
                 \/ \E k \in 1..(n + 1) :
                       agents'[k].task = d /\ agents'[k].round = round /\ agents'[k].state = "done"
    BY <2>3, <2>4
  <2> QED
    BY <1>3, <1>4, <2>2, <2>5 DEF DependenciesOK
<1> QED
  BY <1>4, <1>5, <1>6, <1>7, <1>8, <1>9, <1>10 DEF IInv

-----------------------------------------------------------------------------
(* The awaited agent failed *)

(* What a released, cleaned up, ended or merged agent has become. *)
LEMMA ChangedAgent ==
    ASSUME NEW x \in AgentType
    PROVE  /\ LET a == [x EXCEPT !.leases = FALSE]
              IN  /\ a \in AgentType /\ a.role = x.role /\ a.num = x.num /\ a.task = x.task
                  /\ a.round = x.round /\ a.state = x.state /\ a.active = x.active
                  /\ a.tree = x.tree /\ a.merge = x.merge /\ a.leases = FALSE
           /\ LET a == [x EXCEPT !.active = FALSE, !.tree = FALSE, !.leases = FALSE]
              IN  /\ a \in AgentType /\ a.role = x.role /\ a.num = x.num /\ a.task = x.task
                  /\ a.round = x.round /\ a.state = x.state /\ a.merge = x.merge
                  /\ a.active = FALSE /\ a.tree = FALSE /\ a.leases = FALSE
           /\ \A o \in {"done", "failed"} :
              LET a == [x EXCEPT !.state = o]
              IN  /\ a \in AgentType /\ a.role = x.role /\ a.num = x.num /\ a.task = x.task
                  /\ a.round = x.round /\ a.state = o /\ a.active = x.active
                  /\ a.tree = x.tree /\ a.leases = x.leases /\ a.merge = x.merge
           /\ \A o \in {"conflict", "merged"} :
              LET a == [x EXCEPT !.merge = o]
              IN  /\ a \in AgentType /\ a.role = x.role /\ a.num = x.num /\ a.task = x.task
                  /\ a.round = x.round /\ a.state = x.state /\ a.active = x.active
                  /\ a.tree = x.tree /\ a.leases = x.leases /\ a.merge = o
BY DEF AgentType

(* What both outcomes of a failure start from: who failed, and that nobody else works on its
   subtask. *)
LEMMA FailureFacts ==
    ASSUME IInv, TakeFailure
    PROVE  LET n == Len(agents)
               m == Len(wave)
               i == wave[cursor]
               t == agents[i].task
               released == [agents EXCEPT ![i].leases = FALSE]
               retry == attempts[t] < MaxRespawns
               respawn == retry /\ ~AtCap
           IN  /\ pc = "await" /\ pc' = "await" /\ cursor \in 1..m /\ cursor' = cursor + 1 /\ queue = {}
               /\ i \in 1..n /\ t \in Tasks /\ agents[i].round = round /\ agents[i].state = "failed"
               /\ attempts' \in [Tasks -> Nat] /\ attempts'[t] = attempts[t] + 1
               /\ \A d \in Tasks : attempts'[d] >= attempts[d] /\ (d # t => attempts'[d] = attempts[d])
               /\ completed' = IF retry THEN completed ELSE completed \cup {t}
               /\ agents' = IF respawn THEN Append(released, NewAgent(agents[i].role, t)) ELSE released
               /\ wave' = IF respawn THEN Append(wave, n + 1) ELSE wave
               /\ waits' = WithoutAgent(i)
               /\ UNCHANGED <<round, remaining, queue, capAgent, gatePassed>>
               /\ released \in Seq(AgentType) /\ Len(released) = n
               /\ \A k \in 1..n :
                    /\ released[k].role = agents[k].role /\ released[k].num = agents[k].num
                    /\ released[k].task = agents[k].task /\ released[k].round = agents[k].round
                    /\ released[k].state = agents[k].state /\ released[k].active = agents[k].active
                    /\ released[k].tree = agents[k].tree /\ released[k].merge = agents[k].merge
                    /\ ~agents[k].leases => ~released[k].leases
                    /\ agents[k].state = "running" => released[k] = agents[k]
               /\ \A k \in 1..n : agents[k].task = t /\ agents[k].round = round => agents[k].state = "failed"
               /\ \A k \in (cursor + 1)..m : agents[wave[k]].task # t
               /\ t \notin Unspawned
<1> DEFINE n == Len(agents)
           m == Len(wave)
           i == wave[cursor]
           t == agents[i].task
           released == [agents EXCEPT ![i].leases = FALSE]
<1>1. /\ TypeOK /\ ControlOK /\ AloneOK /\ WaveOK /\ CountsOK /\ n \in Nat /\ m \in Nat
      /\ DOMAIN agents = 1..n /\ NoSubtask \notin Tasks /\ \A k \in 1..n : agents[k] \in AgentType
  BY Facts
<1>2. pc = "await" /\ pc' = "await" /\ cursor \in 1..m /\ cursor' = cursor + 1 /\ queue = {}
      /\ agents[i].state = "failed"
      /\ UNCHANGED <<round, remaining, queue, capAgent, gatePassed>>
  BY <1>1 DEF TakeFailure, TypeOK, ControlOK, InRound, InWave, missionVars
<1>3. i \in 1..n /\ t # NoSubtask /\ agents[i].round = round
  BY <1>1, <1>2 DEF WaveOK, InWave
<1>4. t \in Tasks
  BY <1>1, <1>3 DEF AgentType
<1>5. /\ attempts' = [attempts EXCEPT ![t] = @ + 1]
      /\ completed' = IF attempts[t] < MaxRespawns THEN completed ELSE completed \cup {t}
      /\ agents' = IF attempts[t] < MaxRespawns /\ ~AtCap
                   THEN Append(released, NewAgent(agents[i].role, t)) ELSE released
      /\ wave' = IF attempts[t] < MaxRespawns /\ ~AtCap THEN Append(wave, n + 1) ELSE wave
      /\ waits' = WithoutAgent(i)
  BY DEF TakeFailure, Joined
<1>6. /\ attempts' \in [Tasks -> Nat] /\ attempts'[t] = attempts[t] + 1
      /\ \A d \in Tasks : attempts'[d] >= attempts[d] /\ (d # t => attempts'[d] = attempts[d])
  <2>1. attempts \in [Tasks -> Nat]
    BY <1>1 DEF TypeOK
  <2> QED
    BY <1>4, <1>5, <2>1
<1>7. /\ released \in Seq(AgentType) /\ Len(released) = n
      /\ \A k \in 1..n :
            /\ released[k].role = agents[k].role /\ released[k].num = agents[k].num
            /\ released[k].task = agents[k].task /\ released[k].round = agents[k].round
            /\ released[k].state = agents[k].state /\ released[k].active = agents[k].active
            /\ released[k].tree = agents[k].tree /\ released[k].merge = agents[k].merge
            /\ ~agents[k].leases => ~released[k].leases
            /\ agents[k].state = "running" => released[k] = agents[k]
  <2> DEFINE a == [agents[i] EXCEPT !.leases = FALSE]
  <2>1. /\ a.role = agents[i].role /\ a.num = agents[i].num /\ a.task = agents[i].task
        /\ a.round = agents[i].round /\ a.state = agents[i].state /\ a.active = agents[i].active
        /\ a.tree = agents[i].tree /\ a.merge = agents[i].merge /\ a.leases = FALSE /\ a \in AgentType
    <3>1. agents[i] \in AgentType
      BY <1>1, <1>3
    <3> QED
      BY <3>1, ChangedAgent
  <2>2. released = [agents EXCEPT ![i] = a]
    BY <1>1, <1>3
  <2>3. agents \in Seq(AgentType)
    BY <1>1 DEF TypeOK
  <2> HIDE DEF a, released
  <2>4. released \in Seq(AgentType) /\ Len(released) = n /\ released[i] = a
        /\ \A k \in 1..n : k # i => released[k] = agents[k]
    <3>1. i \in 1..n /\ a \in AgentType
      BY <1>3, <2>1
    <3> QED
      BY <1>1, <2>2, <2>3, <3>1
  <2>5. ASSUME NEW k \in 1..n
        PROVE  /\ released[k].role = agents[k].role /\ released[k].num = agents[k].num
               /\ released[k].task = agents[k].task /\ released[k].round = agents[k].round
               /\ released[k].state = agents[k].state /\ released[k].active = agents[k].active
               /\ released[k].tree = agents[k].tree /\ released[k].merge = agents[k].merge
               /\ ~agents[k].leases => ~released[k].leases
               /\ agents[k].state = "running" => released[k] = agents[k]
    BY <1>2, <2>1, <2>4
  <2> QED
    BY <2>4, <2>5
<1>8. \A k \in 1..n : agents[k].task = t /\ agents[k].round = round => agents[k].state = "failed"
  BY <1>1, <1>2 DEF AloneOK, TypeOK
<1>9. \A k \in (cursor + 1)..m : agents[wave[k]].task # t
  <2>1. cursor \in Nat /\ cursor \in cursor..m
    BY <1>1, <1>2 DEF TypeOK
  <2>2. \A k, l \in cursor..m : agents[wave[k]].task = agents[wave[l]].task => k = l
    BY <1>1, <1>2 DEF AloneOK
  <2>3. \A k \in (cursor + 1)..m : k \in cursor..m /\ k # cursor
    BY <1>1, <2>1
  <2> QED
    BY <2>1, <2>2, <2>3
<1>10. t \notin Unspawned
  <2>1. round \in Nat /\ agents[i].round = round
    BY <1>1, <1>3 DEF TypeOK
  <2> QED
    BY <1>1, <1>3, <2>1 DEF CountsOK
<1> HIDE DEF released
<1> QED
  BY <1>2, <1>3, <1>4, <1>5, <1>6, <1>7, <1>8, <1>9, <1>10 DEF released

(* What a failure changes, whether or not there is a respawn, keeps of the earlier work. *)
LEMMA FailureKeeps ==
    ASSUME IInv, TakeFailure, Len(agents') \in Nat, Len(agents') >= Len(agents),
           \A k \in 1..Len(agents) :
              /\ agents'[k].task = agents[k].task /\ agents'[k].round = agents[k].round
              /\ agents'[k].state = agents[k].state /\ agents'[k].merge = agents[k].merge
              /\ agents'[k].active = agents[k].active /\ agents'[k].tree = agents[k].tree
              /\ ~agents[k].leases => ~agents'[k].leases
    PROVE  /\ \A d : Put(d) => Put(d)'
           /\ \A d \in completed' :
                \/ d \in Tasks /\ attempts'[d] > MaxRespawns
                \/ \E k \in 1..Len(agents') :
                      agents'[k].task = d /\ agents'[k].round = round' /\ agents'[k].state = "done"
           /\ \A k \in 1..Len(agents) : Settled(k) => Settled(k)'
           /\ \A k : ToAwait(k) /\ k # wave[cursor] => \E l \in (cursor + 1)..Len(wave) : wave[l] = k
           /\ WaitsOK /\ \A e \in waits' :
                /\ e[1] \in 1..Len(agents)
                /\ agents[e[1]].task = NoSubtask \/ \E l \in (cursor + 1)..Len(wave) : wave[l] = e[1]
<1> DEFINE n == Len(agents)
           m == Len(wave)
           i == wave[cursor]
           t == agents[i].task
<1>1. /\ TypeOK /\ DependenciesOK /\ WaitsOK /\ n \in Nat /\ m \in Nat /\ MaxRespawns \in Nat
  BY Facts
<1>2. /\ pc = "await" /\ cursor \in 1..m /\ t \in Tasks /\ round' = round
      /\ attempts' \in [Tasks -> Nat] /\ attempts'[t] = attempts[t] + 1
      /\ \A d \in Tasks : attempts'[d] >= attempts[d]
      /\ completed' = IF attempts[t] < MaxRespawns THEN completed ELSE completed \cup {t}
      /\ waits' = WithoutAgent(i)
  BY FailureFacts
<1>3. attempts \in [Tasks -> Nat]
  BY <1>1 DEF TypeOK
<1>4. /\ \A d : Put(d) => Put(d)'
      /\ \A d : \/ d \in Tasks /\ attempts[d] > MaxRespawns
                \/ \E k \in 1..Len(agents) :
                      agents[k].task = d /\ agents[k].round = round /\ agents[k].state = "done"
             => \/ d \in Tasks /\ attempts'[d] > MaxRespawns
                \/ \E k \in 1..Len(agents') :
                      agents'[k].task = d /\ agents'[k].round = round' /\ agents'[k].state = "done"
  BY <1>1, <1>2, <1>3, WorkStays
<1>5. ASSUME NEW d \in completed'
      PROVE  \/ d \in Tasks /\ attempts'[d] > MaxRespawns
             \/ \E k \in 1..Len(agents') :
                   agents'[k].task = d /\ agents'[k].round = round' /\ agents'[k].state = "done"
  <2>1. CASE d \in completed
    BY <1>1, <1>2, <1>4, <2>1 DEF DependenciesOK, InRound, InWave
  <2>2. CASE d \notin completed
    <3>1. d = t /\ ~ (attempts[t] < MaxRespawns)
      BY <1>2, <1>5, <2>2
    <3>2. attempts[t] \in Nat
      BY <1>2, <1>3
    <3> QED
      BY <1>1, <1>2, <3>1, <3>2
  <2> QED
    BY <2>1, <2>2
<1>6. \A k \in 1..n : Settled(k) => Settled(k)'
  BY DEF Settled
<1>7. \A k : ToAwait(k) /\ k # i => \E l \in (cursor + 1)..m : wave[l] = k
  BY <1>1, <1>2 DEF ToAwait
<1>8. \A e \in waits' : /\ e[1] \in 1..n
                        /\ agents[e[1]].task = NoSubtask \/ \E l \in (cursor + 1)..m : wave[l] = e[1]
  <2> TAKE e \in waits'
  <2>1. e \in waits /\ e[1] # i
    BY <1>2 DEF WithoutAgent
  <2>2. e[1] \in 1..n /\ (agents[e[1]].task = NoSubtask \/ ToAwait(e[1]))
    BY <1>1, <1>2, <2>1 DEF WaitsOK
  <2> QED
    BY <1>7, <2>1, <2>2
<1> QED
  BY <1>1, <1>4, <1>5, <1>6, <1>7, <1>8

(* The failed agent is not followed by another: its respawns are used up or the cap is reached. *)
LEMMA GiveUpInv ==
    ASSUME IInv, TakeFailure,
           ~ (attempts[agents[wave[cursor]].task] < MaxRespawns /\ ~AtCap)
    PROVE  IInv'
<1> DEFINE n == Len(agents)
           m == Len(wave)
           i == wave[cursor]
           t == agents[i].task
<1>1. /\ TypeOK /\ AgentsOK /\ ControlOK /\ AloneOK /\ RunningOK /\ WaveOK /\ SettledOK /\ CountsOK
      /\ DependenciesOK /\ WaitsOK /\ n \in Nat /\ m \in Nat /\ DOMAIN agents = 1..n
      /\ MaxRespawns \in Nat /\ NoSubtask \notin Tasks
      /\ \A k \in 1..n : agents[k] \in AgentType
  BY Facts
<1>2. /\ pc = "await" /\ pc' = "await" /\ cursor \in 1..m /\ cursor' = cursor + 1 /\ queue = {}
      /\ i \in 1..n /\ t \in Tasks /\ agents[i].round = round /\ agents[i].state = "failed"
      /\ attempts' \in [Tasks -> Nat] /\ attempts'[t] = attempts[t] + 1
      /\ \A d \in Tasks : attempts'[d] >= attempts[d] /\ (d # t => attempts'[d] = attempts[d])
      /\ completed' = IF attempts[t] < MaxRespawns THEN completed ELSE completed \cup {t}
      /\ wave' = wave
      /\ UNCHANGED <<round, remaining, queue, capAgent, gatePassed>>
  BY FailureFacts
<1>3. /\ agents' \in Seq(AgentType) /\ Len(agents') = n
      /\ \A k \in 1..n :
            /\ agents'[k].role = agents[k].role /\ agents'[k].num = agents[k].num
            /\ agents'[k].task = agents[k].task /\ agents'[k].round = agents[k].round
            /\ agents'[k].state = agents[k].state /\ agents'[k].active = agents[k].active
            /\ agents'[k].tree = agents[k].tree /\ agents'[k].merge = agents[k].merge
            /\ ~agents[k].leases => ~agents'[k].leases
            /\ agents[k].state = "running" => agents'[k] = agents[k]
  <2> DEFINE released == [agents EXCEPT ![i].leases = FALSE]
  <2>1. agents' = released
    BY FailureFacts
  <2>2. /\ released \in Seq(AgentType) /\ Len(released) = n
        /\ \A k \in 1..n :
            /\ released[k].role = agents[k].role /\ released[k].num = agents[k].num
            /\ released[k].task = agents[k].task /\ released[k].round = agents[k].round
            /\ released[k].state = agents[k].state /\ released[k].active = agents[k].active
            /\ released[k].tree = agents[k].tree /\ released[k].merge = agents[k].merge
            /\ ~agents[k].leases => ~released[k].leases
            /\ agents[k].state = "running" => released[k] = agents[k]
    BY FailureFacts
  <2> HIDE DEF released
  <2> QED
    BY <2>1, <2>2
<1>4. /\ \A d : Put(d) => Put(d)'
      /\ \A d \in completed' :
                \/ d \in Tasks /\ attempts'[d] > MaxRespawns
                \/ \E k \in 1..Len(agents') :
                      agents'[k].task = d /\ agents'[k].round = round' /\ agents'[k].state = "done"
      /\ \A k \in 1..n : Settled(k) => Settled(k)'
      /\ \A k : ToAwait(k) /\ k # i => \E l \in (cursor + 1)..m : wave[l] = k
      /\ \A e \in waits' :
                /\ e[1] \in 1..n
                /\ agents[e[1]].task = NoSubtask \/ \E l \in (cursor + 1)..m : wave[l] = e[1]
  BY <1>1, <1>3, FailureKeeps
<1>5. TypeOK'
  BY SMTT(60), <1>1, <1>2, <1>3 DEF TypeOK
<1>6. ControlOK'
  BY <1>1, <1>2 DEF ControlOK, InRound, InWave
<1>7. DOMAIN agents' = 1..n
  BY <1>3
<1>8. AgentsOK'
  <2>1. Active' = Active
    BY <1>1, <1>3, <1>7 DEF Active
  <2>2. Cardinality(Active') <= MaxAgents
    BY <1>1, <2>1 DEF AgentsOK
  <2>3. RunningKeepsItsResources'
    BY <1>1, <1>3, <1>7 DEF AgentsOK, RunningKeepsItsResources
  <2>4. /\ \A k \in 1..n : agents'[k].num <= k
        /\ \A k, l \in 1..n :
              agents'[k].role = agents'[l].role /\ agents'[k].num = agents'[l].num => k = l
        /\ \A k \in 1..n : agents'[k].merge # "none" =>
              agents'[k].state = "done" /\ agents'[k].task # NoSubtask
    BY SMTT(60), <1>1, <1>3 DEF AgentsOK
  <2>5. \A k, l \in 1..n :
          /\ agents'[k].task = agents'[l].task /\ agents'[k].task # NoSubtask
          /\ agents'[k].round = agents'[l].round /\ k # l
          => agents'[k].state = "failed" \/ agents'[l].state = "failed"
    BY <1>1, <1>3 DEF AgentsOK
  <2> QED
    BY <1>3, <2>2, <2>3, <2>4, <2>5 DEF AgentsOK
<1>9. AloneOK'
  <2>1. \A k \in (cursor + 1)..m : k \in cursor..m /\ wave[k] \in 1..n
    BY <1>1, <1>2 DEF WaveOK, InWave
  <2>2. \A k, l \in (cursor + 1)..m : agents'[wave[k]].task = agents'[wave[l]].task => k = l
    BY SMTT(60), <1>1, <1>2, <1>3, <2>1 DEF AloneOK
  <2>3. ASSUME NEW k \in (cursor + 1)..m, NEW l \in 1..n,
               agents'[l].task = agents'[wave[k]].task, agents'[l].round = round, l # wave[k]
        PROVE  agents'[l].state = "failed"
    <3>1. agents[l].task = agents[wave[k]].task /\ agents[l].round = round
      BY <1>3, <2>1, <2>3
    <3>2. agents[l].state = "failed"
      BY <1>1, <1>2, <2>1, <2>3, <3>1 DEF AloneOK
    <3> QED
      BY <1>3, <3>2
  <2> QED
    BY <1>2, <1>3, <2>2, <2>3 DEF AloneOK
<1>10. RunningOK'
  <2>1. ASSUME NEW k \in 1..n, agents'[k].state = "running" PROVE \E l \in (cursor + 1)..m : wave[l] = k
    <3>1. ToAwait(k) /\ k # i
      BY <1>1, <1>2, <1>3, <2>1 DEF RunningOK
    <3> QED
      BY <1>4, <3>1
  <2> QED
    BY <1>2, <1>3, <2>1 DEF RunningOK, ToAwait
<1>11. WaveOK'
  BY <1>1, <1>2, <1>3 DEF WaveOK, InWave
<1>12. SettledOK'
  <2>1. \A k \in 1..n : agents[k].task # NoSubtask /\ (\A l \in 1..m : wave[l] # k) => Settled(k)
    BY <1>1, <1>2 DEF SettledOK, InWave
  <2>2. \A k \in 1..n : agents'[k].task # NoSubtask /\ (\A l \in 1..m : wave[l] # k) => Settled(k)'
    BY <1>3, <1>4, <2>1
  <2> QED
    BY <1>2, <1>3, <2>2 DEF SettledOK, BetweenWaves
<1>13. CountsOK'
  <2>1. Unspawned' = Unspawned /\ round \in Nat /\ attempts \in [Tasks -> Nat]
    BY <1>1, <1>2 DEF Unspawned, InRound, InWave, TypeOK
  <2>2. /\ \A k \in 1..n : agents'[k].round <= round
        /\ \A s \in Unspawned' : \A k \in 1..n : agents'[k].task = s => agents'[k].round < round
    BY SMTT(60), <1>1, <1>3, <2>1 DEF CountsOK
  <2>3. ASSUME NEW s \in Tasks
        PROVE  Cardinality(Takers(s)') <=
                 round + (IF attempts'[s] <= MaxRespawns THEN attempts'[s] ELSE MaxRespawns)
                       + (IF s \in Unspawned' THEN 0 ELSE 1)
    <3>1. Takers(s)' = Takers(s) /\ Cardinality(Takers(s)) \in Nat
      BY <1>1, <1>3, <1>7, TakersAreFinite DEF TypeOK, Takers
    <3>2. Cardinality(Takers(s)) <=
                 round + (IF attempts[s] <= MaxRespawns THEN attempts[s] ELSE MaxRespawns)
                       + (IF s \in Unspawned THEN 0 ELSE 1)
      BY <1>1 DEF CountsOK
    <3>3. attempts[s] \in Nat /\ attempts'[s] \in Nat /\ attempts'[s] >= attempts[s]
      BY <1>2, <2>1
    <3> QED
      BY SMTT(60), <1>1, <2>1, <3>1, <3>2, <3>3
  <2> QED
    BY <1>2, <1>3, <2>2, <2>3 DEF CountsOK
<1>14. DependenciesOK'
  <2>1. \A k \in 1..m : \A d \in DependsOn[agents[wave[k]].task] : Put(d)'
    BY <1>1, <1>2, <1>4 DEF DependenciesOK
  <2>2. \A k \in 1..m : wave[k] \in 1..n /\ agents'[wave[k]].task = agents[wave[k]].task
    BY <1>1, <1>2, <1>3 DEF WaveOK, InWave
  <2>3. \A k \in 1..m : \A d \in DependsOn[agents'[wave[k]].task] : Put(d)'
    BY <2>1, <2>2
  <2>4. DependenciesComeFirst'
    <3>1. ASSUME NEW k \in 1..n, agents'[k].state = "running", NEW d \in DependsOn[agents'[k].task]
          PROVE  Put(d)'
      <4>1. \E l \in 1..m : wave[l] = k
        BY SMTT(60), <1>1, <1>2, <1>3, <3>1 DEF RunningOK, ToAwait
      <4> QED
        BY <2>3, <3>1, <4>1
    <3> QED
      BY <1>3, <1>7, <3>1 DEF DependenciesComeFirst, Put
  <2> QED
    BY <1>2, <1>4, <2>3, <2>4 DEF DependenciesOK
<1>15. WaitsOK'
  <2>1. \A e \in waits' : e[1] \in 1..n /\ agents'[e[1]].task = agents[e[1]].task
    BY <1>3, <1>4
  <2> QED
    BY <1>2, <1>3, <1>4, <2>1 DEF WaitsOK, ToAwait
<1> QED
  BY <1>5, <1>6, <1>8, <1>9, <1>10, <1>11, <1>12, <1>13, <1>14, <1>15 DEF IInv

(* Another agent takes the failed agent's subtask over and joins the wave. *)
LEMMA RespawnInv ==
    ASSUME IInv, TakeFailure,
           attempts[agents[wave[cursor]].task] < MaxRespawns /\ ~AtCap
    PROVE  IInv'
<1> DEFINE n == Len(agents)
           m == Len(wave)
<1> PICK i \in 1..n, t \in Tasks : i = wave[cursor] /\ t = agents[i].task
  BY FailureFacts
<1> DEFINE released == [agents EXCEPT ![i].leases = FALSE]
<1>1. /\ TypeOK /\ AgentsOK /\ ControlOK /\ AloneOK /\ RunningOK /\ WaveOK /\ SettledOK /\ CountsOK
      /\ DependenciesOK /\ WaitsOK /\ n \in Nat /\ m \in Nat /\ DOMAIN agents = 1..n
      /\ MaxRespawns \in Nat /\ NoSubtask \notin Tasks
      /\ \A k \in 1..n : agents[k] \in AgentType
  BY Facts
<1>2. /\ pc = "await" /\ pc' = "await" /\ cursor \in 1..m /\ cursor' = cursor + 1 /\ queue = {}
      /\ i \in 1..n /\ t \in Tasks /\ agents[i].round = round /\ agents[i].state = "failed"
      /\ attempts' \in [Tasks -> Nat] /\ attempts'[t] = attempts[t] + 1
      /\ \A d \in Tasks : attempts'[d] >= attempts[d] /\ (d # t => attempts'[d] = attempts[d])
      /\ completed' = completed
      /\ wave' = Append(wave, n + 1)
      /\ UNCHANGED <<round, remaining, queue, capAgent, gatePassed>>
      /\ \A k \in 1..n : agents[k].task = t /\ agents[k].round = round => agents[k].state = "failed"
      /\ \A k \in (cursor + 1)..m : agents[wave[k]].task # t
      /\ t \notin Unspawned
  BY FailureFacts
<1>3. /\ released \in Seq(AgentType) /\ Len(released) = n
      /\ \A k \in 1..n :
            /\ released[k].role = agents[k].role /\ released[k].num = agents[k].num
            /\ released[k].task = agents[k].task /\ released[k].round = agents[k].round
            /\ released[k].state = agents[k].state /\ released[k].active = agents[k].active
            /\ released[k].tree = agents[k].tree /\ released[k].merge = agents[k].merge
            /\ ~agents[k].leases => ~released[k].leases
            /\ agents[k].state = "running" => released[k] = agents[k]
  <2> DEFINE freed == [agents EXCEPT ![wave[cursor]].leases = FALSE]
  <2>1. /\ freed \in Seq(AgentType) /\ Len(freed) = n
          /\ \A k \in 1..n :
            /\ freed[k].role = agents[k].role /\ freed[k].num = agents[k].num
            /\ freed[k].task = agents[k].task /\ freed[k].round = agents[k].round
            /\ freed[k].state = agents[k].state /\ freed[k].active = agents[k].active
            /\ freed[k].tree = agents[k].tree /\ freed[k].merge = agents[k].merge
            /\ ~agents[k].leases => ~freed[k].leases
            /\ agents[k].state = "running" => freed[k] = agents[k]
    BY FailureFacts
  <2>2. released = freed
    OBVIOUS
  <2> HIDE DEF freed, released
  <2> QED
    BY <2>1, <2>2
<1>4. agents' = Append(released, NewAgent(agents[i].role, t)) /\ agents[i].role \in Roles
  <2>1. agents[i] \in AgentType
    BY <1>1, <1>2
  <2> QED
    BY <2>1, FailureFacts DEF AgentType
<1> HIDE DEF released
<1>5. /\ AgentsOK' /\ agents' \in Seq(AgentType) /\ Len(agents') = n + 1
      /\ \A k \in 1..n : agents'[k] = released[k]
      /\ agents'[n + 1].task = t /\ agents'[n + 1].round = round
      /\ agents'[n + 1].tree /\ agents'[n + 1].merge = "none" /\ agents'[n + 1].state = "running"
      /\ \A s : s # t => Takers(s)' = Takers(s)
      /\ Cardinality(Takers(t)') = Cardinality(Takers(t)) + 1
  <2>1. ~AtCap /\ round' = round
    BY <1>2
  <2>2. \A k \in 1..n :
            /\ released[k].role = agents[k].role /\ released[k].num = agents[k].num
            /\ released[k].task = agents[k].task /\ released[k].round = agents[k].round
            /\ released[k].state = agents[k].state /\ released[k].active = agents[k].active
            /\ released[k].merge = agents[k].merge
            /\ agents[k].state = "running" => released[k] = agents[k]
    BY <1>3
  <2>3. PICK r \in Roles : agents' = Append(released, NewAgent(r, t))
    BY <1>4
  <2>4. \A k \in 1..n : agents[k].task = t /\ agents[k].round = round => agents[k].state = "failed"
    BY <1>2
  <2>5. PICK base \in Seq(AgentType) : base = released
    BY <1>3
  <2>6. /\ Len(base) = n /\ agents' = Append(base, NewAgent(r, t)) /\ t \in Tasks \cup {NoSubtask}
        /\ \A k \in 1..n :
            /\ base[k].role = agents[k].role /\ base[k].num = agents[k].num
            /\ base[k].task = agents[k].task /\ base[k].round = agents[k].round
            /\ base[k].state = agents[k].state /\ base[k].active = agents[k].active
            /\ base[k].merge = agents[k].merge
            /\ agents[k].state = "running" => base[k] = agents[k]
    BY <1>3, <2>2, <2>3, <2>5
  <2>7. /\ AgentsOK' /\ agents' \in Seq(AgentType) /\ Len(agents') = n + 1
        /\ \A k \in 1..n : agents'[k] = base[k]
        /\ agents'[n + 1].task = t /\ agents'[n + 1].round = round
        /\ agents'[n + 1].tree /\ agents'[n + 1].merge = "none" /\ agents'[n + 1].state = "running"
        /\ \A s : s # t => Takers(s)' = Takers(s)
        /\ Cardinality(Takers(t)') = Cardinality(Takers(t)) + 1
    BY SMTT(60), <2>1, <2>4, <2>6, AgentJoins
  <2> QED
    BY <2>5, <2>7
<1>6. \A k \in 1..n :
         /\ agents'[k].task = agents[k].task /\ agents'[k].round = agents[k].round
         /\ agents'[k].state = agents[k].state /\ agents'[k].merge = agents[k].merge
         /\ agents'[k].active = agents[k].active /\ agents'[k].tree = agents[k].tree
         /\ ~agents[k].leases => ~agents'[k].leases
  BY <1>3, <1>5
<1>7. /\ \A d : Put(d) => Put(d)'
      /\ \A d \in completed' :
                \/ d \in Tasks /\ attempts'[d] > MaxRespawns
                \/ \E k \in 1..Len(agents') :
                      agents'[k].task = d /\ agents'[k].round = round' /\ agents'[k].state = "done"
      /\ \A k \in 1..n : Settled(k) => Settled(k)'
      /\ \A k : ToAwait(k) /\ k # i => \E l \in (cursor + 1)..m : wave[l] = k
      /\ \A e \in waits' :
                /\ e[1] \in 1..n
                /\ agents[e[1]].task = NoSubtask \/ \E l \in (cursor + 1)..m : wave[l] = e[1]
  <2>1. Len(agents') \in Nat /\ Len(agents') >= Len(agents)
    BY <1>1, <1>5
  <2> QED
    BY <1>6, <2>1, FailureKeeps
<1>8. /\ wave' \in Seq(Nat) /\ Len(wave') = m + 1 /\ wave'[m + 1] = n + 1
      /\ \A k \in 1..m : wave'[k] = wave[k]
      /\ \A k \in 1..m : wave[k] \in 1..n /\ agents[wave[k]].task # NoSubtask
                         /\ agents[wave[k]].round = round /\ agents[wave[k]].tree
                         /\ agents[wave[k]].merge = "none"
      /\ cursor \in Nat /\ \A k \in (cursor + 1)..m : k \in 1..m /\ k \in cursor..m
  <2>1. wave \in Seq(Nat) /\ n + 1 \in Nat /\ cursor \in Nat \ {0}
    BY <1>1 DEF TypeOK
  <2>2. \A k \in 1..m : wave[k] \in 1..n /\ agents[wave[k]].task # NoSubtask
                         /\ agents[wave[k]].round = round /\ agents[wave[k]].tree
                         /\ agents[wave[k]].merge = "none"
    BY <1>1, <1>2 DEF WaveOK, InWave
  <2> QED
    BY <1>1, <1>2, <2>1, <2>2
<1>9. TypeOK'
  BY SMTT(60), <1>1, <1>2, <1>5, <1>8 DEF TypeOK
<1>10. ControlOK'
  BY <1>1, <1>2 DEF ControlOK, InRound, InWave
<1>11. \A k \in (cursor + 1)..m : /\ wave'[k] = wave[k] /\ wave[k] \in 1..n
                                  /\ agents'[wave[k]].task = agents[wave[k]].task
                                  /\ agents'[wave'[k]].task # t
  BY SMTT(60), <1>2, <1>6, <1>8
<1>12. AloneOK'
  <2>1. ASSUME NEW k \in (cursor + 1)..(m + 1), NEW l \in (cursor + 1)..(m + 1),
               agents'[wave'[k]].task = agents'[wave'[l]].task
        PROVE  k = l
    <3>1. CASE k \in (cursor + 1)..m /\ l \in (cursor + 1)..m
      <4>1. agents[wave[k]].task = agents[wave[l]].task
        BY <1>11, <2>1, <3>1
      <4> QED
        BY <1>1, <1>2, <1>8, <3>1, <4>1 DEF AloneOK
    <3>2. CASE k = m + 1 /\ l \in (cursor + 1)..m
      BY SMTT(60), <1>5, <1>8, <1>11, <2>1, <3>2
    <3>3. CASE l = m + 1 /\ k \in (cursor + 1)..m
      BY <1>5, <1>8, <1>11, <2>1, <3>3
    <3>4. CASE k = m + 1 /\ l = m + 1
      BY <3>4
    <3>5. (k \in (cursor + 1)..m \/ k = m + 1) /\ (l \in (cursor + 1)..m \/ l = m + 1)
      BY <1>1, <1>8
    <3> QED
      BY <3>1, <3>2, <3>3, <3>4, <3>5
  <2>2. ASSUME NEW k \in (cursor + 1)..(m + 1), NEW l \in 1..(n + 1),
               agents'[l].task = agents'[wave'[k]].task, agents'[l].round = round, l # wave'[k]
        PROVE  agents'[l].state = "failed"
    <3>1. CASE k \in (cursor + 1)..m /\ l \in 1..n
      <4>1. agents[l].task = agents[wave[k]].task /\ agents[l].round = round /\ l # wave[k]
        BY <1>6, <1>11, <2>2, <3>1
      <4>2. agents[l].state = "failed"
        BY <1>1, <1>2, <1>8, <3>1, <4>1 DEF AloneOK
      <4> QED
        BY <1>6, <3>1, <4>2
    <3>2. CASE k \in (cursor + 1)..m /\ l = n + 1
      BY <1>5, <1>11, <2>2, <3>2
    <3>3. CASE k = m + 1 /\ l \in 1..n
      <4>1. agents[l].task = t /\ agents[l].round = round
        BY SMTT(60), <1>5, <1>6, <1>8, <2>2, <3>3
      <4> QED
        BY <1>2, <1>6, <3>3, <4>1
    <3>4. CASE k = m + 1 /\ l = n + 1
      BY <1>8, <2>2, <3>4
    <3>5. (k \in (cursor + 1)..m \/ k = m + 1) /\ (l \in 1..n \/ l = n + 1)
      BY <1>1, <1>8
    <3> QED
      BY <3>1, <3>2, <3>3, <3>4, <3>5
  <2> QED
    <3>1. cursor' = cursor + 1 /\ Len(wave') = m + 1 /\ Len(agents') = n + 1 /\ round' = round
      BY <1>2, <1>5, <1>8
    <3> QED
      BY <2>1, <2>2, <3>1 DEF AloneOK
<1>13. RunningOK'
  <2>1. ASSUME NEW k \in 1..(n + 1), agents'[k].state = "running"
        PROVE  \E l \in (cursor + 1)..(m + 1) : wave'[l] = k
    <3>1. CASE k \in 1..n
      <4>1. ToAwait(k) /\ k # i
        BY <1>1, <1>2, <1>6, <2>1, <3>1 DEF RunningOK
      <4>2. PICK l \in (cursor + 1)..m : wave[l] = k
        BY <1>7, <4>1
      <4> QED
        BY <1>1, <1>8, <1>11, <4>2
    <3>2. CASE k = n + 1
      <4>1. m + 1 \in (cursor + 1)..(m + 1)
        BY <1>1, <1>2, <1>8
      <4> QED
        BY <1>8, <3>2, <4>1
    <3> QED
      BY <1>1, <3>1, <3>2
  <2> QED
    <3>1. cursor' = cursor + 1 /\ Len(wave') = m + 1 /\ Len(agents') = n + 1 /\ pc' = "await"
      BY <1>2, <1>5, <1>8
    <3> QED
      BY <2>1, <3>1 DEF RunningOK, ToAwait
<1>14. WaveOK'
  <2>1. \A k \in 1..(m + 1) :
          /\ wave'[k] \in 1..(n + 1)
          /\ agents'[wave'[k]].task # NoSubtask /\ agents'[wave'[k]].round = round
          /\ agents'[wave'[k]].tree /\ agents'[wave'[k]].merge = "none"
    <3> TAKE k \in 1..(m + 1)
    <3>1. CASE k \in 1..m
      <4>1. wave'[k] = wave[k] /\ wave[k] \in 1..n /\ wave[k] \in 1..(n + 1)
        <5>1. wave'[k] = wave[k] /\ wave[k] \in 1..n
          BY <1>8, <3>1
        <5> QED
          BY <1>1, <5>1
      <4>2. /\ agents[wave[k]].task # NoSubtask /\ agents[wave[k]].round = round
            /\ agents[wave[k]].tree /\ agents[wave[k]].merge = "none"
        BY <1>8, <3>1
      <4>3. /\ agents'[wave[k]].task = agents[wave[k]].task /\ agents'[wave[k]].round = agents[wave[k]].round
            /\ agents'[wave[k]].tree = agents[wave[k]].tree /\ agents'[wave[k]].merge = agents[wave[k]].merge
        BY <1>6, <4>1
      <4> QED
        BY <4>1, <4>2, <4>3
    <3>2. CASE k = m + 1
      BY <1>1, <1>2, <1>5, <1>8, <3>2
    <3> QED
      BY <1>1, <3>1, <3>2
  <2> QED
    BY <1>2, <1>5, <1>8, <2>1 DEF WaveOK
<1>15. SettledOK'
  <2>1. \A k \in 1..n : agents[k].task # NoSubtask /\ (\A l \in 1..m : wave[l] # k) => Settled(k)
    BY <1>1, <1>2 DEF SettledOK, InWave
  <2>2. ASSUME NEW k \in 1..(n + 1), agents'[k].task # NoSubtask, \A l \in 1..(m + 1) : wave'[l] # k
        PROVE  Settled(k)'
    <3>1. m + 1 \in 1..(m + 1) /\ \A l \in 1..m : l \in 1..(m + 1)
      BY <1>1
    <3>2. k \in 1..n /\ \A l \in 1..m : wave[l] # k
      BY SMTT(60), <1>1, <1>8, <2>2, <3>1
    <3> QED
      BY <1>6, <1>7, <2>1, <2>2, <3>2
  <2> QED
    BY <1>2, <1>5, <1>8, <2>2 DEF SettledOK, BetweenWaves
<1>16. CountsOK'
  <2>1. Unspawned' = Unspawned /\ round \in Nat /\ attempts \in [Tasks -> Nat]
    BY <1>1, <1>2 DEF Unspawned, InRound, InWave, TypeOK
  <2>2. \A k \in 1..(n + 1) : agents'[k].round <= round
    <3>1. \A k \in 1..n : agents'[k].round <= round
      BY <1>1, <1>6 DEF CountsOK
    <3> QED
      BY <1>1, <1>5, <2>1, <3>1
  <2>3. ASSUME NEW s \in Unspawned', NEW k \in 1..(n + 1), agents'[k].task = s
        PROVE  agents'[k].round < round
    <3>1. k \in 1..n
      BY <1>1, <1>2, <1>5, <2>1, <2>3
    <3> QED
      BY <1>1, <1>6, <2>1, <2>3, <3>1 DEF CountsOK
  <2>4. ASSUME NEW s \in Tasks
        PROVE  Cardinality(Takers(s)') <=
                 round + (IF attempts'[s] <= MaxRespawns THEN attempts'[s] ELSE MaxRespawns)
                       + (IF s \in Unspawned' THEN 0 ELSE 1)
    <3>1. Cardinality(Takers(s)) \in Nat /\ attempts[s] \in Nat
      BY <1>1, <2>1, TakersAreFinite DEF TypeOK
    <3>2. Cardinality(Takers(s)) <=
                 round + (IF attempts[s] <= MaxRespawns THEN attempts[s] ELSE MaxRespawns)
                       + (IF s \in Unspawned THEN 0 ELSE 1)
      BY <1>1 DEF CountsOK
    <3>3. CASE s = t
      <4>1. /\ attempts[s] < MaxRespawns /\ attempts'[s] = attempts[s] + 1
            /\ s \notin Unspawned' /\ s \notin Unspawned
            /\ Cardinality(Takers(s)') = Cardinality(Takers(s)) + 1
        BY <1>2, <1>5, <2>1, <3>3
      <4> QED
        BY <1>1, <2>1, <3>1, <3>2, <4>1
    <3>4. CASE s # t
      BY <1>2, <1>5, <2>1, <3>2, <3>4
    <3> QED
      BY <3>3, <3>4
  <2> QED
    BY <1>2, <1>5, <2>2, <2>3, <2>4 DEF CountsOK
<1>17. DependenciesOK'
  <2>1. \A k \in 1..m : \A d \in DependsOn[agents[wave[k]].task] : Put(d)'
    BY <1>1, <1>2, <1>7 DEF DependenciesOK
  <2>2. ASSUME NEW k \in 1..(m + 1), NEW d \in DependsOn[agents'[wave'[k]].task] PROVE Put(d)'
    <3>1. CASE k \in 1..m
      <4>1. agents'[wave'[k]].task = agents[wave[k]].task
        BY SMTT(60), <1>6, <1>8, <3>1
      <4> QED
        BY <2>1, <2>2, <3>1, <4>1
    <3>2. CASE k = m + 1
      <4>1. agents'[wave'[k]].task = agents[wave[cursor]].task
        BY <1>5, <1>8, <3>2
      <4> QED
        BY <1>2, <2>1, <2>2, <4>1
    <3> QED
      BY <1>1, <3>1, <3>2
  <2>3. DependenciesComeFirst'
    <3>1. ASSUME NEW k \in 1..(n + 1), agents'[k].state = "running", NEW d \in DependsOn[agents'[k].task]
          PROVE  Put(d)'
      <4>1. PICK l \in (cursor + 1)..(m + 1) : wave'[l] = k
        BY <1>2, <1>5, <1>8, <1>13, <3>1 DEF RunningOK, ToAwait
      <4>2. l \in 1..(m + 1)
        BY <1>1, <1>8, <4>1
      <4> QED
        BY <2>2, <3>1, <4>1, <4>2
    <3>2. DOMAIN agents' = 1..(n + 1)
      BY <1>5
    <3> QED
      BY <1>5, <3>1, <3>2 DEF DependenciesComeFirst, Put
  <2> QED
    BY <1>2, <1>7, <1>8, <2>2, <2>3 DEF DependenciesOK
<1>18. WaitsOK'
  <2>1. ASSUME NEW e \in waits'
        PROVE  /\ e[1] \in 1..(n + 1)
               /\ agents'[e[1]].task = NoSubtask \/ \E l \in (cursor + 1)..(m + 1) : wave'[l] = e[1]
    <3>1. e[1] \in 1..n /\ agents'[e[1]].task = agents[e[1]].task
      BY <1>6, <1>7
    <3>2. CASE agents[e[1]].task = NoSubtask
      BY <1>1, <3>1, <3>2
    <3>3. CASE \E l \in (cursor + 1)..m : wave[l] = e[1]
      <4>1. PICK l \in (cursor + 1)..m : wave[l] = e[1]
        BY <3>3
      <4> QED
        BY SMTT(60), <1>1, <1>8, <1>11, <3>1, <4>1
    <3> QED
      BY <1>7, <3>2, <3>3
  <2> QED
    <3>1. cursor' = cursor + 1 /\ Len(wave') = m + 1 /\ Len(agents') = n + 1 /\ pc' = "await"
      BY <1>2, <1>5, <1>8
    <3> QED
      BY <2>1, <3>1 DEF WaitsOK, ToAwait
<1> QED
  BY <1>5, <1>9, <1>10, <1>12, <1>13, <1>14, <1>15, <1>16, <1>17, <1>18 DEF IInv

(* A failure, whichever way it is met. *)
LEMMA TakeFailureInv == ASSUME IInv, TakeFailure PROVE IInv'
BY GiveUpInv, RespawnInv

-----------------------------------------------------------------------------
(* Merge, cleanup and the end of an agent *)

(* Steps that change what is held about agents none of which runs. *)
LEMMA NobodyRuns ==
    ASSUME IInv, agents' \in Seq(AgentType), Len(agents') = Len(agents), UNCHANGED <<attempts, round>>,
           \A i \in 1..Len(agents) :
              /\ agents'[i].role = agents[i].role /\ agents'[i].num = agents[i].num
              /\ agents'[i].task = agents[i].task /\ agents'[i].round = agents[i].round
              /\ agents'[i].state = agents[i].state /\ agents[i].state # "running"
              /\ agents'[i].active => agents[i].active
              /\ agents[i].merge # "none" => agents'[i].merge # "none"
              /\ agents'[i].merge # "none" => agents[i].state = "done" /\ agents[i].task # NoSubtask
    PROVE  /\ AgentsOK' /\ DependenciesComeFirst'
           /\ (Unspawned' \subseteq Unspawned => CountsOK')
           /\ \A d : Put(d) => Put(d)'
           /\ \A d : \/ d \in Tasks /\ attempts[d] > MaxRespawns
                     \/ \E k \in 1..Len(agents) :
                           agents[k].task = d /\ agents[k].round = round /\ agents[k].state = "done"
                  => \/ d \in Tasks /\ attempts'[d] > MaxRespawns
                     \/ \E k \in 1..Len(agents') :
                           agents'[k].task = d /\ agents'[k].round = round' /\ agents'[k].state = "done"
<1> DEFINE n == Len(agents)
<1>1. /\ TypeOK /\ AgentsOK /\ CountsOK /\ n \in Nat /\ DOMAIN agents = 1..n /\ MaxRespawns \in Nat
      /\ MaxAgents \in Nat
  BY Facts, MissionAssumption DEF MissionConstants
<1>2. DOMAIN agents' = 1..n
  OBVIOUS
<1>3. AgentsOK'
  <2>1. Cardinality(Active') <= MaxAgents
    <3>1. IsFiniteSet(Active) /\ Cardinality(Active) \in Nat
      BY <1>1, TakersAreFinite DEF TypeOK
    <3>2. Active' \subseteq Active
      BY <1>1, <1>2 DEF Active
    <3>3. Cardinality(Active') <= Cardinality(Active) /\ IsFiniteSet(Active')
      BY <3>1, <3>2, FS_Subset
    <3>4. Cardinality(Active') \in Nat
      BY <3>3, FS_CardinalityType
    <3> QED
      BY <1>1, <3>1, <3>3, <3>4 DEF AgentsOK
  <2>2. RunningKeepsItsResources'
    BY <1>2 DEF RunningKeepsItsResources
  <2>3. /\ \A k \in 1..n : agents'[k].num <= k
        /\ \A k, l \in 1..n :
              agents'[k].role = agents'[l].role /\ agents'[k].num = agents'[l].num => k = l
        /\ \A k \in 1..n : agents'[k].merge # "none" =>
              agents'[k].state = "done" /\ agents'[k].task # NoSubtask
    BY <1>1 DEF AgentsOK
  <2>4. \A k, l \in 1..n :
          /\ agents'[k].task = agents'[l].task /\ agents'[k].task # NoSubtask
          /\ agents'[k].round = agents'[l].round /\ k # l
          => agents'[k].state = "failed" \/ agents'[l].state = "failed"
    BY <1>1 DEF AgentsOK
  <2> QED
    BY <2>1, <2>2, <2>3, <2>4 DEF AgentsOK
<1>4. DependenciesComeFirst'
  BY <1>2 DEF DependenciesComeFirst
<1>5. ASSUME Unspawned' \subseteq Unspawned PROVE CountsOK'
  <2>1. round \in Nat /\ attempts \in [Tasks -> Nat]
    BY <1>1 DEF TypeOK
  <2>2. /\ \A k \in 1..n : agents'[k].round <= round
        /\ \A s \in Unspawned' : \A k \in 1..n : agents'[k].task = s => agents'[k].round < round
    BY <1>1, <1>5 DEF CountsOK
  <2>3. ASSUME NEW s \in Tasks
        PROVE  Cardinality(Takers(s)') <=
                 round + (IF attempts[s] <= MaxRespawns THEN attempts[s] ELSE MaxRespawns)
                       + (IF s \in Unspawned' THEN 0 ELSE 1)
    <3>1. Takers(s)' = Takers(s) /\ Cardinality(Takers(s)) \in Nat
      BY <1>1, <1>2, TakersAreFinite DEF TypeOK, Takers
    <3>2. Cardinality(Takers(s)) <=
                 round + (IF attempts[s] <= MaxRespawns THEN attempts[s] ELSE MaxRespawns)
                       + (IF s \in Unspawned THEN 0 ELSE 1)
      BY <1>1 DEF CountsOK
    <3>3. attempts[s] \in Nat
      BY <2>1
    <3> QED
      BY <1>1, <1>5, <2>1, <3>1, <3>2, <3>3
  <2> QED
    BY <2>2, <2>3 DEF CountsOK
<1>6. attempts \in [Tasks -> Nat] /\ attempts' \in [Tasks -> Nat] /\ \A d \in Tasks : attempts'[d] >= attempts[d]
  BY <1>1 DEF TypeOK
<1> QED
  BY SMTT(60), <1>1, <1>3, <1>4, <1>5, <1>6, WorkStays

(* cleanupAgent takes the registry entry, the worktree and the leases, and nothing else. *)
LEMMA CleanedUpFacts ==
    ASSUME agents \in Seq(AgentType), NEW S, agents' = CleanedUp(S)
    PROVE  /\ agents' \in Seq(AgentType) /\ Len(agents') = Len(agents)
           /\ \A i \in 1..Len(agents) :
                /\ agents'[i].role = agents[i].role /\ agents'[i].num = agents[i].num
                /\ agents'[i].task = agents[i].task /\ agents'[i].round = agents[i].round
                /\ agents'[i].state = agents[i].state /\ agents'[i].merge = agents[i].merge
                /\ i \notin S => agents'[i] = agents[i]
                /\ agents'[i].active => agents[i].active
                /\ i \in S => ~agents'[i].active /\ ~agents'[i].tree /\ ~agents'[i].leases
                /\ ~agents[i].active => ~agents'[i].active
                /\ ~agents[i].tree => ~agents'[i].tree
                /\ ~agents[i].leases => ~agents'[i].leases
<1> DEFINE n == Len(agents)
<1>1. n \in Nat /\ DOMAIN agents = 1..n /\ \A i \in 1..n : agents[i] \in AgentType
  OBVIOUS
<1>2. ASSUME NEW i \in 1..n
      PROVE  /\ agents'[i] \in AgentType
             /\ agents'[i].role = agents[i].role /\ agents'[i].num = agents[i].num
             /\ agents'[i].task = agents[i].task /\ agents'[i].round = agents[i].round
             /\ agents'[i].state = agents[i].state /\ agents'[i].merge = agents[i].merge
             /\ i \notin S => agents'[i] = agents[i]
             /\ i \in S => agents'[i].active = FALSE /\ agents'[i].tree = FALSE /\ agents'[i].leases = FALSE
  <2>1. PICK x \in AgentType : x = agents[i]
    BY <1>1
  <2> DEFINE y == [x EXCEPT !.active = FALSE, !.tree = FALSE, !.leases = FALSE]
  <2>2. agents'[i] = IF i \in S THEN y ELSE x
    BY <1>1, <2>1 DEF CleanedUp
  <2>3. /\ y \in AgentType /\ y.role = x.role /\ y.num = x.num /\ y.task = x.task
        /\ y.round = x.round /\ y.state = x.state /\ y.merge = x.merge
        /\ y.active = FALSE /\ y.tree = FALSE /\ y.leases = FALSE
    BY ChangedAgent
  <2> HIDE DEF y
  <2>4. CASE i \in S
    BY <2>1, <2>2, <2>3, <2>4
  <2>5. CASE i \notin S
    BY <2>1, <2>2, <2>5
  <2> QED
    BY <2>4, <2>5
<1>3. agents' \in [1..n -> AgentType]
  BY <1>1, <1>2 DEF CleanedUp
<1>4. agents' \in Seq(AgentType) /\ Len(agents') = n
  BY <1>1, <1>3
<1> QED
  BY <1>2, <1>4

(* Who is cleaned up to break a deadlock waits in vain, so it belongs to no subtask. *)
LEMMA ResolveDeadlocksInv == ASSUME IInv, ResolveDeadlocks PROVE IInv'
<1> DEFINE n == Len(agents)
<1>1. /\ TypeOK /\ AgentsOK /\ ControlOK /\ RunningOK /\ WaveOK /\ SettledOK /\ CountsOK
      /\ DependenciesOK /\ WaitsOK /\ n \in Nat /\ Len(wave) \in Nat
  BY Facts
<1>2. PICK killed \in SUBSET UNION Cycles : agents' = CleanedUp(killed)
  BY DEF ResolveDeadlocks
<1>3. /\ pc = "await" /\ pc' = "capability" /\ cursor > Len(wave) /\ waits' \subseteq waits
      /\ UNCHANGED <<attempts, round, wave, cursor, queue, remaining, completed, gatePassed, capAgent>>
  BY DEF ResolveDeadlocks, waveVars, missionVars
<1>4. \A i : ~ToAwait(i)
  BY <1>1, <1>3 DEF ToAwait, TypeOK
<1>5. \A i \in killed : i \in 1..n => agents[i].task = NoSubtask
  <2>1. killed \subseteq Waiters
    BY <1>2 DEF Cycles
  <2> QED
    BY <1>1, <1>3, <1>4, <2>1 DEF Waiters, WaitsOK
<1>6. \A i \in 1..n : agents[i].state # "running"
  BY <1>1, <1>3, <1>4 DEF RunningOK
<1>7. /\ agents' \in Seq(AgentType) /\ Len(agents') = n
      /\ \A i \in 1..n :
            /\ agents'[i].role = agents[i].role /\ agents'[i].num = agents[i].num
            /\ agents'[i].task = agents[i].task /\ agents'[i].round = agents[i].round
            /\ agents'[i].state = agents[i].state /\ agents'[i].merge = agents[i].merge
            /\ agents[i].task # NoSubtask => agents'[i] = agents[i]
            /\ agents'[i].active => agents[i].active
  BY <1>1, <1>2, <1>5, CleanedUpFacts DEF TypeOK
<1>8. Unspawned' \subseteq Unspawned
  BY <1>1, <1>3 DEF Unspawned, InRound, InWave
<1>9. /\ AgentsOK' /\ DependenciesComeFirst' /\ CountsOK'
      /\ \A d : \/ d \in Tasks /\ attempts[d] > MaxRespawns
                \/ \E k \in 1..Len(agents) :
                      agents[k].task = d /\ agents[k].round = round /\ agents[k].state = "done"
             => \/ d \in Tasks /\ attempts'[d] > MaxRespawns
                \/ \E k \in 1..Len(agents') :
                      agents'[k].task = d /\ agents'[k].round = round' /\ agents'[k].state = "done"
  <2>1. \A i \in 1..n : agents[i].merge # "none" => agents[i].state = "done" /\ agents[i].task # NoSubtask
    BY <1>1 DEF AgentsOK
  <2> QED
    BY <1>3, <1>6, <1>7, <1>8, <2>1, NobodyRuns
<1>10. TypeOK' /\ ControlOK' /\ AloneOK'
  BY <1>1, <1>3, <1>7 DEF TypeOK, ControlOK, AloneOK, InRound, InWave
<1>11. RunningOK' /\ WaitsOK'
  BY <1>1, <1>3, <1>4, <1>6, <1>7 DEF RunningOK, WaitsOK
<1>12. WaveOK'
  BY <1>1, <1>3, <1>7 DEF WaveOK, InWave
<1>13. SettledOK'
  BY <1>1, <1>3, <1>7 DEF SettledOK, Settled, InWave, BetweenWaves
<1>14. DependenciesOK'
  BY <1>1, <1>3, <1>9 DEF DependenciesOK, InRound, InWave
<1> QED
  BY <1>9, <1>10, <1>11, <1>12, <1>13, <1>14 DEF IInv

(* Every agent of the wave that did its work has its worktree still, and is put to the merge. *)
LEMMA MergeWaveInv == ASSUME IInv, MergeWave PROVE IInv'
<1> DEFINE n == Len(agents)
<1>1. /\ TypeOK /\ AgentsOK /\ ControlOK /\ RunningOK /\ WaveOK /\ SettledOK /\ CountsOK
      /\ DependenciesOK /\ WaitsOK /\ n \in Nat /\ DOMAIN agents = 1..n /\ Len(wave) \in Nat
      /\ \A i \in 1..n : agents[i] \in AgentType
  BY Facts
<1>2. PICK conflicts \in SUBSET Mergeable :
          agents' = [i \in 1..n |->
              IF i \in Mergeable
              THEN [agents[i] EXCEPT !.merge = IF i \in conflicts THEN "conflict" ELSE "merged"]
              ELSE agents[i]]
  BY <1>1 DEF MergeWave
<1>3. /\ pc = "capability" /\ pc' = "cleanup"
      /\ UNCHANGED <<attempts, round, waits, wave, cursor, queue, remaining, completed, gatePassed, capAgent>>
  BY DEF MergeWave, waveVars, missionVars
<1>4. /\ \A i \in Mergeable : agents[i].state = "done" /\ agents[i].task # NoSubtask
                              /\ i \in 1..n /\ \E k \in 1..Len(wave) : wave[k] = i
      /\ \A k \in 1..Len(wave) : agents[wave[k]].state = "done" => wave[k] \in Mergeable
  <2>1. \A k \in 1..Len(wave) : wave[k] \in 1..n /\ agents[wave[k]].tree /\ agents[wave[k]].task # NoSubtask
    BY <1>1, <1>3 DEF WaveOK, InWave
  <2>2. \A i : i \in ToSet(wave) <=> \E k \in 1..Len(wave) : wave[k] = i
    BY SMTT(60), <1>1 DEF ToSet, TypeOK
  <2> QED
    BY <2>1, <2>2 DEF Mergeable
<1>5. \A i \in 1..n : agents[i].state # "running"
  BY <1>1, <1>3 DEF RunningOK
<1>6. ASSUME NEW i \in 1..n
      PROVE  /\ agents'[i] \in AgentType
             /\ agents'[i].role = agents[i].role /\ agents'[i].num = agents[i].num
             /\ agents'[i].task = agents[i].task /\ agents'[i].round = agents[i].round
             /\ agents'[i].state = agents[i].state /\ agents'[i].active = agents[i].active
             /\ agents'[i].tree = agents[i].tree /\ agents'[i].leases = agents[i].leases
             /\ i \notin Mergeable => agents'[i] = agents[i]
             /\ i \in Mergeable => agents'[i].merge # "none"
  <2>1. PICK x \in AgentType : x = agents[i]
    BY <1>1
  <2>2. PICK o \in {"conflict", "merged"} :
           agents'[i] = IF i \in Mergeable THEN [x EXCEPT !.merge = o] ELSE x
    <3>1. agents'[i] = IF i \in Mergeable
              THEN [x EXCEPT !.merge = IF i \in conflicts THEN "conflict" ELSE "merged"] ELSE x
      BY <1>2, <2>1
    <3> QED
      BY <3>1
  <2> DEFINE y == [x EXCEPT !.merge = o]
  <2>3. /\ y \in AgentType /\ y.role = x.role /\ y.num = x.num /\ y.task = x.task
        /\ y.round = x.round /\ y.state = x.state /\ y.active = x.active
        /\ y.tree = x.tree /\ y.leases = x.leases /\ y.merge = o
    <3>1. x \in AgentType /\ o \in {"conflict", "merged"}
      BY <2>1, <2>2
    <3> QED
      BY <3>1 DEF AgentType
  <2> HIDE DEF y
  <2>4. CASE i \in Mergeable
    <3>1. agents'[i] = y /\ o # "none"
      BY <2>2, <2>4 DEF y
    <3> QED
      BY <2>1, <2>3, <2>4, <3>1
  <2>5. CASE i \notin Mergeable
    BY <2>1, <2>2, <2>5
  <2> QED
    BY <2>4, <2>5
<1>7. agents' \in Seq(AgentType) /\ Len(agents') = n
  <2>1. agents' \in [1..n -> AgentType]
    BY <1>2, <1>6
  <2> QED
    BY <1>1, <2>1
<1>8. Unspawned' \subseteq Unspawned
  BY <1>1, <1>3 DEF Unspawned, InRound, InWave
<1>9. /\ AgentsOK' /\ DependenciesComeFirst' /\ CountsOK'
      /\ \A d : \/ d \in Tasks /\ attempts[d] > MaxRespawns
                \/ \E k \in 1..Len(agents) :
                      agents[k].task = d /\ agents[k].round = round /\ agents[k].state = "done"
             => \/ d \in Tasks /\ attempts'[d] > MaxRespawns
                \/ \E k \in 1..Len(agents') :
                      agents'[k].task = d /\ agents'[k].round = round' /\ agents'[k].state = "done"
  <2>1. \A i \in 1..n : agents[i].merge # "none" => agents[i].state = "done" /\ agents[i].task # NoSubtask
    BY <1>1 DEF AgentsOK
  <2>2. \A i \in 1..n : /\ agents[i].merge # "none" => agents'[i].merge # "none"
                        /\ agents'[i].merge # "none" => agents[i].state = "done" /\ agents[i].task # NoSubtask
    BY <1>4, <1>6, <2>1
  <2> QED
    BY <1>3, <1>5, <1>6, <1>7, <1>8, <2>2, NobodyRuns
<1>10. TypeOK' /\ ControlOK' /\ AloneOK'
  BY <1>1, <1>3, <1>7 DEF TypeOK, ControlOK, AloneOK, InRound, InWave
<1>11. RunningOK' /\ WaitsOK'
  BY <1>1, <1>3, <1>5, <1>6, <1>7 DEF RunningOK, WaitsOK
<1>12. WaveOK'
  <2>1. \A k \in 1..Len(wave) : wave[k] \in 1..n
            /\ agents[wave[k]].task # NoSubtask /\ agents[wave[k]].round = round
    BY <1>1, <1>3 DEF WaveOK, InWave
  <2>2. \A k \in 1..Len(wave) :
            /\ agents'[wave[k]].task # NoSubtask /\ agents'[wave[k]].round = round
            /\ agents'[wave[k]].state = "done" => agents'[wave[k]].merge # "none"
    BY <1>4, <1>6, <2>1
  <2> QED
    BY <1>3, <1>7, <2>1, <2>2 DEF WaveOK
<1>13. SettledOK'
  <2>1. \A i \in 1..n : agents[i].task # NoSubtask /\ (\A k \in 1..Len(wave) : wave[k] # i) => Settled(i)
    BY <1>1, <1>3 DEF SettledOK, InWave
  <2>2. ASSUME NEW i \in 1..n, agents'[i].task # NoSubtask, \A k \in 1..Len(wave) : wave[k] # i
        PROVE  Settled(i)'
    <3>1. agents'[i] = agents[i]
      BY <1>4, <1>6, <2>2
    <3>2. Settled(i)
      BY <2>1, <2>2, <3>1
    <3> QED
      BY <3>1, <3>2 DEF Settled
  <2> QED
    BY <1>3, <1>7, <2>2 DEF SettledOK, BetweenWaves
<1>14. DependenciesOK'
  BY <1>1, <1>3, <1>9 DEF DependenciesOK, InRound, InWave
<1> QED
  BY <1>9, <1>10, <1>11, <1>12, <1>13, <1>14 DEF IInv

(* The cleanup of the wave settles its agents. *)
LEMMA CleanUpWaveInv == ASSUME IInv, CleanUpWave PROVE IInv'
<1> DEFINE n == Len(agents)
<1>1. /\ TypeOK /\ AgentsOK /\ ControlOK /\ RunningOK /\ WaveOK /\ SettledOK /\ CountsOK
      /\ DependenciesOK /\ WaitsOK /\ n \in Nat /\ Len(wave) \in Nat
  BY Facts
<1>2. /\ pc = "cleanup" /\ pc' = "wave" /\ agents' = CleanedUp(ToSet(wave))
      /\ UNCHANGED <<attempts, round, waits, wave, cursor, queue, remaining, completed, gatePassed, capAgent>>
  BY DEF CleanUpWave, waveVars, missionVars
<1>3. \A i : i \in ToSet(wave) <=> \E k \in 1..Len(wave) : wave[k] = i
  BY <1>1 DEF ToSet, TypeOK
<1>4. \A i \in 1..n : agents[i].state # "running"
  BY <1>1, <1>2 DEF RunningOK
<1>5. /\ agents' \in Seq(AgentType) /\ Len(agents') = n
      /\ \A i \in 1..n :
            /\ agents'[i].role = agents[i].role /\ agents'[i].num = agents[i].num
            /\ agents'[i].task = agents[i].task /\ agents'[i].round = agents[i].round
            /\ agents'[i].state = agents[i].state /\ agents'[i].merge = agents[i].merge
            /\ i \notin ToSet(wave) => agents'[i] = agents[i]
            /\ agents'[i].active => agents[i].active
            /\ i \in ToSet(wave) => ~agents'[i].active /\ ~agents'[i].tree /\ ~agents'[i].leases
  BY <1>1, <1>2, CleanedUpFacts DEF TypeOK
<1>6. Unspawned' \subseteq Unspawned
  BY <1>1, <1>2 DEF Unspawned, InRound, InWave
<1>7. /\ AgentsOK' /\ DependenciesComeFirst' /\ CountsOK'
      /\ \A d : \/ d \in Tasks /\ attempts[d] > MaxRespawns
                \/ \E k \in 1..Len(agents) :
                      agents[k].task = d /\ agents[k].round = round /\ agents[k].state = "done"
             => \/ d \in Tasks /\ attempts'[d] > MaxRespawns
                \/ \E k \in 1..Len(agents') :
                      agents'[k].task = d /\ agents'[k].round = round' /\ agents'[k].state = "done"
  <2>1. \A i \in 1..n : agents[i].merge # "none" => agents[i].state = "done" /\ agents[i].task # NoSubtask
    BY <1>1 DEF AgentsOK
  <2> QED
    BY <1>2, <1>4, <1>5, <1>6, <2>1, NobodyRuns
<1>8. TypeOK' /\ ControlOK' /\ AloneOK'
  BY <1>1, <1>2, <1>5 DEF TypeOK, ControlOK, AloneOK, InRound, InWave
<1>9. RunningOK' /\ WaitsOK' /\ WaveOK'
  BY <1>1, <1>2, <1>4, <1>5 DEF RunningOK, WaitsOK, WaveOK, InWave
<1>10. SettledOK'
  <2>1. ASSUME NEW i \in 1..n, agents'[i].task # NoSubtask PROVE Settled(i)'
    <3>1. CASE i \in ToSet(wave)
      <4>1. agents[i].state = "done" => agents[i].merge # "none"
        BY <1>1, <1>2, <1>3, <3>1 DEF WaveOK, InWave
      <4> QED
        BY <1>4, <1>5, <3>1, <4>1 DEF Settled
    <3>2. CASE i \notin ToSet(wave)
      <4>1. Settled(i)
        BY <1>1, <1>2, <1>3, <1>5, <2>1, <3>2 DEF SettledOK, InWave
      <4> QED
        BY <1>5, <3>2, <4>1 DEF Settled
    <3> QED
      BY <3>1, <3>2
  <2> QED
    BY <1>5, <2>1 DEF SettledOK
<1>11. DependenciesOK'
  BY <1>1, <1>2, <1>7 DEF DependenciesOK, InRound, InWave
<1> QED
  BY <1>7, <1>8, <1>9, <1>10, <1>11 DEF IInv

(* An agent's run ends: the agents that had its subtask in the round before it have failed. *)
LEMMA AgentEndsInv ==
    ASSUME IInv, NEW i \in DOMAIN agents, NEW outcome \in {"done", "failed"}, AgentEnds(i, outcome)
    PROVE  IInv'
<1> DEFINE n == Len(agents)
           m == Len(wave)
<1>1. /\ TypeOK /\ AgentsOK /\ ControlOK /\ AloneOK /\ RunningOK /\ WaveOK /\ SettledOK /\ CountsOK
      /\ DependenciesOK /\ WaitsOK /\ n \in Nat /\ DOMAIN agents = 1..n /\ m \in Nat
      /\ MaxRespawns \in Nat /\ NoSubtask \notin Tasks
      /\ \A k \in 1..n : agents[k] \in AgentType
  BY Facts
<1>2. /\ pc \in {"await", "capAwait"} /\ agents[i].state = "running" /\ i \in 1..n
      /\ UNCHANGED <<pc, attempts, round, waits, wave, cursor, queue, remaining, completed, gatePassed, capAgent>>
  BY <1>1 DEF AgentEnds, Running, waveVars, missionVars
<1>3. /\ agents' \in Seq(AgentType) /\ Len(agents') = n
      /\ \A k \in 1..n :
            /\ agents'[k].role = agents[k].role /\ agents'[k].num = agents[k].num
            /\ agents'[k].task = agents[k].task /\ agents'[k].round = agents[k].round
            /\ agents'[k].merge = agents[k].merge
            /\ agents'[k].active = agents[k].active
            /\ agents'[k].tree = agents[k].tree /\ agents'[k].leases = agents[k].leases
            /\ k # i => agents'[k].state = agents[k].state
      /\ agents'[i].state = outcome
  <2> DEFINE y == [agents[i] EXCEPT !.state = outcome]
  <2>1. agents[i] \in AgentType /\ agents \in Seq(AgentType)
    BY <1>1, <1>2 DEF TypeOK
  <2>2. /\ y \in AgentType /\ y.role = agents[i].role /\ y.num = agents[i].num /\ y.task = agents[i].task
        /\ y.round = agents[i].round /\ y.state = outcome /\ y.active = agents[i].active
        /\ y.tree = agents[i].tree /\ y.leases = agents[i].leases /\ y.merge = agents[i].merge
    BY ZenonT(60), <2>1, ChangedAgent
  <2>3. agents' = [agents EXCEPT ![i] = y]
    BY <1>2 DEF AgentEnds
  <2> HIDE DEF y
  <2>4. agents' \in Seq(AgentType) /\ Len(agents') = n /\ agents'[i] = y
        /\ \A k \in 1..n : k # i => agents'[k] = agents[k]
    BY <1>1, <1>2, <2>1, <2>2, <2>3
  <2>5. ASSUME NEW k \in 1..n
        PROVE  /\ agents'[k].role = agents[k].role /\ agents'[k].num = agents[k].num
               /\ agents'[k].task = agents[k].task /\ agents'[k].round = agents[k].round
               /\ agents'[k].merge = agents[k].merge
               /\ agents'[k].active = agents[k].active
               /\ agents'[k].tree = agents[k].tree /\ agents'[k].leases = agents[k].leases
               /\ k # i => agents'[k].state = agents[k].state
    BY <2>2, <2>4
  <2> QED
    BY <2>2, <2>4, <2>5
<1>4. DOMAIN agents' = 1..n
  BY <1>3
<1>5. /\ \A k \in 1..n : agents'[k].state = "running" => agents[k].state = "running"
      /\ \A k \in 1..n : agents[k].state = "done" => agents'[k].state = "done"
      /\ \A k \in 1..n : agents[k].state = "failed" => agents'[k].state = "failed"
      /\ \A k \in 1..n : k # i /\ agents'[k].state = "done" => agents[k].state = "done"
  BY <1>2, <1>3
<1>6. \A k \in 1..n : /\ agents[k].task = agents[i].task /\ agents[i].task # NoSubtask
                      /\ agents[k].round = agents[i].round /\ k # i
                      => agents[k].state = "failed"
  BY <1>1, <1>2 DEF AgentsOK
<1>7. TypeOK' /\ ControlOK'
  BY <1>1, <1>2, <1>3 DEF TypeOK, ControlOK, InRound, InWave
<1>8. AgentsOK'
  <2>1. Active' = Active
    BY <1>1, <1>3, <1>4 DEF Active
  <2>2. Cardinality(Active') <= MaxAgents
    BY <1>1, <2>1 DEF AgentsOK
  <2>3. RunningKeepsItsResources'
    BY <1>1, <1>3, <1>4, <1>5 DEF AgentsOK, RunningKeepsItsResources
  <2>4. /\ \A k \in 1..n : agents'[k].num <= k
        /\ \A k, l \in 1..n :
              agents'[k].role = agents'[l].role /\ agents'[k].num = agents'[l].num => k = l
    BY <1>1, <1>3 DEF AgentsOK
  <2>5. \A k \in 1..n : agents'[k].merge # "none" => agents'[k].state = "done" /\ agents'[k].task # NoSubtask
    BY <1>1, <1>3, <1>5 DEF AgentsOK
  <2>6. ASSUME NEW k \in 1..n, NEW l \in 1..n,
               agents'[k].task = agents'[l].task, agents'[k].task # NoSubtask,
               agents'[k].round = agents'[l].round, k # l
        PROVE  agents'[k].state = "failed" \/ agents'[l].state = "failed"
    <3>1. /\ agents[k].task = agents[l].task /\ agents[k].task # NoSubtask
          /\ agents[k].round = agents[l].round
      BY <1>3, <2>6
    <3>2. agents[k].state = "failed" \/ agents[l].state = "failed"
      BY <1>1, <2>6, <3>1 DEF AgentsOK
    <3> QED
      BY <1>5, <3>2
  <2> QED
    BY <1>3, <2>2, <2>3, <2>4, <2>5, <2>6 DEF AgentsOK
<1>9. AloneOK'
  <2>1. pc = "await" => \A k \in cursor..m : wave[k] \in 1..n
    BY <1>1 DEF WaveOK, InWave, TypeOK
  <2>2. ASSUME pc = "await", NEW k \in cursor..m, NEW l \in cursor..m,
               agents'[wave[k]].task = agents'[wave[l]].task
        PROVE  k = l
    <3>1. agents[wave[k]].task = agents[wave[l]].task
      BY <1>3, <2>1, <2>2
    <3> QED
      BY <1>1, <2>2, <3>1 DEF AloneOK
  <2>3. ASSUME pc = "await", NEW k \in cursor..m, NEW l \in 1..n,
               agents'[l].task = agents'[wave[k]].task, agents'[l].round = round, l # wave[k]
        PROVE  agents'[l].state = "failed"
    <3>1. agents[l].task = agents[wave[k]].task /\ agents[l].round = round
      BY <1>3, <2>1, <2>3
    <3>2. agents[l].state = "failed"
      BY <1>1, <2>3, <3>1 DEF AloneOK
    <3> QED
      BY <1>5, <3>2
  <2>4. pc' # "spawn" /\ (pc' = "await" => pc = "await")
    BY <1>2
  <2> QED
    BY <1>2, <1>3, <2>2, <2>3, <2>4 DEF AloneOK
<1>10. RunningOK' /\ WaitsOK'
  BY <1>1, <1>2, <1>3, <1>5 DEF RunningOK, WaitsOK, ToAwait
<1>11. WaveOK'
  <2>1. \A k \in 1..m : /\ wave[k] \in 1..n
                        /\ agents[wave[k]].task # NoSubtask /\ agents[wave[k]].round = round
                        /\ agents[wave[k]].tree /\ agents[wave[k]].merge = "none"
    BY <1>1, <1>2 DEF WaveOK, InWave
  <2>2. \A k \in 1..m : /\ agents'[wave[k]].task # NoSubtask /\ agents'[wave[k]].round = round
                        /\ agents'[wave[k]].tree /\ agents'[wave[k]].merge = "none"
    BY <1>3, <2>1
  <2> QED
    BY <1>2, <1>3, <2>1, <2>2 DEF WaveOK
<1>12. SettledOK'
  <2>1. \A k \in 1..n : agents[k].task # NoSubtask /\ (\A l \in 1..m : wave[l] # k) => Settled(k)
    BY <1>1, <1>2 DEF SettledOK, InWave
  <2>2. \A k \in 1..n : Settled(k) => k # i /\ Settled(k)'
    BY <1>2, <1>3 DEF Settled
  <2>3. \A k \in 1..n : agents'[k].task # NoSubtask /\ (\A l \in 1..m : wave[l] # k) => Settled(k)'
    BY <1>3, <2>1, <2>2
  <2> QED
    BY <1>2, <1>3, <2>3 DEF SettledOK, BetweenWaves
<1>13. CountsOK'
  <2>1. Unspawned' = Unspawned /\ \A s : Takers(s)' = Takers(s)
    BY <1>1, <1>2, <1>3, <1>4 DEF Unspawned, InRound, InWave, Takers
  <2>2. /\ \A k \in 1..n : agents'[k].round <= round
        /\ \A s \in Unspawned' : \A k \in 1..n : agents'[k].task = s => agents'[k].round < round
    BY <1>1, <1>3, <2>1 DEF CountsOK
  <2>3. \A s \in Tasks : Cardinality(Takers(s)') <=
                 round + (IF attempts[s] <= MaxRespawns THEN attempts[s] ELSE MaxRespawns)
                       + (IF s \in Unspawned' THEN 0 ELSE 1)
    BY <1>1, <2>1 DEF CountsOK
  <2> QED
    BY <1>2, <1>3, <2>2, <2>3 DEF CountsOK
<1>14. DependenciesOK'
  <2>1. /\ \A d : Put(d) => Put(d)'
        /\ \A d : \/ d \in Tasks /\ attempts[d] > MaxRespawns
                  \/ \E k \in 1..n :
                        agents[k].task = d /\ agents[k].round = round /\ agents[k].state = "done"
               => \/ d \in Tasks /\ attempts'[d] > MaxRespawns
                  \/ \E k \in 1..n :
                        agents'[k].task = d /\ agents'[k].round = round' /\ agents'[k].state = "done"
    BY <1>2, <1>3, <1>5 DEF Put
  <2>2. DependenciesComeFirst'
    <3>1. ASSUME NEW k \in 1..n, agents'[k].state = "running", agents'[k].task # NoSubtask,
                 NEW d \in DependsOn[agents'[k].task]
          PROVE  Put(d)'
      <4>1. agents[k].state = "running" /\ agents[k].task # NoSubtask /\ d \in DependsOn[agents[k].task]
        BY <1>3, <1>5, <3>1
      <4>2. Put(d)
        BY <1>1, <4>1 DEF DependenciesOK, DependenciesComeFirst, Put
      <4> QED
        BY <2>1, <4>2
    <3> QED
      BY <1>3, <1>4, <3>1 DEF DependenciesComeFirst, Put
  <2>3. pc = "await" => \A k \in 1..m : \A d \in DependsOn[agents'[wave[k]].task] : Put(d)'
    <3>1. pc = "await" => \A k \in 1..m : wave[k] \in 1..n
      BY <1>1 DEF WaveOK, InWave
    <3> QED
      BY <1>1, <1>3, <2>1, <3>1 DEF DependenciesOK
  <2>4. \A d \in completed : \/ d \in Tasks /\ attempts'[d] > MaxRespawns
                  \/ \E k \in 1..n :
                        agents'[k].task = d /\ agents'[k].round = round' /\ agents'[k].state = "done"
    BY <1>1, <1>2, <2>1 DEF DependenciesOK, InRound, InWave
  <2> QED
    BY <1>2, <1>3, <2>2, <2>3, <2>4 DEF DependenciesOK
<1> QED
  BY <1>7, <1>8, <1>9, <1>10, <1>11, <1>12, <1>13, <1>14 DEF IInv

-----------------------------------------------------------------------------
(* The invariant and the theorems *)

LEMMA InitInv == ASSUME Init PROVE IInv
<1>1. /\ agents = << >> /\ Len(agents) = 0 /\ DOMAIN agents = {} /\ pc = "approve"
      /\ queue = {} /\ wave = << >> /\ Len(wave) = 0 /\ waits = {} /\ round = 0 /\ gatePassed = FALSE
      /\ remaining = {} /\ completed = {} /\ cursor = 1 /\ attempts = [t \in Tasks |-> 0]
  BY DEF Init
<1>2. MaxAgents \in Nat /\ MaxRespawns \in Nat
  BY MissionAssumption DEF MissionConstants
<1>3. \A i \in 1..Len(agents) : FALSE
  BY <1>1
<1>4. TypeOK /\ ControlOK
  <2>1. agents \in Seq(AgentType) /\ wave \in Seq(Nat) /\ attempts \in [Tasks -> Nat]
    BY <1>1
  <2>2. TypeOK
    <3>1. /\ pc \in {"approve", "round", "wave", "spawn", "await", "capability", "capAwait", "cleanup",
                     "gate", "done", "thrown"}
          /\ remaining \subseteq Tasks /\ queue \subseteq Tasks /\ completed \subseteq Tasks
      BY <1>1
    <3>2. cursor \in Nat \ {0} /\ round \in Nat
      BY <1>1
    <3>3. gatePassed \in BOOLEAN
      BY <1>1
    <3> QED
      BY <2>1, <3>1, <3>2, <3>3 DEF TypeOK
  <2>3. ControlOK
    BY <1>1 DEF ControlOK
  <2> QED
    BY <2>2, <2>3
<1>5. AgentsOK
  <2>1. Active = {}
    BY <1>1 DEF Active
  <2>2. Cardinality(Active) <= MaxAgents
    BY <1>2, <2>1, FS_EmptySet
  <2> QED
    BY <1>1, <1>3, <2>2 DEF AgentsOK, RunningKeepsItsResources
<1>6. AloneOK /\ RunningOK /\ WaveOK /\ SettledOK /\ WaitsOK
  BY <1>1, <1>3 DEF AloneOK, RunningOK, WaveOK, InWave, SettledOK, WaitsOK
<1>7. CountsOK
  <2>1. \A t : Takers(t) = {} /\ Cardinality(Takers(t)) = 0
    BY <1>1, FS_EmptySet DEF Takers
  <2>2. Unspawned = Tasks
    BY <1>1 DEF Unspawned
  <2> QED
    BY <1>1, <1>2, <1>3, <2>1, <2>2 DEF CountsOK
<1>8. DependenciesOK
  BY <1>1 DEF DependenciesOK, DependenciesComeFirst, InRound, InWave
<1> QED
  BY <1>4, <1>5, <1>6, <1>7, <1>8 DEF IInv

LEMMA NextInv == ASSUME IInv, [Next]_vars PROVE IInv'
<1>1. CASE Progress
  BY <1>1, BetweenWavesInv, BeginWaveInv, WithinWaveInv, SpawnInv, TakeSuccessInv, TakeFailureInv,
     ResolveDeadlocksInv, SpawnProviderInv, MergeWaveInv, CleanUpWaveInv, RunGateInv DEF Progress
<1>2. CASE AnAgentEnds
  BY <1>2, AgentEndsInv DEF AnAgentEnds
<1>3. CASE \/ \E i \in DOMAIN agents, c \in Capabilities : RequestCapability(i, c)
           \/ \E i \in DOMAIN agents, j \in 1 .. Len(agents) + 1 : BlockOn(i, j)
           \/ \E i \in DOMAIN agents : SayDone(i)
           \/ RunOutOfTime \/ UNCHANGED vars
  BY <1>3, TalkInv
<1>4. CASE Throw
  BY <1>4, WithinWaveInv
<1>5. CASE Over
  BY <1>5, TalkInv DEF Over
<1> QED
  BY <1>1, <1>2, <1>3, <1>4, <1>5 DEF Next

LEMMA Invariant == Spec => []IInv
<1>1. Init => IInv
  BY InitInv
<1>2. IInv /\ [Next]_vars => IInv'
  BY NextInv
<1> QED
  BY <1>1, <1>2, PTL DEF Spec

(* Waves, respawns and capability requests together never take the registry over maxAgents,
   never give out an earlier instance's id again, and spend on a subtask no more than an agent
   a round and MaxRespawns in all, whatever the plan, the roles and the caps. *)
THEOREM SpawningIsBounded == Spec => []SpawnsAreBounded
<1>1. IInv => SpawnsAreBounded
  <2> SUFFICES ASSUME IInv PROVE SpawnsAreBounded
    OBVIOUS
  <2>1. /\ TypeOK /\ AgentsOK /\ CountsOK /\ DOMAIN agents = 1..Len(agents) /\ MaxRespawns \in Nat
    BY Facts
  <2>2. ASSUME NEW t \in Tasks
        PROVE  Cardinality({i \in DOMAIN agents : agents[i].task = t}) <= round + 1 + MaxRespawns
    <3>1. Cardinality(Takers(t)) <=
                 round + (IF attempts[t] <= MaxRespawns THEN attempts[t] ELSE MaxRespawns)
                       + (IF t \in Unspawned THEN 0 ELSE 1)
      BY <2>1 DEF CountsOK
    <3>2. round \in Nat /\ attempts[t] \in Nat /\ Cardinality(Takers(t)) \in Nat
      BY <2>1, TakersAreFinite DEF TypeOK
    <3>3. Cardinality(Takers(t)) <= round + 1 + MaxRespawns
      BY <2>1, <3>1, <3>2
    <3> QED
      BY <3>3 DEF Takers
  <2> QED
    BY <2>1, <2>2 DEF SpawnsAreBounded, AgentsOK
<1> QED
  BY <1>1, Invariant, PTL

(* An agent that runs is never robbed of its registry entry, its worktree or its leases. *)
THEOREM ResourcesAreKept == Spec => []RunningKeepsItsResources
<1>1. IInv => RunningKeepsItsResources
  BY DEF IInv, AgentsOK
<1> QED
  BY <1>1, Invariant, PTL

(* When the orchestrator merges, cleans up, runs the gate or has finished nobody runs, and
   between the waves every agent of a subtask is settled, its work put to one merge. *)
THEOREM WavesSettle == Spec => []WavesAreSettled
<1>1. IInv => WavesAreSettled
  <2> SUFFICES ASSUME IInv PROVE WavesAreSettled
    OBVIOUS
  <2>1. /\ AgentsOK /\ RunningOK /\ SettledOK /\ DOMAIN agents = 1..Len(agents)
    BY Facts
  <2>2. BetweenWaves \/ pc \in {"capability", "cleanup"} =>
          \A i \in DOMAIN agents : agents[i].state # "running"
    BY <2>1 DEF RunningOK, BetweenWaves
  <2>3. BetweenWaves => \A i \in DOMAIN agents : agents[i].task # NoSubtask => Settled(i)
    BY <2>1 DEF SettledOK
  <2>4. ASSUME NEW i \in DOMAIN agents, NEW k \in DOMAIN agents,
               agents[i].merge = "merged", agents[k].merge = "merged",
               agents[i].task = agents[k].task, agents[i].round = agents[k].round
        PROVE  i = k
    <3>1. agents[i].state = "done" /\ agents[k].state = "done" /\ agents[i].task # NoSubtask
      BY <2>1, <2>4 DEF AgentsOK
    <3> QED
      BY <2>1, <2>4, <3>1 DEF AgentsOK
  <2>5. BetweenWaves => \A i \in DOMAIN agents : agents[i].task # NoSubtask =>
            /\ agents[i].state = "done" => agents[i].merge # "none"
            /\ ~ agents[i].active /\ ~ agents[i].tree /\ ~ agents[i].leases
    BY <2>3 DEF Settled
  <2> QED
    BY <2>2, <2>4, <2>5 DEF WavesAreSettled
<1> QED
  BY <1>1, Invariant, PTL

(* Nobody works on a subtask before the work on what it depends on was put to a merge in this
   round, or that was given up. *)
THEOREM DependenciesAreServed == Spec => []DependenciesComeFirst
<1>1. IInv => DependenciesComeFirst
  BY DEF IInv, DependenciesOK
<1> QED
  BY <1>1, Invariant, PTL

(* Once the gate has passed nothing is spawned, torn down or merged any more. *)
THEOREM TheGateIsTheEnd == Spec => GateEndsTheWork
<1>1. IInv /\ [Next]_vars => [gatePassed => agents' = agents]_vars
  <2> SUFFICES ASSUME IInv, [Next]_vars, gatePassed PROVE agents' = agents
    OBVIOUS
  <2>1. pc \in {"round", "done"}
    BY DEF IInv, ControlOK
  <2>2. CASE Progress
    BY <2>1, <2>2 DEF Progress, ApprovePlan, RejectPlan, BeginRound, EndMission, BeginWave, EndWaves,
       Deny, Spawn, AwaitWave, TakeSuccess, TakeFailure, ResolveDeadlocks, Refuse, SpawnProvider,
       TakeProvider, MergeWave, CleanUpWave, RunGate
  <2>3. CASE AnAgentEnds
    BY <2>1, <2>3 DEF AnAgentEnds, AgentEnds, Running
  <2>4. CASE \/ \E i \in DOMAIN agents, c \in Capabilities : RequestCapability(i, c)
             \/ \E i \in DOMAIN agents, j \in 1 .. Len(agents) + 1 : BlockOn(i, j)
             \/ \E i \in DOMAIN agents : SayDone(i)
             \/ RunOutOfTime \/ Throw \/ Over \/ UNCHANGED vars
    BY <2>4 DEF RequestCapability, BlockOn, SayDone, RunOutOfTime, Throw, Over, vars
  <2> QED
    BY <2>2, <2>3, <2>4 DEF Next
<1> QED
  BY <1>1, Invariant, PTL DEF Spec, GateEndsTheWork
=============================================================================
