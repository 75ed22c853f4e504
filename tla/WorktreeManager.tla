--------------------------- MODULE WorktreeManager ---------------------------
(***************************************************************************)
(* The worktrees and branches of packages/worktree, composed with the      *)
(* lease manager: what agents write under their leases, and what becomes   *)
(* of it when the orchestrator merges the wave.                            *)
(*                                                                         *)
(* Each agent works in a checkout of its own branch, cut from the          *)
(* integration branch when the agent is spawned.  The write tools check    *)
(* the lease and then write across awaits, while the agent's other tool    *)
(* calls of the same batch and the other agents go on.  When no agent of   *)
(* the wave is running the orchestrator merges the branches of those that  *)
(* succeeded and removes all of them.                                      *)
(*                                                                         *)
(* Left out: writes through the bash tool, which no lease guards, and      *)
(* agents spawned for a capability, which are never merged.                *)
(***************************************************************************)
EXTENDS LeaseManager

CONSTANT Files    \* the paths agents write: files, not directories

ASSUME WorktreeAssumption == Files \subseteq Paths

VARIABLES
    writing,      \* writing[a]: files whose write passed canWrite and is not done
    edits,        \* edits[a]: files changed in a's worktree, not committed
    commits,      \* commits[a]: files changed by commits on branch chorus/a
    drift,        \* drift[a]: files the integration branch has changed since
                  \* a's branch was cut
    result,       \* result[a]: "none", "done" or "failed"
    merge,        \* merge[a]: "none", "merged" or "conflict"
    phase,        \* "work" or "merge"
    freed         \* history: the files a released its right to write after it
                  \* had changed them; only the properties read it

treeVars == <<writing, edits, commits, drift, result, merge, phase, freed>>
vars == <<leaseVars, treeVars>>

None == [a \in Agents |-> {}]

WInit ==
    /\ Init
    /\ writing = None
    /\ edits = None
    /\ commits = None
    /\ drift = None
    /\ result = [a \in Agents |-> "none"]
    /\ merge = [a \in Agents |-> "none"]
    /\ phase = "work"
    /\ freed = None

-----------------------------------------------------------------------------
(* The agents at work *)

(* Files that agent a has changed, or is changing. *)
Touched(a) == writing[a] \cup edits[a] \cup commits[a]

(* create(agentId), and the runner starts. *)
Spawn(a) ==
    /\ phase = "work"
    /\ Start(a)
    /\ drift' = [drift EXCEPT ![a] = {}]
    /\ UNCHANGED <<writing, edits, commits, result, merge, phase, freed>>

ClaimPaths(a, request) == Claim(a, request) /\ UNCHANGED treeVars

(* The release tool looks at nothing but the lease: it gives up files that have
   been changed, and that are being written, as readily as any other. *)
GiveUpPaths(a, request) ==
    /\ ReleasePaths(a, request)
    /\ freed' = [freed EXCEPT ![a] = @ \cup {p \in Touched(a) : ~ CanWrite(a, p)'}]
    /\ UNCHANGED <<writing, edits, commits, drift, result, merge, phase>>

(* Mutant of BeginWrite: the lease is not checked. *)
BeginWriteUnchecked(a, p) ==
    /\ stage[a] = "running"
    /\ writing' = [writing EXCEPT ![a] = @ \cup {p}]
    /\ UNCHANGED <<leaseVars, edits, commits, drift, result, merge, phase, freed>>

(* The leased write and edit tools: the check ... *)
BeginWrite(a, p) ==
    /\ stage[a] = "running"
    /\ CanWrite(a, p)
    /\ writing' = [writing EXCEPT ![a] = @ \cup {p}]
    /\ UNCHANGED <<leaseVars, edits, commits, drift, result, merge, phase, freed>>

(* ... and the file operation. *)
EndWrite(a, p) ==
    /\ p \in writing[a]
    /\ writing' = [writing EXCEPT ![a] = @ \ {p}]
    /\ edits' = [edits EXCEPT ![a] = @ \cup {p}]
    /\ UNCHANGED <<leaseVars, commits, drift, result, merge, phase, freed>>

(* The agent runs git commit through its bash tool; nothing else commits. *)
Commit(a) ==
    /\ stage[a] = "running"
    /\ edits[a] # {}
    /\ commits' = [commits EXCEPT ![a] = @ \cup edits[a]]
    /\ edits' = [edits EXCEPT ![a] = {}]
    /\ UNCHANGED <<leaseVars, writing, drift, result, merge, phase, freed>>

(* Mutant of Finish: the leases are released when the run ends, not when its
   branch has been merged. *)
FinishReleasing(a, outcome) ==
    /\ outcome = "done" => writing[a] = {}
    /\ stage[a] = "running"
    /\ stage' = [stage EXCEPT ![a] = "ended"]
    /\ leases' = [leases EXCEPT ![a] = {}]
    /\ result' = [result EXCEPT ![a] = outcome]
    /\ UNCHANGED <<writing, edits, commits, drift, merge, phase, freed>>

(* The run is over.  A batch of tool calls is awaited as a whole, unless an
   exception ends the run in the middle of it. *)
Finish(a, outcome) ==
    /\ outcome = "done" => writing[a] = {}
    /\ End(a)
    /\ result' = [result EXCEPT ![a] = outcome]
    /\ UNCHANGED <<writing, edits, commits, drift, merge, phase, freed>>

(* The orchestrator learns of a failure while the wave goes on. *)
ReleaseFailed(a) ==
    /\ phase = "work"
    /\ result[a] = "failed"
    /\ Release(a)
    /\ UNCHANGED treeVars

-----------------------------------------------------------------------------
(* The orchestrator after the wave *)

WaveOver ==
    /\ phase = "work"
    /\ \E a \in Agents : stage[a] = "ended"
    /\ \A a \in Agents : stage[a] # "running"
    /\ phase' = "merge"
    /\ UNCHANGED <<leaseVars, writing, edits, commits, drift, result, merge, freed>>

(* git merge can conflict only over something both sides have changed. *)
Clash(a) == \E p \in commits[a], q \in drift[a] : Overlap(p, q)

MergeSucceeds(a) ==
    /\ merge' = [merge EXCEPT ![a] = "merged"]
    /\ drift' = [b \in Agents |->
                    IF b # a /\ stage[b] # "unborn" THEN drift[b] \cup commits[a]
                    ELSE drift[b]]

MergeConflicts(a) ==
    /\ Clash(a)
    /\ merge' = [merge EXCEPT ![a] = "conflict"]
    /\ UNCHANGED drift

(* merge(agentId) takes what is committed on the branch. *)
Merge(a) ==
    /\ phase = "merge"
    /\ stage[a] = "ended"
    /\ result[a] = "done"
    /\ merge[a] = "none"
    /\ MergeSucceeds(a) \/ MergeConflicts(a)
    /\ UNCHANGED <<leaseVars, writing, edits, commits, result, phase, freed>>

(* cleanupAgent for the whole wave: worktrees and branches go, whatever they
   still hold, and so do the leases. *)
CleanUp ==
    /\ phase = "merge"
    /\ \A a \in Agents : stage[a] = "ended" /\ result[a] = "done" => merge[a] # "none"
    /\ leases' = [a \in Agents |-> IF stage[a] = "ended" THEN {} ELSE leases[a]]
    /\ stage' = [a \in Agents |-> IF stage[a] = "ended" THEN "gone" ELSE stage[a]]
    /\ phase' = "work"
    /\ writing' = None
    /\ edits' = None
    /\ commits' = None
    /\ drift' = None
    /\ freed' = None
    /\ merge' = [a \in Agents |-> "none"]
    /\ UNCHANGED result

-----------------------------------------------------------------------------

AgentStep(a) ==
    \/ Spawn(a)
    \/ \E request \in SUBSET Paths : ClaimPaths(a, request) \/ GiveUpPaths(a, request)
    \/ \E p \in Files : BeginWrite(a, p) \/ EndWrite(a, p)
    \/ Commit(a)
    \/ \E outcome \in {"done", "failed"} : Finish(a, outcome)

WNext ==
    \/ \E a \in Agents : AgentStep(a) \/ ReleaseFailed(a) \/ Merge(a)
    \/ WaveOver
    \/ CleanUp

WSpec == WInit /\ [][WNext]_vars

-----------------------------------------------------------------------------
(* Properties *)

(* Types; only files are written, and no claim is out of its role's scope. *)
WTypeOK ==
    /\ TypeOK
    /\ writing \in [Agents -> SUBSET Files]
    /\ edits \in [Agents -> SUBSET Files]
    /\ commits \in [Agents -> SUBSET Files]
    /\ drift \in [Agents -> SUBSET Files]
    /\ result \in [Agents -> {"none", "done", "failed"}]
    /\ merge \in [Agents -> {"none", "merged", "conflict"}]
    /\ phase \in {"work", "merge"}
    /\ freed \in [Agents -> SUBSET Files]

(* The leases of the lease manager carried through to git: of two agents that
   may both still be merged, one has given up its lease on what they have both
   changed.  Nothing else makes branches overlap: not the awaits between the
   check of a lease and the write, nor the end of a run, nor the release of an
   agent that failed. *)
Mergeable(a) ==
    stage[a] \in {"running", "ended"} /\ result[a] # "failed" /\ merge[a] = "none"

GivenUp(a, p, b, q) == p \in freed[a] \/ q \in freed[b]

OverlapsWereReleased ==
    \A a, b \in Agents :
        a # b /\ Mergeable(a) /\ Mergeable(b)
            => \A p \in Touched(a), q \in Touched(b) :
                   Overlap(p, q) => GivenUp(a, p, b, q)

(* A merge of a wave conflicts, in whatever order the branches are merged, only
   with a branch merged before it, over files that one of the two agents had
   changed and then released.  SANDBOX.md says "Leases and path scope prevent
   cross-agent file conflicts": they do for the agents that keep their leases. *)
ConflictOver(a, b) ==
    \E p \in commits[a], q \in commits[b] : Overlap(p, q) /\ GivenUp(a, p, b, q)

ConflictsWereReleased ==
    \A a \in Agents :
        merge[a] = "conflict"
            => \E b \in Agents \ {a} : merge[b] = "merged" /\ ConflictOver(a, b)
=============================================================================
