# A formal model of pi-chorus

pi-chorus runs a *mission*: it splits a task into subtasks, spawns one coding
agent per subtask in a git worktree of its own, lets the agents coordinate
through leases, messages and negotiation rooms, merges what they committed, and
runs a verification gate. Below that lies a library for single agents: the loop
of model requests and tool calls, sessions that survive a crash, and adapters
for a number of model providers. This directory holds TLA+ models of both, the
TLC runs that check them and proofs about them for TLAPS.

Paths below are relative to `src/packages/`; `ARCHITECTURE.md`, `SANDBOX.md` and
`GETTING-STARTED.md` are in `src/`.

## 1. Inventory

### The mission

| Component | State | Operations | Correct when |
|---|---|---|---|
| Orchestrator (`orchestrator/src/orchestrator.ts`) | mission status, agents, subtasks remaining and completed, wave promises, respawn counts, capability requests, round | `run`, `spawnAgent`, `spawnAgentFromRole`, `respawnAgent`, `handleCapabilityRequests`, `arbitrateExpiredRooms`, `resolveDeadlocks`, `cleanupAgent` | dependencies are respected, caps hold, nothing that runs loses its resources, nothing that succeeded is dropped before its merge, every wave is cleaned up, the mission ends |
| Capability registry (`coordination/src/capability-registry.ts`) | entries (never deleted, only deactivated), catalog | `register`, `deactivate`, `findBy...`, `getActiveCount`, `nextInstanceId` | instance ids are unique, the active count is right |
| Lease manager (`coordination/src/lease-manager.ts`) | leases by agent, scopes by role | `claim`, `release`, `releasePaths`, `canWrite`, `getHolder` | at most one agent may write a path |
| Room manager (`coordination/src/room-manager.ts`) | rooms, decision records | `open`, `recordTurn`, `resolve`, `invite`, `getExpiredRooms` | turn budget, durable decisions that their members know, an expired room gets decided |
| Message bus (`coordination/src/message-bus.ts`) | subscriptions, global handlers, log | `subscribe`, `subscribeAll`, `send`, `unsubscribeAll` | every subscriber gets each message once, in order |
| Watchdog (`orchestrator/src/watchdog.ts`) | wait edges, agent health | `addWait`, `removeWait`, `removeAgent`, `detectDeadlocks`, `getTimedOutWaits` | exactly the cycles are reported, the youngest member is named |
| Agent runner (`orchestrator/src/agent-runner.ts`) | inbox, environment, agent | `run`, `abort`, the tools an agent calls | write access only under a lease; each tool is one call of a manager |
| Worktree manager (`worktree/src/worktree-manager.ts`) | worktrees by agent; git branches, worktrees and the integration branch | `create`, `merge`, `remove`, `get` | branches of a wave merge, completed work is merged |
| Verification gate (`worktree/src/gate.ts`) | none | `run` | verdict about the integration branch |
| Trace store, Lamport clock (`trace/src`) | events, clocks, missions | `emit`, `clockFor`, `tick`, `merge`, `getCausalChain` | clocks respect causality |
| Multi-agent runner (`orchestrator/src/multi-agent-runner.ts`) | runners, results | `run` | a subset of the orchestrator |
| Task decomposer, role catalog, briefing, approval, logger (`orchestrator/src`) | none that outlives a call | parsing, prompts, dialogue | |

### The single agent

| Component | State | Operations | Correct when |
|---|---|---|---|
| Agent core (`agent/src/agent.ts`, `agent-loop.ts`) | transcript, context of the run, steering and follow-up queues, abort signal | `prompt`, `continue`, `steer`, `followUp`, `abort`, `reset`, turns, tool batches | every request can be answered, each message of the user is in one place, an abort ends the run |
| Compaction and context (`agent/src/harness/compaction`, `session/context.ts`) | compaction entries on a branch | preparation, cut points, building the context | nothing is forgotten, calls keep their results |
| Session state, JSONL storage (`agent/src/harness/session`) | a tree of entries, lanes, open operations, labels; a file with one mutation per line | append, create and move lanes, label, open, fork, repair | memory is what the file says; what was acknowledged is never lost |
| SQLite backend (`session-backends/sqlite-node`) | tables of the log, lanes, branches and tips; writer leases | the same, by several processes | one writer at a time; derived tables agree with the log |
| Agent harness (`agent/src/harness`) | runs, recovery reducer | drives loop and session | |

### The provider library

| Component | State | Operations | Correct when |
|---|---|---|---|
| Adapters (`ai/src/api/*.ts`) | the blocks of the reply so far, the provider's numbers of them | one handler per event of seven protocols | who follows the events has the message; a finished reply has every piece |
| Codex transport (`ai/src/api/openai-codex-responses.ts`) | cached WebSockets per session and account, what each has carried, sessions fallen back to SSE | acquire, stream, retry, fall back, idle and age limits, cleanup | connections are not shared, the server sees the whole conversation, an answer is from one attempt |
| Event streams, lazy loader (`ai/src/utils/event-stream.ts`, `ai/src/api/lazy.ts`) | a queue and a waiting consumer | `push`, `end`, the iterator, forwarding | no event is lost |
| Credentials (`ai/src/auth`) | credentials behind a chain of promises per provider | `read`, `modify`, `delete`, `getAuth`, login, logout | a refresh token is used once; logged out stays logged out |
| Model catalog (`ai/src/models.ts`, `models-store.ts`) | generation, refresh under way, list in memory and in the store | `refresh` | an older list never replaces a newer one |
| Terminal UI, CLI, viewer, telemetry (`tui`, `cli`, `viewer`, `telemetry`) | | rendering, arguments, HTTP output, spans | |

### How they interact

One orchestrator owns one bus, lease manager, registry, room manager, watchdog
and worktree manager and hands all but the last two to every agent runner.
Everything lives in one JavaScript process: a method of a manager is synchronous
and hence atomic; what interleaves are the agents (each an async loop of model
calls and parallel tool batches) and the orchestrator between its awaits.
`BLOCKED_ON` messages reach the watchdog by a callback on the bus. Capability
requests reach the orchestrator through an array it drains after each wave. git
is a shared, external state: branches, worktrees and the main checkout.

An agent runner runs the agent core, which asks a model by way of an adapter. The adapter
pushes the events of the reply into an event stream, the lazy loader of the
adapters forwards them into another, and the agent loop reads that. Before the
request `models.ts` gets the credential, refreshing it when it is stale. The
harness writes what the loop produces into a session, from which the context of
later runs is built. A SQLite session may be written by several processes; all
else that is shared is shared by the async functions of one process.

### What is hard

* Claims on files and on the directories around them, partial releases and the
  gap between the lease check and the write.
* A loop over a `Map` that is extended by respawns while it awaits its entries.
* Four different ends of an agent (success, failure with respawn, failure out of
  respawns, killed in a deadlock) and four kinds of agents (first, respawned, for
  a capability, never spawned because of the cap).
* The order *deadlocks, capability requests, arbitration, merge, cleanup* after a
  wave, each of which changes what the next one sees.
* Records that outlive the agents they are about: rooms, decisions, wait edges,
  registry entries.
* A crash in the middle of a line of a session file, and leases on a session that expire while their
  owner sleeps with writes in its queue.
* Messages, aborts and failing listeners at every await of a run.
* Requests that overlap on connections which are kept, replaced, timed and closed.
* Refresh tokens that are good for one use, with callers that give up meanwhile.
* Refreshes superseded while they restore, wait, fetch or write.

`PROJECT.json` lists the hazards one by one with the line where each bites and
the properties that cover it; a hazard without a property says what is missing.

## 2. Modules

| Module | Models | Proofs |
|---|---|---|
| `FileOwnership` | abstract: exclusive owners of paths | |
| `LeaseManager` | the lease manager and the life of the agents that call it | `WorktreeManagerProofs` |
| `WorktreeManager` | extends `LeaseManager` by worktrees, branches, writes and merges | `WorktreeManagerProofs` |
| `RoomManager` | rooms, decisions, the room tools, who is told, arbitration | `CoordinationProofs` |
| `Watchdog` | the wait-for graph and `detectDeadlocks` as an algorithm | `CoordinationProofs` |
| `Orchestrator` | `Orchestrator.run` with the registry, worktree table and wait-for graph | `OrchestratorProofs` |
| `SessionState` | the state of a session, the mutations it accepts, its forks | |
| `SessionLog` | abstract: a log of acceptable mutations that only grows | |
| `JsonlSession` | a session in a file; implements `SessionLog` | `SessionProofs` |
| `SqliteSession` | a session in a database, with writer leases; implements `SessionLog` | `SessionProofs` |
| `Transcript` | a conversation, and what is sent of it to a model | |
| `Compaction` | extends `Transcript` by compactions and the context after them | |
| `Agent` | extends `Compaction` by the agent and its loop | `AgentProofs` |
| `CodexResponses` | the requests of a session over WebSockets and SSE | `CodexResponsesProofs` |
| `ReplyStream` | seven provider protocols and the replies made from them | `StreamProofs` |
| `EventStream` | two event streams in a row | `StreamProofs` |
| `Credentials` | the credential of a provider | `ModelCatalogProofs` |
| `ModelCatalog` | extends `Credentials` by the refresh of the model list | `ModelCatalogProofs` |
| `MC...` | instances of these for TLC | |

In each module, definitions headed "Mutant of X" are X with one plausible
mistake. They are part of no specification: exchanging X for its mutant must
break the property that the mutant is paired with in `PROJECT.json`.

### Lease manager

`leases[a]` is the set of paths in `Lease.paths`; `Below` is what
`path.startsWith(claimed + "/")` decides between two paths, assumed to be the
order of a file tree. `Claim` is the loop of `claim` with its two tests (scope,
then overlap with the claims of others); a request may mix directories and files.
Checking the paths of one request one after the other is the same as checking
them at once, because a path is compared with the claims of *other* agents only.
`stage[a]` is the life of the agent: the tools are called only while its runner
is in progress, `release` only when it is over.

`FileOwnership` has one owner per path, who acquires free paths and yields its
own. The refinement maps the owner of a path to the agent that passes `canWrite`.

### Worktrees

A worktree is four sets of files: being written, edited, committed on the branch,
and changed on the integration branch since the branch was cut (`drift`). A write
is two steps, the lease check and the file operation, since the code awaits in
between and tool calls of one batch run in parallel; an agent's own release may
come between the two. A merge may conflict only if both sides have changed
overlapping paths; then it may conflict or not. The files are abstract, so
conflicts are over-approximated: what is shown for every pair of overlapping
changes holds for those that git can reconcile.

An agent may release a path at any time, also one that it has changed or is
changing: the release tool looks at nothing but the lease. `freed[a]`, a history
variable that no action reads, collects the files that `a` gave up after it had
changed them. The properties say that such a release is the *only* way in which
branches come to overlap and merges to conflict.

### Rooms

A room is its status, members, budget, turns and current decision. The tools can
be called by any agent that knows the id, so every running agent may send to and
resolve every room. Arbitration happens between waves: when no agent is running.
`heard[a]` is what an agent knows of the decisions: those in the prompt it was
spawned with, and those that reached its inbox. `Tell` is `MessageBus.send`: it
reaches who is subscribed at the time, and nobody else. In the code the participants of a record *are* the
array of the room's members; the model copies them, and `DecisionsAreFinal` says
that the difference never shows, because a decided room takes no more members.

### Watchdog

`waitEdges` is the array. `Path` is the inner loop of `detectDeadlocks` for one
start node (`Further` one round of it), `CycleOf` the cycle it ends in, `DetectDeadlocks` the outer loop (`Visit`) with
its set of visited nodes. The reference is the definition: a cycle is a smallest
nonempty set of waiters none of which waits for anybody outside of it. `Number`
is the instance number that `findYoungest` reads from the id. `removeAgent` is
modelled with its splices, for `RemovalIsComplete`.

### Orchestrator

`pc` is the place `run` has reached; steps between two awaits that no agent can
observe are separate actions, but agents move only at `await` and `capAwait`.
`agents[i]` is the i-th entry of `mission.agents` together with its registry
entry (`active`, `num`), its worktree (`tree`), whether it may hold leases
(`leases`) and what became of its merge. `queue` is the set of ready subtasks that
are not spawned yet; `IsNext` takes them in the order of the plan.

| Action | Code in `run` and its helpers |
|---|---|
| `ApprovePlan`, `RejectPlan` | approval of the plan |
| `BeginRound`, `EndMission` | head of the repair loop, final status |
| `BeginWave`, `EndWaves` | ready subtasks, wall time, dependency deadlock |
| `Deny`, `Spawn`, `AwaitWave` | the spawn loop |
| `TakeSuccess`, `TakeFailure` | the loop over `wavePromises`, with removal from the watchdog, release of leases, respawn |
| `ResolveDeadlocks` | `resolveDeadlocks` with its timeouts |
| `Refuse`, `SpawnProvider`, `TakeProvider` | `handleCapabilityRequests` |
| `MergeWave`, `CleanUpWave` | merges in any outcome, cleanup |
| `RunGate` | verdict, next round |
| `AgentEnds`, `RequestCapability`, `BlockOn`, `SayDone` | what agents do to the orchestrator |
| `RunOutOfTime` | the clock passes `maxWallTimeMs` |
| `Throw` | git or an agent's run throws: `run` rejects |

The outcome of merges, gate, approval, timeouts and agents is nondeterministic.
Rooms and arbitration do not touch this state and have their own module. The names
of the subtasks in a plan are assumed to be distinct, which the code does not check.

### Sessions

`SessionState` translates `harness/session/state.ts`: `Accepts` and `Apply...`
are the checks and the effects of `applyMutation`, `Replay` is a fold over a
log, the forks are `createForkMutations` with its order of maps made explicit.
Both stores use it, as the code does. `WellFormed` is the type of a call: the fields
`types.ts` gives it, an entry having an id (it is not null, which is `Root`) and a lane.
`InOrder` lists entries by their rank, and the map updates are `Put`, so that both can be
reasoned about.

`JsonlSession`: `file` holds whole lines or `Torn`, `ended` whether the last one
has its newline. A call goes through `queue` (the promise chain), is checked when its
turn comes (`StartAppend`), put into the file in pieces (`PutPart`, `PutLine`, and its
newline in `EndAppend`) and then applied to `mem`. `FailAppend` and `Crash` may come
after any piece and leave what was put; after a failure the process goes on, and the
next line joins what is left of the last. `ReadForOpen`, `ReadForFork` and `Repair`
are `load`, which publishes the lines before a torn tail, or adds the newline. A fork
loads at any moment of an append; when it publishes, the writer may have the old
file open and go on with it (`detached`). `damage` is a history variable: `apart`
when a failed append or a fork has put file and memory apart, `built` when more was written
since, `none` again when the session is opened from a file on which nothing was built. What is promised
with each value is in `MemoryIsTheFile`: the file loads, or memory also is what it says.

`SqliteSession`: a transaction is one step. A process has a storage with the owner
id and the fence of its lease, a queue and a heartbeat timer. `Tick` lets time
pass for all; a process in `Prompt` has its timer fire when it is due, the others
may sleep for as long as they like. `Write` renews the lease in the transaction of
the write, and `Lose` is what happens if that finds another owner. `branches` and `tips`
are the cache of paths in `branch-cache.ts`, `RepairCache` its rebuilding;
`ForkEntries`, `ForkLanes` and `ForkWrites` are a tree fork, which reads in several
steps outside a transaction.

`SessionLog` has two actions: `Commit`, by which a mutation gets into the log, and
`Answer`, if its caller hears of it later. Both stores are shown to implement it:
the file (or the rows) is its log, what was answered is `acked`. `sound` says for
which steps a store answers: the database for all, the file for those that lead to a
state in which it and memory agree. The names of
`SqliteSession` (`SqliteSpec`, `EnqueueWrite`, `RowsImplementSessionLog`) differ from those of
`JsonlSession`, so that `SessionProofs` can extend both.

### Agent

A message is one of the user's (by number), a reply with a number of calls,
possibly broken off, or the result of a call. `TransformMessages` is
`transform-messages.ts`, a fold. `Compaction` has the cut points, split turns and repeated
compaction of `compaction.ts`, and `BuildContext` of `session/context.ts`; a
summary is the set of messages it was made from.

`Agent`: `pc` is what the run awaits: its prompts, the polls of the two queues,
the model, the end of the reply, tool calls that are prepared, executed, shown, the end
of the turn. `LoopStep` is the disjunction of the loop's own steps; beside them the user
prompts, steers, aborts, clears and resets (`reset` and `clearAllQueues` are allowed
at any time, as in the code), and a listener or hook throws
(`Throw`). Batches are sequential, parallel or refused whole because the reply was cut off.
`context` is the copy a run works on, `messages` the transcript. `strays` are
calls of an aborted run whose promises nobody awaits any longer.

### Provider library

`CodexResponses`: each of `MaxRequests` requests has a `pc` along
`streamOpenAICodexResponses`; `sockets` are connections with their cache entry (busy,
idle timer, age, what they have carried); `cache` is the session's map by
account. The server's events, failures and closings come at any time, and
every timeout is a free choice. `part` says whether parts of the answer of the
attempt are out, `stray` counts the attempts that were given up after that, and the reply of
a request with strays is `Mixed`: the next input carries it, the server has its own. `Acquire` and `Connected` are two steps, because
`acquireWebSocket` awaits between looking into the cache and writing it.

`ReplyStream`: `wire` is the provider, which keeps to its protocol but ends or
fails anywhere; `out` is what the adapter has made of it, with its own map from
the provider's numbers to positions. Blocks of a kind the adapter does not know
are announced and stopped and make no block. A numbered block may never be stopped, and
no adapter checks that it was. Four adapters number blocks (Anthropic,
Responses, Bedrock, pi), three only get pieces (Completions, Google, Mistral) and
decide themselves where a block ends; one operator per adapter and event.

`EventStream` has `push` with its waiting consumer, the iterator, and two streams
connected as in `lazy.ts`, with a load that fails.

`Credentials` has the provider's `chain` of tasks and, for each call, where it
is: `getAuth` with its look before and behind the chain, login, logout. Tokens age
(fresh, ageing, over); the server takes a refresh token once, and its answer may be lost.
Only `getAuth` has a timeout on its refresh; `Unbounded` calls, those of a model refresh
that wait for a server and are not aborted, may wait for ever.
`ModelCatalog` adds the refresh of a provider's model list with `generation`,
superseding and the chain of publications.

## 3. Runs

| Run | Instance | Shows |
|---|---|---|
| `leases` | 3 agents (two of one role), 5 paths on three levels; 1,488 states | `LeasesDisjoint`, `ImplementsOwnership` (refinement of `FileOwnership`) |
| `worktrees` | 3 agents, a directory and two files in it, one of which all three write; symmetry of the two agents of one role; 719,263 states | `OverlapsWereReleased`, `ConflictsWereReleased` |
| `rooms` | 2 agents, 2 rooms, budgets 0 and 2, 3 decisions by agents; 112,741 states | `MembersKnowTheDecisions`, `DecisionsAreFinal`, `BudgetEndsInADecision` |
| `watchdog` | 4 agents, two pairs with equal numbers, every graph and edge order; 7,889 states | `ReportsExactlyTheCycles`, `RemovalIsComplete` |
| `mission` | 5 subtasks (one depends on another, one has no role), cap 2, 2 rounds, 1 respawn, 1 capability request, 1 `BLOCKED_ON`; 472,572 states | `SpawnsAreBounded`, `RunningKeepsItsResources`, `WavesAreSettled`, `DependenciesComeFirst`, `GateEndsTheWork`, `MissionEnds` |
| `jsonl` | 8 calls on two lanes, 2 in the queue, 3 lines, one load at a time; 5,664,459 states | `MemoryIsTheFile`, `OneOpenOperation`, `ForksMatch`, `ImplementsSessionLog` |
| `sqlite` | 2 processes, one of which may sleep; leases of 2 ticks renewed after 1, 2 owners, 4 rows; 506,760 states | `WritersDoNotInterleave`, `TablesMatchTheLog`, `PromptWritersKeepTheirLease`, `ForksAreWhole`, `RowsImplementSessionLog` |
| `agent` | 3 messages of the user, a reply with up to 2 calls; 744,754 states | `RequestsAreAnswered`, `EachMessageOnce`, `SteeringWaitsOneTurn`, `CompactionKeepsTheEnd`, `AbortEnds` |
| `codex` | 3 requests, 2 at a time, 2 accounts, 3 connections, 1 retry; 1,150,988 states | `ConnectionsAreNotShared`, `ServerSeesTheWholeInput`, `IdleConnectionsExpire`, `AnswersAreNotMixed` |
| `replies` | 7 adapters, 4 pieces, 2 numbered blocks; 99,181 states | `ListenerRebuildsTheMessage`, `DoneIsWhole` |
| `events` | 5 events and the last one; 556 states | `NothingIsLost`, `ListenerHearsAll` |
| `models` | 3 calls, 3 refresh tokens; 844,396 states | `CredentialIsGood`, `EveryCallIsAnswered`, `CatalogNeverGoesBack` |

Why the bounds are enough. The properties of leases and branches relate two
agents and two paths one of which may lie above the other; a third agent with
another scope covers what both depend on, and the proofs remove the bound. Two
agents and two rooms let a room be decided twice, by an agent and by another or
by the orchestrator, while an agent comes and goes. Four
agents give the watchdog a cycle with a chain into it, two disjoint cycles, and
self-waits, in every edge order. In `mission` the first wave overfills the cap,
so that subtasks and a respawn are denied, and the wave of one leaves room for a
respawn, or for an agent with the requested capability, which then takes a place under the
cap for good; with one respawn and two rounds the respawn count runs out in the second round.
`MaxRespawns` is 2 in the code and 1 in the run; the number only
decides how often the same step is repeated. `MaxRequests`, `MaxBlocks` and
`MaxDecisions` bound how often agents call a tool, which the code does not.

Three lines hold an operation that starts and finishes and the next one, an entry with a lane
on it and an entry there, or a torn line with one glued to it and one behind; two calls in the
queue are what it takes for the first to invalidate the second. One load at a time
is under way in `jsonl`; it may begin and end at any point of any append. In `sqlite` four rows give two branches that share their
beginning, and one take-over is what the fence is for; more owners repeat it.
The transcripts in `agent` have a prompt, a reply with two calls, one answered, a
steered message and a further prompt; compaction is applied twice, with every number of
kept messages, to the transcript of every finished run. Three requests of which two
overlap leave a connection replaced in the cache, one kept and one closed. Two blocks that
grow side by side with four pieces already have the provider's number, the
position and the order of ends all different. Three calls on a credential are
one that refreshes, one that waits and one that logs out, or three refreshes of the models.

Deadlock is checked in `watchdog` and `mission`. Elsewhere the instance really
comes to rest: when all agents are gone, all calls answered, all requests
made, or (`jsonl`, `sqlite`, `agent`) a bound reached.

### Fairness

`Orchestrator!FairSpec`: weak fairness of the orchestrator's own steps (a
promise that has settled is taken up by the event loop) and of the end of some
running agent. The latter is an assumption about the agents: their turns are not
limited, and `MissionEnds` is a statement about the loops of the orchestrator,
*given* that runs end. `RoomManager!FairSpec` assumes the same of every run and that the
orchestrator arbitrates after a wave. `Agent!Spec`: weak fairness of `LoopStep`:
the model and the tools answer, hooks and listeners return. A model that is aborted
is one that answers, since adapters end the reply when the signal fires.
`EventStream!Spec`: weak fairness of the forwarding loop and of the
listener's, which the event loop of JavaScript gives. `ModelCatalog!Spec`:
weak fairness of the steps of calls, but for those that are `Unbounded`: a refresh in `getAuth` is
answered or times out, one that was aborted ends, and the stores settle. The requests of a
model refresh have no timeout in `models.ts`, so nothing says that they end, and
`EveryCallIsAnswered` excepts them and the tasks queued behind one. What waits for the user (a
login dialogue) is under no fairness.
The other specifications state safety only.

### Gaps met while modelling

These are behaviours the models contain, unless it is said otherwise, and what the repository
says of them, where it says anything. The properties are stated so as to hold
with them, and say how far they go.

1. **A dropped subtask does not fail the mission.** A spawn or a respawn refused at the cap leaves the
   subtask neither completed nor remaining; its dependents end the waves as a
   "dependency deadlock", and a passing gate makes the mission `succeeded`
   (`ARCHITECTURE.md:159` says otherwise). `SpawnsAreBounded` and
   `DependenciesComeFirst` are stated so as to hold nevertheless.
2. **Capability agents are never cleaned up** (`ARCHITECTURE.md:161`). They keep
   lease, worktree and registry entry when they fail and when they succeed; their
   branch is never merged. `WavesAreSettled` speaks of agents of a wave.
3. **Leases do not prevent conflicts if agents release early** (`SANDBOX.md:12` says that
   they do): edit, commit, release, then another agent claims and edits.
   `ConflictsWereReleased` says that there is no other way.
4. **Uncommitted work is lost** (`GETTING-STARTED.md:200`): only the agent itself
   commits, through its bash tool, and `remove --force` deletes the rest.
5. **A room can be resolved more than once** (`coordination/src/types.ts:39`).
   The records stay true (`DecisionsAreFinal`) and members know all of them.
6. **Notices of arbitration, deadlock and capabilities reach nobody:** the agents
   they are addressed to have unsubscribed.
7. **A line that was written in part** by a process that goes on (a full disk)
   makes the session file unreadable once the next line was written behind it. **A fork that
   reads while an append is under way** publishes the file without that line, whose
   caller is told that it was written; `agent/CHANGELOG.md:44` speaks of durable entries. Both set
   `damage`, and the properties end where more was written on top of it.
8. **`claimSession` of the SQLite backend** may return a storage whose lease was
   already lost (`sqlite-node/src/sqlite/repo.ts:706`). Its first write fails.
9. **Messages taken from a queue are lost when the run fails** before they are
   injected (`gone` in `Agent`).
10. **Compaction of a split turn without history** forgets the earlier summary
    (`harness/compaction/compaction.ts:732`). `CompactionKeepsTheEnd` speaks of what the code
    does keep.
11. **The pi adapter loses the partial content** of a reply that fails
    (`ai/README.md:669` says errors keep it). `DoneIsWhole` speaks of replies
    that are done.
12. **Codex:** a status that is refused is retried as a network error would be
    (`openai-codex-responses.ts:433`), and a response that completes without
    success turns WebSockets off for the session (lines 325 and 358). When the backend has
   lost the response to go on from, the request is made again even if parts of an answer
   are out (lines 336-340, unlike line 335), and the reply has parts of both
   (`openai-codex-stream.test.ts:2142` has an event before the error).
   `AnswersAreNotMixed` says that this is the only way, and that it happens once.
13. **A refresh of the models without a timeout** (`models.ts:458-465`) holds the chain of the
    credential for as long as the token endpoint hangs, and every `getAuth`, login and logout
    of the provider behind it (`ai/CHANGELOG.md:140`). The 15 seconds of
    `resolve.ts` are for `getAuth` only.
14. **A reply may be done with blocks that have no end event**
    (`bedrock-converse-stream.ts:324`, test `bedrock-redacted-reasoning.test.ts:165`). In all four
    numbered protocols the adapter tells an end only where the provider does; `DoneIsWhole` says that the other
    blocks have theirs, and that no piece is missing from either.
15. **An aborted refresh of a credential** may lose the rotated token; the next
    call sends the old one again. `CredentialIsGood` allows exactly this case.
16. **A stalled write of the model store** holds up all later publications of
    that provider (`ai/CHANGELOG.md:144`): hence the fairness that stores settle.

## 4. Proofs

`WorktreeManagerProofs`, part one: the leases, for all agents, roles, scopes and path trees. The inductive
invariant is `TypeOK /\ LeasesDisjoint`. That at most one agent may write a path
is not inductive: it follows because two directories above the path would
lie one in the other, so the claims on them would overlap (`CoversOverlap`).
`WritersOfAStep` is the heart of `NoHandOver` and of the refinement: a claim that
covers `p` cannot be granted while another agent covers `p`. For
`LeasesImplementOwnership` each step maps to an acquisition (a claim), a yield
(the releases) or a stutter.

Part two: the worktrees, for all of these and all sets of files, whenever agents release.
`ConflictsWereReleased` alone says nothing about why other merges succeed; the invariant `WInv`
adds that whatever a mergeable agent has touched and not given up since is covered by its
leases (`Covered`), that only agents that ended well are merged
(`MergedIsOver`), that nobody runs during merges (`Settled`) and that the drift of a branch was committed by
another merged agent (`DriftIsMerged`). Were neither of the two sides of a clash given up, they would be
covered by the leases of two agents, which do not overlap.

`StreamProofs`, part one, for replies of any length. `NothingIsLost` is not inductive:
a stream that is done drops what is pushed into it, so one has to know that the
second is closed only when nothing is left in the first (`ClosedIsDrained`), and
for that, that the last event is the last in the first stream (`LastIsLast`).
`Shape` says when a consumer waits, what it is handed and when it leaves. `IInv`
is these with the types; `EventsAreNeverLost` and `ClosedOnlyWhenDrained` follow.
Part two, `ReplyStream`, for any blocks and pieces. `ListenerRebuildsTheMessage` is an
invariant of the output, not of the state: `Sync` is kept by opening, growing and
closing a block (`OpenKeeps`, `GrowKeeps`, `CloseWithKeeps`), hence by every adapter
whatever event it is given, and by both ways to end what is open. The folds,
of a listener over events and of an adapter over its blocks, satisfy their
recursion by the induction of `SessionProofs`.

`DoneRepliesAreWhole` needs the state of each provider's protocol beside that of its
adapter. The invariant (`AllPlaced`) says that there is a map from pieces to blocks under which
the content is right (`Placed`: a block lists, in order, exactly the pieces the map gives it, all
of its kind, and the pieces of a numbered block or call are in one block), and that a slot stands for
the block of the pieces of its key (`Slotted`). `Told` is what the log has said of
every block: one start before its pieces, and one end after them unless it is among
those yet to end (`Unended`). Which slots there are is a matter of the protocol:
those of the open blocks, or of what has been sent (`NumberedSlots`, `CompletionsSlots`,
`GoogleSlots`, `MistralSlots`). An event that carries a piece extends the map by
it (`GrowKept`, `ItemKept`). A reply that completes leaves no other block unended than those its provider left open: the provider of a numbered
protocol has stopped its own or left them without an end, and for the others the fold of `Settle` does it (`SettleEnds`).

`CoordinationProofs`, part one, for any agents, rooms, budgets and decisions. That agents know
the decisions they have a part in needs to know who is a member of what: nobody joins
a room that is no longer open, and an agent that is spawned is told of every
decision there is. `DecisionsNeverChange` is `RecordsStayTrue` (the latest record of a
room is the one it points to, and its participants are the room's members) and an action
property that follows from it; `TurnsWithinBudget` says why an arbitration finds
only rooms that are at their end.

Part two, the watchdog, for any agents, waits and numbers. The invariant is only that no agent
has two waits (`WaitsOK`), kept because `addWait` removes before it adds; `NobodyWaitsForTheRemoved`
follows with what a filter written as a fold keeps. `DeadlocksAreFound` is about what the three nested loops of
`detectDeadlocks` return in any state. A walk that can go on has met as many waiters as
it has steps, so after as many steps as there are waits it is at its end (`AtItsEnd`); its last
node then waits for one of its nodes, and the loop from there is closed and has no smaller closed set in
it (`LoopIsCycle`), or it leaves the graph or enters visited nodes, and has met no cycle (`VisitNoLoop`). In
either case what was visited stays closed, and the cycles in it are those reported (`Detected`).

`OrchestratorProofs`, for any plan, roles, caps and numbers of rounds and
respawns. None of the properties is inductive. `IInv` relates the agents to where `run` is:
who runs is still to be awaited (`RunningOK`), and of the agents that had one subtask in the round
at most one is to be awaited and the others have failed (`AloneOK`), so that one
merge is made of it; agents of the wave keep their worktrees until the cleanup and
all others are settled (`WaveOK`, `SettledOK`); who waits for another
when the wave is over belongs to no subtask, so that breaking a deadlock takes nothing
from the wave (`WaitsOK`). `CountsOK` bounds the agents of a
subtask by the rounds it was spawned in and its respawns, where the attempts above `MaxRespawns`
count for nothing. For the ids, `NumberIsNew` shows that `nextInstanceId` gives out a
number above all those of the role. `DependenciesOK` follows a subtask that counts as completed
to the merge of its work: when the next wave begins, the one of its agents that was done is settled.
`TheGateIsTheEnd` needs only that a mission whose gate has passed is at the head of the
repair loop, or over.

`SessionProofs` is about both stores, and what they share. The library's induction theorems
take a predicate as a parameter and cannot be used, so part one proves its own
induction, over sets of numbers (`SetInduction`, from the well-foundedness of `Nat`),
and with it that the two recursive definitions satisfy their recursion: the fold behind `Replay`
(`ReplayAppend`: a log is replayed one mutation at a time) and the climb of `Ancestors`
(`PathIsAncestors`: any set of entries that has the parents of its entries and no gaps is the
set of ancestors of its last). A call that passes its checks makes a
mutation that is accepted (`AdmittedIsAccepted`) and leaves lanes with targets, one open
operation on each, labels on entries and entries in the order of their numbers (`Sound`, `Ordered`).

Part two, `JsonlSession`, for any calls, queue, failures of appends, forks and number of crashes, with no
assumption on how much of a line is written or on when a fork reads. `MemoryIsTheFile` is inductive only with
what is under way: while the two agree there is a whole log that memory replays, and the file is that log
and what the append has put (`Agrees`); the line that is written follows from memory
(`WritingOK`); and a load that will open the session has read the file as it is, that of a fork lines
of which only the last may be torn (`LoaderOK`). A failed append, or a fork's repair, ends the agreement and leaves such lines
(`GoodLines`), so that the session can be opened again; once more was written on top
(`damage` is `built`) nothing is claimed.
`OneOpenOperation` follows, as `Sound` is kept by every append. For `FileImplementsLog`,
the step that makes a line whole is a `Commit`, and the end of its append an `Answer`; a repair is a stutter,
since the torn line was never in the log.
For `ForksShowTheirSource` the log of a fork is described by the place of its mutations (`CopyLog`): each
stands behind those it depends on, so it replays (`CopyReplays`), and what it leaves has the parents and the
order of the entries it was made of, so the path to an entry is the same set in both and is listed
in the same order (`CopyShowsBranches`). This holds for any `Sound` state.

Part three, the writer leases of `SqliteSession`, for any number of processes and any
lease time with a heartbeat within it. `WritersDoNotInterleave` needs that the authors
of all rows are owners that came before the one the lease names (`AuthorsAreEarlier`), and that
two storages never have one owner id (`OwnersDiffer`). For `PromptWritersKeepTheirLease`, a prompt
storage has a heartbeat waiting in its queue, or a timer that fires before its lease is over
(`PromptKeep`).

Part four, its rows and tables, with no assumption on who writes. `RowsInv`: the lanes table shows
the lanes and the open operations of the replay, so the checks of a write, which read
the tables, are those of the log, and each row is a `Commit`. `CacheInv`: every cached
branch is the path to a tip of its own, the tips are the entries with no children, and every
entry is on a branch. It is kept when a branch is extended, when it is copied
up to an entry inside it, and when `repairBranchCache` writes all branches anew, in
another order. `ForkInv`: what a fork has read of the entries is all that there was up to
some number. If it missed any, the newest of those has no children and is a tip, so the copy is refused
(`NewestIsChildless`); this is why forks come out whole with no transaction around
their reads.

`CodexResponsesProofs`, for any requests, connections, accounts and retries. The
invariant says which of `pc`, the connection a request uses, the cache entry and its timer go
together: a connection is busy exactly while a request uses it, as long as the cache
knows it; what the server remembers of a connection is what its entry in the cache
continues from, but for a mixed reply; and a request that has handed on a part of its answer makes
a further attempt only by the one retry for a lost response.

`ModelCatalogProofs`, for any number of calls, logins and tokens. Only the call at the
head of the chain is at work on the credential, and what it found stored is still there
(`ChainOK`, `WorkOK`); a token that was sent is spent, and what replaces it is known only
to the call at work or lost (`ReplyOK`, `SpentOK`); a login that is over is not
on its way back (`LoginsToCome`, `LoginsWaiting`). For the model list, whoever is at the
head of the publications finds the shelf as it was when its turn came (`PublicationsOK`),
and generations only grow (`GenerationsOK`, `ListsOK`).

`AgentProofs`, for any number of messages, tool calls and replies. Every step moves a message of
the user from one place to another, so the number of its places stays one (`OnceOK`); that
needs lemmas on how often a message is in a queue that is drained, in one that is appended
to and in the transcript. What is drained from a queue comes before what is left in it, and what is
on its way into the run before what is queued (`OrderOK`). The copy of the transcript that a run works on
lags behind by the results shown since the last turn ended (`ContextOK`), so one has to
know how far each way of running a batch has come (`BatchOK`). A steering message that was next
at one request is polled before another (`WaitOK`): the flag that skips a poll is
set only where the queue was polled to begin the run.

Part two of `AgentProofs` is about what is sent to a model, for transcripts of any length. The results
in a transcript stand behind their reply, in any order and perhaps not all of them (`TranscriptOK`): an abort leaves
some out, but nothing comes between. The fold of `transformMessages` has, at every message, sent
acceptable messages and behind them a part of the results of the last reply, and fills in the rest
before it goes on (`TransformIsAcceptable`). `RequestsCanBeAnswered` follows. For `CompactionIsFaithful`, a cut point is a
message that is no result, so the end that is kept has the form of a transcript and is sent as an acceptable one
(`EndIsAcceptable`); a second compaction counts the messages behind the first summary, and cuts at one of these or at
one that came later, in the same order (`KeptAndAfter`, `TwiceKeepsTheEnd`).

The assumptions used are `LeaseConstants`, `PathTree`, `WorktreeAssumption`,
`MaxEventsAssumption`, `ApisAssumption`, `BoundsAssumption`, `RoomAssumption`, `WatchdogAssumption`, `MissionAssumption`, `LeaseAssumption`,
`PromptAssumption`, `AccountsAssumption`, `CredentialAssumption`, `CallsAssumption` (calls are
`WellFormed`), `IdsAssumption` (a record has an id), `TornAssumption` (a torn line is no
mutation), and those on the value that stands for "none": it is not a
connection, a lease, a run, a number, a mutation or a kind of block. TLC evaluates them in every run of these modules.
The inductive invariants were checked by TLC on the instances of their runs.

Every invariant, action property and refinement of a run is stated by a theorem. Only model-checked:
all liveness, since liveness under fairness is out of the provers' reach.

## 5. Plan

Done: the lease layer with its refinement, its composition with git, rooms, the
watchdog, the mission; sessions with their refinement in two stores, the agent loop
and compaction, the Codex transport, the reply protocols, event streams,
credentials and the model catalog; the proofs above.

Next:

1. The recovery reducer of the harness (`agent/src/harness/reducer.ts`) over the records of
   `SessionState`, once something calls it: at this commit only its tests do, and
   who writes the records it reads would have to be invented.
2. Handlers that unsubscribe during a delivery of the message bus.

## 6. Not modelled

* The terminal UI (rendering, editor, key decoding, LaTeX), the CLI, the viewer
  and telemetry: sequential code whose results are strings.
* The model tables and the script that generates them; the building of requests,
  usage, costs, signatures and ids in the adapters; the decoding of SSE frames.
  Together with the terminal UI this is most of the repository by lines, which is
  why the modelled share of it stays small.
* Task decomposition, prompts, briefing and approval: their results are inputs of
  the models. The trace store: nothing reads it during a mission, and nothing
  merges its clocks. The multi-agent runner: a subset of the orchestrator.
* The agent harness itself and its recovery reducer; the hooks `prepareNextTurn`
  and `transformContext`.
* Creating, deleting, listing and migrating sessions; `setProvider`,
  `deleteProvider`, `minOAuthValidityMs` and the image models.
* Writes through the bash tool, which no lease guards. Token counts, which are always 0 in the
  mission, and `maxSpawnDepth`, which is stored and never read.
* Spelling of paths (`./`, absolute paths): a path is a node of the tree.
