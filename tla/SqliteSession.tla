---------------------------- MODULE SqliteSession ----------------------------
(* One session in the SQLite store (session-backends/sqlite-node), used by
   several processes. A process writes through a storage that owns the session's
   writer lease: a row with an owner, a fence and an expiry, renewed in the
   transaction of every write and by a heartbeat. Next to the rows of the log
   (entries, records, lane moves, facts) the store keeps derived tables: where
   each lane points, its open operation, and a cache of root-to-tip branches.
   Every transaction is one step (BEGIN IMMEDIATE); a fork reads outside one. *)
EXTENDS SessionState

CONSTANTS
    Processes,
    Prompt,         \* processes that are never suspended: their timers fire in time
    TTL, Interval,  \* writerLease.ttlMs, heartbeatIntervalMs
    MaxOwners       \* leases acquired

ASSUME LeaseAssumption == TTL \in Nat /\ Interval \in 1..(TTL - 1)
ASSUME PromptAssumption == Prompt \subseteq Processes
ASSUME OwnersAssumption == MaxOwners \in Nat
ASSUME IdsAssumption == \A c \in Calls : c.kind = "record" => c.id # None
ASSUME NoneAssumption == None \notin Nat /\ None \notin [owner : Nat, fence : Nat, left : Nat]

VARIABLES
    log,        \* the rows that carry a sequence number, in its order
    lanes,      \* table lanes: leaf and open operation of each lane
    branches,   \* table branch_entries: the entries of each branch, oldest branch first
    tips,       \* table branch_tips: the branch that ends at an entry
    lease,      \* table writer_leases: None, or the row; the time it has left
    owners,     \* owner ids drawn so far
    storages,   \* the storage each process has for the session, or None
    authors,    \* the owner that wrote each row of the log
    fork        \* None, or what a fork of the whole tree has read so far

tables == <<log, lanes, branches, tips, authors>>
sqliteVars == <<tables, lease, owners, storages, fork>>

(* What waits on the queue of a storage. Which call it is, is chosen when its
   turn comes: nothing looks at it before. *)
Beat == "heartbeat"
Pending == "write"

SqliteInit ==
    /\ log = <<>> /\ authors = <<>>
    /\ lanes = [lane \in {Main} |-> [leaf |-> Root, open |-> None]]
    /\ branches = <<>> /\ tips = <<>>
    /\ lease = None /\ owners = 0
    /\ storages = [p \in Processes |-> None]
    /\ fork = None

-----------------------------------------------------------------------------
(* The rows and tables, as the checks of a call read them. *)
Rows ==
    [Replay(log) EXCEPT
        !.lanes = [l \in DOMAIN lanes |-> lanes[l].leaf],
        !.open  = {[lane |-> l, id |-> lanes[l].open] : l \in {k \in DOMAIN lanes : lanes[k].open # None}}]

(* Mutant of LanesAfter: an operation that starts is not noted on its lane. *)
LanesAfterEntry(m) ==
    CASE m.kind = "entry" -> [lanes EXCEPT ![m.lane].leaf = m.id]
      [] m.kind = "lane"  -> Put(lanes, m.lane, [leaf |-> m.leaf, open |-> None])
      [] OTHER -> lanes

LanesAfter(m) ==
    CASE m.kind = "entry" -> [lanes EXCEPT ![m.lane].leaf = m.id]
      [] m.kind = "lane"  ->
            Put(lanes, m.lane,
                [leaf |-> m.leaf,
                 open |-> IF m.lane \in DOMAIN lanes THEN lanes[m.lane].open ELSE None])
      [] m.kind = "record" /\ m.type = "operation_started" -> [lanes EXCEPT ![m.lane].open = m.id]
      [] m.kind = "record" /\ m.type = "operation_finished" /\ lanes[m.lane].open = m.run ->
            [lanes EXCEPT ![m.lane].open = None]
      [] OTHER -> lanes

(* The branch cache. Branch ids grow with time: the oldest branch is taken. *)
BranchWith(id) == Min({b \in DOMAIN branches : id \in branches[b]})
Through(b, id, s) == {e \in branches[b] : s.entries[e].seq <= s.entries[id].seq}
CachedPath(id, s) == Through(BranchWith(id), id, s)

(* Mutant of NewBranch: the new branch takes over the whole branch it leaves. *)
WholeBranch(parent) == IF parent = Root THEN {} ELSE branches[BranchWith(parent)]
NewBranch(parent) == IF parent = Root THEN {} ELSE Through(BranchWith(parent), parent, Rows)

(* appendEntryToBranchCache: extend the branch that ends at the parent, or copy
   the part of a branch up to it. *)
CacheAppend(id, parent) ==
    IF parent \in DOMAIN tips
    THEN /\ branches' = [branches EXCEPT ![tips[parent]] = @ \cup {id}]
         /\ tips' = Put([t \in DOMAIN tips \ {parent} |-> tips[t]], id, tips[parent])
    ELSE /\ branches' = Append(branches, NewBranch(parent) \cup {id})
         /\ tips' = Put(tips, id, Len(branches) + 1)

-----------------------------------------------------------------------------
(* The writer lease. *)
Claimable == lease # None => lease.left = 0
Owned(s) == lease # None /\ lease.owner = s.owner /\ lease.fence = s.fence

(* Mutant of Renewable: the lease is asked for its time only. *)
RenewableByTime(s) == lease # None /\ lease.left > 0
Renewable(s) == Owned(s) /\ lease.left > 0

Claimed == [owner |-> owners + 1, fence |-> IF lease = None THEN 1 ELSE lease.fence + 1,
            left |-> TTL]
NewStorage == [owner |-> Claimed.owner, fence |-> Claimed.fence, lost |-> FALSE,
               closing |-> FALSE, queue |-> <<>>, timer |-> Interval]

(* open: a process that has a storage for the session gets it again; otherwise
   it claims the lease, or is refused. *)
Open(p) ==
    /\ storages[p] = None /\ Claimable /\ owners < MaxOwners
    /\ lease' = Claimed /\ owners' = owners + 1
    /\ storages' = [storages EXCEPT ![p] = NewStorage]
    /\ UNCHANGED <<tables, fork>>

(* enqueueWrite: a closing storage takes no call. *)
EnqueueWrite(p) ==
    /\ storages[p] # None /\ ~storages[p].closing
    /\ Pending \notin ToSet(storages[p].queue)
    /\ Len(log) < MaxLog
    /\ storages' = [storages EXCEPT ![p].queue = Append(@, Pending)]
    /\ UNCHANGED <<tables, lease, owners, fork>>

(* The heartbeat timer fires: a renewal joins the queue. *)
Fire(p) ==
    /\ storages[p] # None /\ ~storages[p].closing
    /\ storages[p].timer = 0
    /\ storages' = [storages EXCEPT ![p].queue = Append(@, Beat), ![p].timer = None]
    /\ UNCHANGED <<tables, lease, owners, fork>>

AtHead(p) == storages[p] # None /\ storages[p].queue # <<>>
TakeHead(p) == [storages EXCEPT ![p].queue = Tail(@)]

(* Mutant of Write: an id may be used again. *)
WriteUnchecked(p, c) ==
    /\ AtHead(p) /\ Head(storages[p].queue) = Pending
    /\ ~storages[p].lost /\ Renewable(storages[p])
    /\ HasLane(Rows, c.lane) /\ Len(log) < MaxLog
    /\ LET m == MutationOf(Rows, c) IN
       /\ log' = Append(log, m) /\ authors' = Append(authors, storages[p].owner)
       /\ lanes' = LanesAfter(m)
       /\ IF m.kind = "entry" THEN CacheAppend(m.id, m.parent) ELSE UNCHANGED <<branches, tips>>
    /\ storages' = TakeHead(p)
    /\ UNCHANGED <<lease, owners, fork>>

(* A write whose turn has come: renew the lease, make the checks, write the row
   and what is derived from it, all in one transaction. *)
Write(p, c) ==
    /\ AtHead(p) /\ Head(storages[p].queue) = Pending
    /\ ~storages[p].lost /\ Renewable(storages[p])
    /\ Admits(Rows, c) /\ Len(log) < MaxLog
    /\ LET m == MutationOf(Rows, c) IN
       /\ log' = Append(log, m) /\ authors' = Append(authors, storages[p].owner)
       /\ lanes' = LanesAfter(m)
       /\ IF m.kind = "entry" THEN CacheAppend(m.id, m.parent) ELSE UNCHANGED <<branches, tips>>
    /\ lease' = [lease EXCEPT !.left = TTL]
    /\ storages' = TakeHead(p)
    /\ UNCHANGED <<owners, fork>>

(* A write of a lost storage is refused; one that fails its checks throws, and
   the renewal of the lease is rolled back with it. *)
RefuseWrite(p) ==
    /\ AtHead(p) /\ Head(storages[p].queue) = Pending
    /\ storages[p].lost \/ Renewable(storages[p])
    /\ storages' = TakeHead(p)
    /\ UNCHANGED <<tables, lease, owners, fork>>

(* The lease is no longer the storage's own, or its time is over: from now on
   every write of this storage is refused, and no heartbeat is sent. *)
Lose(p) ==
    /\ AtHead(p) /\ ~storages[p].lost /\ ~Renewable(storages[p])
    /\ Head(storages[p].queue) = Beat => ~storages[p].closing
    /\ storages' = [TakeHead(p) EXCEPT ![p].lost = TRUE, ![p].timer = None]
    /\ UNCHANGED <<tables, lease, owners, fork>>

(* Mutant of Renew: the next heartbeat is not scheduled. *)
RenewOnce(p) ==
    /\ AtHead(p) /\ Head(storages[p].queue) = Beat
    /\ IF storages[p].lost \/ storages[p].closing
       THEN lease' = lease /\ storages' = TakeHead(p)
       ELSE /\ Renewable(storages[p])
            /\ lease' = [lease EXCEPT !.left = TTL]
            /\ storages' = TakeHead(p)
    /\ UNCHANGED <<tables, owners, fork>>

Renew(p) ==
    /\ AtHead(p) /\ Head(storages[p].queue) = Beat
    /\ IF storages[p].lost \/ storages[p].closing
       THEN lease' = lease /\ storages' = TakeHead(p)
       ELSE /\ Renewable(storages[p])
            /\ lease' = [lease EXCEPT !.left = TTL]
            /\ storages' = [TakeHead(p) EXCEPT ![p].timer = Interval]
    /\ UNCHANGED <<tables, owners, fork>>

(* release, for close, delete and repair: what is queued is done first. *)
Close(p) ==
    /\ storages[p] # None /\ ~storages[p].closing
    /\ storages' = [storages EXCEPT ![p].closing = TRUE, ![p].timer = None]
    /\ UNCHANGED <<tables, lease, owners, fork>>

Release(p) ==
    /\ storages[p] # None /\ storages[p].closing /\ storages[p].queue = <<>>
    /\ lease' = IF Owned(storages[p]) THEN None ELSE lease
    /\ storages' = [storages EXCEPT ![p] = None]
    /\ UNCHANGED <<tables, owners, fork>>

ProcessCrash(p) ==
    /\ p \notin Prompt /\ storages[p] # None
    /\ storages' = [storages EXCEPT ![p] = None]
    /\ UNCHANGED <<tables, lease, owners, fork>>

(* Time passes; not before a process that is never suspended has done what is
   due. *)
Due(p) == /\ storages[p] # None
          /\ \/ storages[p].queue # <<>>
             \/ storages[p].timer = 0
Down(n) == IF n = 0 THEN 0 ELSE n - 1
Tick ==
    /\ \A p \in Prompt : ~Due(p)
    /\ lease' = IF lease = None THEN None ELSE [lease EXCEPT !.left = Down(@)]
    /\ storages' = [p \in Processes |->
                      IF storages[p] = None THEN None
                      ELSE [storages[p] EXCEPT !.timer = IF @ = None THEN None ELSE Down(@)]]
    /\ UNCHANGED <<tables, owners, fork>>

-----------------------------------------------------------------------------
(* repairBranchCache, by a process that has no storage or has released it. *)
Childless(s) == {e \in DOMAIN s.entries : \A d \in DOMAIN s.entries : s.entries[d].parent # e}
RepairCache(p) ==
    /\ storages[p] = None /\ Claimable /\ owners < MaxOwners
    /\ LET leaves == InOrder(Rows, Childless(Rows)) IN
       /\ branches' = [i \in DOMAIN leaves |-> Ancestors(Rows, leaves[i])]
       /\ tips' = [e \in ToSet(leaves) |-> CHOOSE i \in DOMAIN leaves : leaves[i] = e]
    /\ lease' = None /\ owners' = owners + 1
    /\ UNCHANGED <<log, lanes, authors, storages, fork>>

(* fork of the whole tree: entries, lanes and branch tips are read one after the
   other, with no transaction around them; then the rows of the fork are written
   at once, and building the branch of each tip throws when an entry is missing. *)
ForkEntries ==
    /\ fork = None /\ log # <<>>
    /\ fork' = [step |-> "lanes", entries |-> Rows.entries, lanes |-> <<>>]
    /\ UNCHANGED <<tables, lease, owners, storages>>
ForkLanes ==
    /\ fork # None /\ fork.step = "lanes"
    /\ fork' = [fork EXCEPT !.step = "tips", !.lanes = Rows.lanes]
    /\ UNCHANGED <<tables, lease, owners, storages>>

(* Mutant of ForkTips: the tips are those of the entries that were read. *)
ForkTipsEarly ==
    {e \in DOMAIN fork.entries : \A d \in DOMAIN fork.entries : fork.entries[d].parent # e}
ForkTips == DOMAIN tips
ForkWrites ==
    /\ fork # None /\ fork.step = "tips"
    /\ fork' = None
    /\ UNCHANGED <<tables, lease, owners, storages>>

SqliteNext ==
    \/ \E p \in Processes :
          \/ Open(p)
          \/ EnqueueWrite(p)
          \/ Fire(p)
          \/ \E c \in Calls : Write(p, c)
          \/ RefuseWrite(p)
          \/ Lose(p)
          \/ Renew(p)
          \/ Close(p)
          \/ Release(p)
          \/ ProcessCrash(p)
          \/ RepairCache(p)
    \/ Tick
    \/ ForkEntries
    \/ ForkLanes
    \/ ForkWrites

SqliteSpec == SqliteInit /\ [][SqliteNext]_sqliteVars

-----------------------------------------------------------------------------
(* The fence: once a process has taken the session over, no row is written by an
   earlier owner, however long that one slept (renewWriterLease). *)
WritersDoNotInterleave ==
    \A i, j \in DOMAIN authors : i < j => authors[i] <= authors[j]

(* What is kept beside the log agrees with it, whatever branches were copied and
   in whatever order the processes wrote: the lanes table is what its rows say,
   and the cached path of an entry is its ancestors (branch-cache.ts). *)
TablesMatchTheLog ==
    LET s == Replay(log) IN
    /\ Rows = s
    /\ \A id \in DOMAIN s.entries : CachedPath(id, s) = Ancestors(s, id)
    /\ DOMAIN tips = Childless(s)

(* A process that is never suspended does not lose its lease, whatever the
   others do. *)
PromptWritersKeepTheirLease ==
    \A p \in Prompt : storages[p] # None => ~storages[p].lost

(* A fork that does not throw is whole: its lanes point at entries it has, and
   every entry is on a branch it caches. *)
ForksAreWhole ==
    fork # None /\ fork.step = "tips" /\ ForkTips \subseteq DOMAIN fork.entries =>
       /\ \A l \in DOMAIN fork.lanes : fork.lanes[l] \in DOMAIN fork.entries \cup {Root}
       /\ \A e \in DOMAIN fork.entries :
             e \in ForkTips \/ \E d \in DOMAIN fork.entries : fork.entries[d].parent = e

(* Several processes, one log. *)
RowLog == INSTANCE SessionLog WITH acked <- ToSet(log), sound <- TRUE
RowsImplementSessionLog == RowLog!Spec
=============================================================================
