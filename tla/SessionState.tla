---------------------------- MODULE SessionState ----------------------------
(* The in-memory state of a session and the mutations that build it
   (harness/session/state.ts). A session is a tree of entries, a set of lanes
   (named pointers to leaves), the operations open on each lane, and facts. It
   is the fold of its mutations: the stores differ only in where they keep them.
   Payloads are left out; of the entry types only those the code tells apart
   ("message" and the others) are kept. *)
EXTENDS Naturals, Sequences, FiniteSets, SequencesExt

CONSTANTS
    Root,       \* the null parent of a first entry, the null leaf of a lane
    Main,       \* the lane every session has
    NoLane,     \* an entry copied by a fork names no lane
    NoLabel,    \* no name, no label: setting it takes one away
    Calls,      \* the calls that are made
    MaxLog,     \* mutations in a log
    None

ASSUME LogAssumption == MaxLog \in Nat

(* A map after x was set to y. *)
Put(f, x, y) == [z \in DOMAIN f \cup {x} |-> IF z = x THEN y ELSE f[z]]

(* A new SessionState. *)
Empty == [seq |-> 0, used |-> {}, entries |-> <<>>, lanes |-> [lane \in {Main} |-> Root],
          open |-> {}, name |-> NoLabel, labels |-> <<>>, messages |-> 0]

HasEntry(s, id) == id \in DOMAIN s.entries
HasTarget(s, id) == id = Root \/ HasEntry(s, id)
HasLane(s, lane) == lane \in DOMAIN s.lanes
OpenOn(s, lane) == {o \in s.open : o.lane = lane}

(* What applyMutation accepts: consecutive numbers, unused ids, and references
   to what is there. *)
Accepts(s, m) ==
    /\ m.seq = s.seq + 1
    /\ CASE m.kind = "entry"  -> /\ m.id \notin s.used
                                 /\ m.lane # NoLane => /\ HasLane(s, m.lane)
                                                       /\ m.parent = s.lanes[m.lane]
                                 /\ HasTarget(s, m.parent)
         [] m.kind = "record" -> HasLane(s, m.lane) /\ m.id \notin s.used
         [] m.kind = "lane"   -> HasTarget(s, m.leaf)
         [] m.kind = "label"  -> HasEntry(s, m.id)
         [] m.kind = "name"   -> TRUE

ApplyRecord(s, m) ==
    [s EXCEPT !.seq = m.seq, !.used = @ \cup {m.id},
              !.open = CASE m.type = "operation_started" -> @ \cup {[lane |-> m.lane, id |-> m.id]}
                         [] m.type = "operation_finished" -> @ \ {[lane |-> m.lane, id |-> m.run]}
                         [] OTHER -> @]

ApplyEntry(s, m) ==
    [s EXCEPT !.seq = m.seq, !.used = @ \cup {m.id},
              !.entries = Put(@, m.id, [parent |-> m.parent, type |-> m.type, seq |-> m.seq]),
              !.lanes = IF m.lane = NoLane THEN @ ELSE [@ EXCEPT ![m.lane] = m.id],
              !.messages = IF m.type = "message" THEN @ + 1 ELSE @]

ApplyLabel(s, m) ==
    [s EXCEPT !.seq = m.seq,
              !.labels = IF m.label = NoLabel
                         THEN [id \in DOMAIN @ \ {m.id} |-> @[id]]
                         ELSE Put(@, m.id, m.label)]

Apply(s, m) ==
    CASE m.kind = "entry"  -> ApplyEntry(s, m)
      [] m.kind = "record" -> ApplyRecord(s, m)
      [] m.kind = "lane"   -> [s EXCEPT !.seq = m.seq, !.lanes = Put(@, m.lane, m.leaf)]
      [] m.kind = "label"  -> ApplyLabel(s, m)
      [] m.kind = "name"   -> [s EXCEPT !.seq = m.seq, !.name = m.label]

Replay(ms) == FoldLeft(Apply, Empty, ms)

(* Every mutation of the sequence is accepted where it stands. *)
Replays(ms) ==
    \A i \in 1..Len(ms) : Accepts(Replay(SubSeq(ms, 1, i - 1)), ms[i])

-----------------------------------------------------------------------------
(* The calls of SessionStorage: their fields, what each checks, and the mutation
   it makes. *)
Fields(kind) ==
    CASE kind \in {"entry", "record"} -> {"kind", "id", "type", "lane"}
      [] kind \in {"create", "move"}  -> {"kind", "lane", "leaf"}
      [] kind = "label"               -> {"kind", "id", "label"}
      [] kind = "name"                -> {"kind", "label"}
WellFormed(c) ==
    /\ c.kind \in {"entry", "record", "create", "move", "label", "name"}
    /\ Fields(c.kind) \subseteq DOMAIN c
    /\ c.kind = "entry" => c.lane # NoLane /\ c.id # Root

ASSUME CallsAssumption == \A c \in Calls : WellFormed(c)

(* Mutant of Admits: an operation may start while another is open. *)
AdmitsOverlap(s, c) ==
    CASE c.kind = "entry"  -> HasLane(s, c.lane) /\ c.id \notin s.used
      [] c.kind = "record" -> HasLane(s, c.lane) /\ c.id \notin s.used
      [] c.kind = "create" -> ~HasLane(s, c.lane) /\ HasTarget(s, c.leaf)
      [] c.kind = "move"   -> HasLane(s, c.lane) /\ HasTarget(s, c.leaf)
      [] c.kind = "label"  -> HasEntry(s, c.id)
      [] c.kind = "name"   -> TRUE

Admits(s, c) ==
    CASE c.kind = "entry"  -> HasLane(s, c.lane) /\ c.id \notin s.used
      [] c.kind = "record" -> /\ HasLane(s, c.lane)
                              /\ c.id \notin s.used
                              /\ c.type = "operation_started" => OpenOn(s, c.lane) = {}
      [] c.kind = "create" -> ~HasLane(s, c.lane) /\ HasTarget(s, c.leaf)
      [] c.kind = "move"   -> HasLane(s, c.lane) /\ HasTarget(s, c.leaf)
      [] c.kind = "label"  -> HasEntry(s, c.id)
      [] c.kind = "name"   -> TRUE

MutationOf(s, c) ==
    CASE c.kind = "entry" -> Put(Put(c, "parent", s.lanes[c.lane]), "seq", s.seq + 1)
      [] c.kind \in {"create", "move"} ->
            [seq |-> s.seq + 1, kind |-> "lane", lane |-> c.lane, leaf |-> c.leaf]
      [] OTHER -> Put(c, "seq", s.seq + 1)

-----------------------------------------------------------------------------
(* The path from the root to an entry: parents have lower numbers, so that it is
   the set of ancestors in the order of their numbers. *)
Ancestors(s, id) ==
    LET up[n \in 0..s.seq] ==
            IF n = 0 THEN {id}
            ELSE up[n - 1] \cup ({s.entries[e].parent : e \in up[n - 1]} \ {Root})
    IN  IF id = Root THEN {} ELSE up[s.seq]
InOrder(s, ids) ==
    LET earlier(e) == {d \in ids : s.entries[d].seq < s.entries[e].seq}
    IN  [i \in 1..Cardinality(ids) |-> CHOOSE e \in ids : Cardinality(earlier(e)) = i - 1]
Branch(s, id) == InOrder(s, Ancestors(s, id))

(* createForkMutations: a tree fork copies every entry and lane; a branch fork
   the path to a message (or to its parent) and the lane main, moved to its end. *)
TreeScope == [scope |-> "tree"]
BranchScope(s) == [scope : {"branch"}, entry : DOMAIN s.entries \cup {s.lanes[Main]},
                   position : {"at", "before"}]
ForkTarget(s, o) ==
    IF o.entry = Root \/ o.position = "at" THEN o.entry ELSE s.entries[o.entry].parent
MayFork(s, o) ==
    o.scope = "branch" /\ o.entry # Root => s.entries[o.entry].type = "message"

(* Mutant of ForkedEntries: the newest entries first. *)
NewestFirst(s, o) ==
    Reverse(IF o.scope = "tree" THEN InOrder(s, DOMAIN s.entries) ELSE Branch(s, ForkTarget(s, o)))

ForkedEntries(s, o) ==
    IF o.scope = "tree" THEN InOrder(s, DOMAIN s.entries) ELSE Branch(s, ForkTarget(s, o))
ForkedLanes(s, o) == IF o.scope = "tree" THEN s.lanes ELSE [lane \in {Main} |-> ForkTarget(s, o)]

(* The log of a copy: its entries, its lanes, the name, and the labels. *)
CopyMutations(s, copied, lanes) ==
    LET names   == SetToSeq(DOMAIN lanes)
        labels  == InOrder(s, ToSet(copied) \cap DOMAIN s.labels)
        name    == IF s.name = NoLabel THEN <<>> ELSE <<[kind |-> "name", label |-> s.name]>>
        all     == [i \in DOMAIN copied |-> [kind |-> "entry", id |-> copied[i], lane |-> NoLane,
                                             type |-> s.entries[copied[i]].type,
                                             parent |-> s.entries[copied[i]].parent]]
                   \o [i \in DOMAIN names |-> [kind |-> "lane", lane |-> names[i],
                                               leaf |-> lanes[names[i]]]]
                   \o name
                   \o [i \in DOMAIN labels |-> [kind |-> "label", id |-> labels[i],
                                                label |-> s.labels[labels[i]]]]
    IN  [i \in DOMAIN all |-> Put(all[i], "seq", i)]
ForkMutations(s, o) == CopyMutations(s, ForkedEntries(s, o), ForkedLanes(s, o))

-----------------------------------------------------------------------------
(* A fork replays without complaint, and on every lane it has, it shows the
   branch its source has there: the entries of a branch keep their order and
   their parents, whatever was copied between them. *)
ForkIsFaithful(s, o) ==
    LET fork == Replay(ForkMutations(s, o)) IN
    /\ Replays(ForkMutations(s, o))
    /\ \A lane \in DOMAIN fork.lanes :
          Branch(fork, fork.lanes[lane]) = Branch(s, ForkedLanes(s, o)[lane])
    /\ \A id \in DOMAIN fork.entries : id \in DOMAIN s.labels <=> id \in DOMAIN fork.labels
    /\ fork.name = s.name /\ fork.open = {}
ForksAreFaithful(s) ==
    \A o \in {TreeScope} \cup BranchScope(s) : MayFork(s, o) => ForkIsFaithful(s, o)
=============================================================================
