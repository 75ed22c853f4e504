---------------------------- MODULE SessionProofs ----------------------------
(***************************************************************************)
(* Proofs about the sessions of the harness and the two stores that keep   *)
(* them, in four parts:                                                    *)
(*                                                                         *)
(*   - SessionState: the replay of a log, one mutation at a time; what a   *)
(*     call that passes its checks does to a state; the paths of entries   *)
(*     and their listing; the log of a fork, and what it leaves. The       *)
(*     recursive definitions (the fold of a log, the climb to the root)    *)
(*     are dealt with by induction on sets of numbers, from the            *)
(*     well-foundedness of Nat.                                            *)
(*   - JsonlSession: memory is the file and the file a session log, as     *)
(*     long as no append fails midway and no fork repairs the file of an   *)
(*     open session; until more is written after that, the file can be     *)
(*     loaded, a lane has one open operation at most and forks show what   *)
(*     their source does.                                                  *)
(*   - The writer lease of SqliteSession: the fence keeps the rows of the  *)
(*     writers apart, a process whose timers fire in time keeps its lease. *)
(*   - The tables of SqliteSession: the rows are a session log, what is    *)
(*     kept beside them agrees with them, forks come out whole.            *)
(*                                                                         *)
(* The two stores share nothing but SessionState: the facts about one use  *)
(* no variable of the other, and none of its assumptions.                  *)
(***************************************************************************)
EXTENDS JsonlSession, SqliteSession, Integers, SequenceTheorems, WellFoundedInduction,
        FiniteSetTheorems, TLAPS

-----------------------------------------------------------------------------
(* Induction over sets of numbers *)

NatOrder == {ss \in Nat \X Nat : ss[1] < ss[2]}

LEMMA NatOrderWellFounded == IsWellFoundedOn(NatOrder, Nat)
<1>1. OpToRel(<, Nat) = NatOrder
  BY DEF OpToRel, NatOrder
<1> QED
  BY <1>1, NatLessThanWellFounded

(* A set of numbers that is not empty has a least one. *)
LEMMA LeastNumber ==
    ASSUME NEW T \in SUBSET Nat, T # {}
    PROVE  \E x \in T : \A y \in T : x <= y
<1>1. PICK x \in T : \A y \in T : ~(<<y, x>> \in NatOrder)
  BY NatOrderWellFounded, WFMin
<1>2. \A m, n \in Nat : m < n => <<m, n>> \in NatOrder
  BY DEF NatOrder
<1>3. ASSUME NEW y \in T
      PROVE  x <= y
  <2>1. x \in Nat /\ y \in Nat /\ ~(y < x)
    BY <1>1, <1>2
  <2> QED
    BY <2>1
<1> QED
  BY <1>1, <1>3

(* A set with 0 and with the successor of each of its numbers has all of them. *)
LEMMA SetInduction ==
    ASSUME NEW T, 0 \in T, \A n \in Nat : n \in T => n + 1 \in T
    PROVE  Nat \subseteq T
<1> DEFINE B == Nat \ T
<1> SUFFICES ASSUME B # {} PROVE FALSE
  OBVIOUS
<1>1. PICK x \in B : \A y \in B : x <= y
  BY LeastNumber
<1>2. x - 1 \in Nat /\ x - 1 \notin B /\ x - 1 + 1 = x
  BY <1>1
<1> QED
  BY <1>2

-----------------------------------------------------------------------------
(* Replay satisfies its recursion *)

(* The function that FoldLeft takes its result from, for a log of n mutations. *)
Step(f, ms, s) == IF s = {} THEN Empty ELSE Apply(f[s \ {Max(s)}], ms[Max(s)])
Iterates(f, ms, n) == f = [s \in SUBSET (1..n) |-> Step(f, ms, s)]

LEMMA MaxOfPrefix ==
    ASSUME NEW n \in Nat, NEW s \in SUBSET (1..n + 1), n + 1 \in s
    PROVE  Max(s) = n + 1
<1> DEFINE P(x) == x \in s /\ \A y \in s : x >= y
           top == Max(s)
<1>1. P(n + 1)
  OBVIOUS
<1>2. P(CHOOSE x : P(x))
  BY <1>1, Zenon
<1>3. Max(s) = CHOOSE x : P(x)
  BY Zenon DEF Max
<1>4. top \in 1..n + 1 /\ top >= n + 1
  BY <1>2, <1>3
<1> HIDE DEF top
<1>5. top = n + 1
  BY <1>4
<1> QED
  BY <1>5 DEF top

(* There is such a function, for a log of any length. *)
LEMMA IterationExists ==
    ASSUME NEW ms, NEW n \in Nat
    PROVE  \E f : Iterates(f, ms, n)
<1> DEFINE T == {k \in Nat : \E f : Iterates(f, ms, k)}
<1>1. 0 \in T
  <2> DEFINE f == [s \in {{}} |-> Empty]
  <2>1. SUBSET (1..0) = {{}}
    OBVIOUS
  <2>2. Iterates(f, ms, 0)
    BY <2>1 DEF Iterates, Step
  <2> QED
    BY <2>2
<1>2. ASSUME NEW k \in Nat, k \in T PROVE k + 1 \in T
  <2>1. PICK f : Iterates(f, ms, k)
    BY <1>2
  <2> DEFINE h == [s \in SUBSET (1..k + 1) |-> IF s \in SUBSET (1..k) THEN f[s] ELSE Apply(f[s \ {k + 1}], ms[k + 1])]
  <2>2. ASSUME NEW s \in SUBSET (1..k + 1) PROVE h[s] = Step(h, ms, s)
    <3>1. CASE s \in SUBSET (1..k)
      <4>1. h[s] = f[s] /\ f[s] = Step(f, ms, s)
        BY <2>1, <3>1 DEF Iterates
      <4>2. s \ {Max(s)} \in SUBSET (1..k) /\ s \ {Max(s)} \in SUBSET (1..k + 1)
        BY <3>1
      <4>3. h[s \ {Max(s)}] = f[s \ {Max(s)}]
        BY <4>2
      <4> HIDE DEF h
      <4> QED
        BY <4>1, <4>3 DEF Step
    <3>2. CASE s \notin SUBSET (1..k)
      <4>1. k + 1 \in s
        BY <3>2
      <4>2. Max(s) = k + 1
        BY <4>1, MaxOfPrefix
      <4>3. s \ {k + 1} \in SUBSET (1..k) /\ s \ {k + 1} \in SUBSET (1..k + 1)
        OBVIOUS
      <4>4. h[s] = Apply(f[s \ {k + 1}], ms[k + 1]) /\ h[s \ {k + 1}] = f[s \ {k + 1}]
        BY <3>2, <4>3
      <4> HIDE DEF h
      <4>5. s # {}
        BY <4>1
      <4> QED
        BY <4>2, <4>4, <4>5 DEF Step
    <3> QED
      BY <3>1, <3>2
  <2>3. h = [s \in SUBSET (1..k + 1) |-> h[s]]
    OBVIOUS
  <2> HIDE DEF h
  <2>4. Iterates(h, ms, k + 1)
    BY <2>2, <2>3 DEF Iterates
  <2>5. k + 1 \in Nat
    OBVIOUS
  <2> QED
    BY <2>4, <2>5
<1> HIDE DEF T
<1>3. n \in T
  BY <1>1, <1>2, SetInduction
<1> QED
  BY <1>3 DEF T

(* Replay is its value on the whole log. *)
LEMMA ReplayIterates ==
    ASSUME NEW ms, NEW n \in Nat, DOMAIN ms = 1..n
    PROVE  \E f : Iterates(f, ms, n) /\ Replay(ms) = f[1..n]
<1>1. Replay(ms) = (CHOOSE f : Iterates(f, ms, n))[1..n]
  <2>1. Replay(ms) = (CHOOSE f : f = [s \in SUBSET DOMAIN ms |-> IF s = {} THEN Empty
                          ELSE Apply(f[s \ {Max(s)}], ms[Max(s)])])[DOMAIN ms]
    BY DEF Replay, FoldLeft, MapThenFoldSet
  <2> QED
    BY <2>1 DEF Iterates, Step
<1>2. Iterates(CHOOSE f : Iterates(f, ms, n), ms, n)
  BY IterationExists, Zenon
<1> QED
  BY <1>1, <1>2

(* Its values on the prefixes of the log. *)
LEMMA IterationGoesOn ==
    ASSUME NEW ms, NEW n \in Nat, NEW f, Iterates(f, ms, n), NEW k \in Nat, k < n
    PROVE  f[{}] = Empty /\ f[1..k + 1] = Apply(f[1..k], ms[k + 1])
<1>1. 1..k + 1 \in SUBSET (1..n) /\ {} \in SUBSET (1..n)
  OBVIOUS
<1>2. (1..k + 1) \ {k + 1} = 1..k /\ 1..k + 1 # {}
  OBVIOUS
<1>3. Max(1..k + 1) = k + 1
  BY MaxOfPrefix
<1>4. f[1..k + 1] = Step(f, ms, 1..k + 1) /\ f[{}] = Step(f, ms, {})
  BY <1>1 DEF Iterates
<1> QED
  BY <1>2, <1>3, <1>4 DEF Step

LEMMA IterationStarts ==
    ASSUME NEW ms, NEW n \in Nat, NEW f, Iterates(f, ms, n)
    PROVE  f[1..0] = Empty
<1>1. 1..0 = {} /\ {} \in SUBSET (1..n)
  OBVIOUS
<1> QED
  BY <1>1 DEF Iterates, Step

(* They depend on the prefix only. *)
LEMMA IterationIsUnique ==
  ASSUME NEW ms, NEW ns, NEW n \in Nat, NEW m \in Nat, NEW f, NEW g, Iterates(f, ms, n), Iterates(g, ns, m),
         NEW j \in Nat, j <= n, j <= m, \A i \in 1..j : ms[i] = ns[i]
  PROVE f[1..j] = g[1..j]
<1> DEFINE T == {k \in Nat : k <= j => f[1..k] = g[1..k]}
<1>1. 0 \in T
  BY IterationStarts
<1>2. ASSUME NEW k \in Nat, k \in T PROVE k + 1 \in T
  <2> SUFFICES ASSUME k + 1 <= j PROVE f[1..k + 1] = g[1..k + 1]
    OBVIOUS
  <2>1. f[1..k] = g[1..k] /\ ms[k + 1] = ns[k + 1] /\ k < n /\ k < m
    BY <1>2
  <2> QED
    BY <2>1, IterationGoesOn
<1> HIDE DEF T
<1>3. j \in T
  BY <1>1, <1>2, SetInduction
<1> QED
  BY <1>3 DEF T

LEMMA ReplayEmpty == Replay(<<>>) = Empty
<1>1. DOMAIN <<>> = 1..0
  OBVIOUS
<1> QED
  BY <1>1, ReplayIterates, IterationStarts

(* A log is replayed one mutation at a time. *)
LEMMA ReplayAppend ==
    ASSUME NEW S, NEW ms \in Seq(S), NEW m \in S
    PROVE  Replay(Append(ms, m)) = Apply(Replay(ms), m)
<1> DEFINE n == Len(ms)
           longer == Append(ms, m)
<1>1. n \in Nat /\ DOMAIN ms = 1..n /\ DOMAIN longer = 1..n + 1 /\ longer[n + 1] = m /\ \A i \in 1..n : longer[i] = ms[i]
  OBVIOUS
<1> HIDE DEF n, longer
<1>2. PICK f : Iterates(f, ms, n) /\ Replay(ms) = f[1..n]
  BY <1>1, ReplayIterates
<1>3. PICK g : Iterates(g, longer, n + 1) /\ Replay(longer) = g[1..n + 1]
  <2>1. n + 1 \in Nat
    BY <1>1
  <2> QED
    BY <1>1, <2>1, ReplayIterates
<1>4. f[1..n] = g[1..n]
  BY <1>1, <1>2, <1>3, IterationIsUnique
<1>5. g[1..n + 1] = Apply(g[1..n], longer[n + 1])
  <2>1. n + 1 \in Nat /\ n < n + 1 /\ Iterates(g, longer, n + 1)
    BY <1>1, <1>3
  <2> QED
    BY <1>1, <2>1, IterationGoesOn
<1> QED
  BY <1>1, <1>2, <1>3, <1>4, <1>5 DEF longer


-----------------------------------------------------------------------------
(* Logs that replay *)

LEMMA ReplaysEmpty == Replays(<<>>)
  BY DEF Replays

(* A log replays if all but its last mutation do, and the last is accepted after them. *)
LEMMA ReplaysAppend ==
    ASSUME NEW S, NEW ms \in Seq(S), NEW m \in S
    PROVE  Replays(Append(ms, m)) <=> Replays(ms) /\ Accepts(Replay(ms), m)
<1> DEFINE n == Len(ms)
           longer == Append(ms, m)
<1>1. /\ n \in Nat /\ Len(longer) = n + 1 /\ longer[n + 1] = m
      /\ \A i \in 1..n : longer[i] = ms[i]
  OBVIOUS
<1>2. \A i \in 1..n : SubSeq(longer, 1, i - 1) = SubSeq(ms, 1, i - 1)
  OBVIOUS
<1>3. SubSeq(longer, 1, (n + 1) - 1) = ms
  OBVIOUS
<1> HIDE DEF n, longer
<1>4. 1..n + 1 = 1..n \cup {n + 1}
  BY <1>1
<1>5. Replays(ms) <=> \A i \in 1..n : Accepts(Replay(SubSeq(ms, 1, i - 1)), ms[i])
  BY DEF Replays, n
<1>6. Replays(longer) <=> \A i \in 1..n + 1 : Accepts(Replay(SubSeq(longer, 1, i - 1)), longer[i])
  BY <1>1 DEF Replays
<1>7. Replays(longer) <=> Replays(ms) /\ Accepts(Replay(ms), m)
  BY <1>1, <1>2, <1>3, <1>4, <1>5, <1>6
<1> QED
  BY <1>7 DEF longer

-----------------------------------------------------------------------------
(* Calls that pass their checks *)

IsState(s) ==
    s = [seq |-> s.seq, used |-> s.used, entries |-> s.entries, lanes |-> s.lanes,
         open |-> s.open, name |-> s.name, labels |-> s.labels, messages |-> s.messages]

(* Lanes point at what is there, and have at most one open operation; main is one of them. *)
LanesHaveTargets(s) == \A lane \in DOMAIN s.lanes : HasTarget(s, s.lanes[lane])
OneOpen(s) == \A o, p \in s.open : o.lane = p.lane => o = p
HasMain(s) == Main \in DOMAIN s.lanes /\ IsFiniteSet(DOMAIN s.lanes)
LabelsHaveTargets(s) == \A id \in DOMAIN s.labels : HasEntry(s, id) /\ s.labels[id] # NoLabel

(* Numbers are given once, and a parent has a lower one than its children. *)
Ordered(s) ==
    /\ s.seq \in Nat
    /\ Root \notin DOMAIN s.entries
    /\ DOMAIN s.entries \subseteq s.used
    /\ \A e \in DOMAIN s.entries :
          /\ s.entries[e].seq \in 1..s.seq
          /\ s.entries[e].parent # Root =>
                /\ s.entries[e].parent \in DOMAIN s.entries
                /\ s.entries[s.entries[e].parent].seq < s.entries[e].seq
    /\ \A d, e \in DOMAIN s.entries : s.entries[d].seq = s.entries[e].seq => d = e

Sound(s) ==
    /\ IsState(s) /\ LanesHaveTargets(s) /\ OneOpen(s)
    /\ Ordered(s) /\ HasMain(s) /\ LabelsHaveTargets(s)

LEMMA EmptyIsOrdered == Ordered(Empty)
  BY DEF Ordered, Empty

LEMMA EmptyIsSound == Sound(Empty)
<1>1. HasMain(Empty)
  BY FS_Singleton DEF HasMain, Empty
<1> QED
  BY <1>1, EmptyIsOrdered
     DEF Sound, IsState, LanesHaveTargets, OneOpen, LabelsHaveTargets, Empty, HasTarget

(* The mutation of a call carries the fields of the call. *)
LEMMA MutationFields ==
    ASSUME NEW s, NEW c, WellFormed(c)
    PROVE  /\ MutationOf(s, c).seq = s.seq + 1
           /\ {"kind", "seq"} \subseteq DOMAIN MutationOf(s, c)
           /\ MutationOf(s, c).kind = IF c.kind \in {"create", "move"} THEN "lane" ELSE c.kind
           /\ c.kind \in {"entry", "record"} =>
                 /\ MutationOf(s, c).id = c.id /\ MutationOf(s, c).lane = c.lane
                 /\ MutationOf(s, c).type = c.type
           /\ c.kind = "entry" => MutationOf(s, c).parent = s.lanes[c.lane]
           /\ c.kind \in {"create", "move"} =>
                 MutationOf(s, c).lane = c.lane /\ MutationOf(s, c).leaf = c.leaf
           /\ c.kind = "label" => MutationOf(s, c).id = c.id
<1>1. CASE c.kind = "entry"
  <2> DEFINE a == Put(c, "parent", s.lanes[c.lane])
             m == Put(a, "seq", s.seq + 1)
  <2>1. {"kind", "id", "type", "lane"} \subseteq DOMAIN c
    BY <1>1 DEF WellFormed, Fields
  <2>2. /\ DOMAIN a = DOMAIN c \cup {"parent"} /\ a["parent"] = s.lanes[c.lane]
        /\ a["kind"] = c["kind"] /\ a["id"] = c["id"] /\ a["type"] = c["type"] /\ a["lane"] = c["lane"]
    BY <2>1 DEF Put
  <2> HIDE DEF a
  <2>3. /\ DOMAIN m = DOMAIN a \cup {"seq"} /\ m["seq"] = s.seq + 1 /\ m["parent"] = a["parent"]
        /\ m["kind"] = a["kind"] /\ m["id"] = a["id"] /\ m["type"] = a["type"] /\ m["lane"] = a["lane"]
    BY <2>1, <2>2 DEF Put
  <2>4. MutationOf(s, c) = m
    BY <1>1 DEF MutationOf, a
  <2> HIDE DEF m
  <2> QED
    BY <1>1, <2>1, <2>2, <2>3, <2>4
<1>2. CASE c.kind \in {"create", "move"}
  <2>1. MutationOf(s, c) = [seq |-> s.seq + 1, kind |-> "lane", lane |-> c.lane, leaf |-> c.leaf]
    BY <1>2 DEF MutationOf
  <2> QED
    BY <1>2, <2>1
<1>3. CASE c.kind \in {"record", "label", "name"}
  <2> DEFINE m == Put(c, "seq", s.seq + 1)
  <2>1. "kind" \in DOMAIN c
    BY <1>3 DEF WellFormed, Fields
  <2>2. /\ DOMAIN m = DOMAIN c \cup {"seq"} /\ m["seq"] = s.seq + 1
        /\ \A f \in DOMAIN c : f # "seq" => m[f] = c[f]
    BY DEF Put
  <2>3. MutationOf(s, c) = m
    BY <1>3 DEF MutationOf
  <2>4. c.kind = "record" => {"id", "type", "lane"} \subseteq DOMAIN c
    BY DEF WellFormed, Fields
  <2>5. c.kind = "label" => "id" \in DOMAIN c
    BY DEF WellFormed, Fields
  <2> HIDE DEF m
  <2> QED
    BY <1>3, <2>1, <2>2, <2>3, <2>4, <2>5
<1> QED
  BY <1>1, <1>2, <1>3 DEF WellFormed

(* What passes the checks of a call is accepted as a mutation, and keeps the state sound. *)
LEMMA AdmittedIsAccepted ==
    ASSUME NEW s, NEW c, Sound(s), WellFormed(c), Admits(s, c)
    PROVE  Accepts(s, MutationOf(s, c))
<1> DEFINE m == MutationOf(s, c)
<1> SUFFICES Accepts(s, m)
  OBVIOUS
<1>1. /\ m.seq = s.seq + 1
      /\ m.kind = IF c.kind \in {"create", "move"} THEN "lane" ELSE c.kind
      /\ c.kind \in {"entry", "record"} => m.id = c.id /\ m.lane = c.lane /\ m.type = c.type
      /\ c.kind = "entry" => m.parent = s.lanes[c.lane]
      /\ c.kind \in {"create", "move"} => m.lane = c.lane /\ m.leaf = c.leaf
      /\ c.kind = "label" => m.id = c.id
  BY MutationFields
<1> HIDE DEF m
<1>2. CASE c.kind = "entry"
  BY <1>1, <1>2 DEF Admits, Accepts, Sound, LanesHaveTargets, HasLane
<1>3. CASE c.kind = "record"
  BY <1>1, <1>3 DEF Admits, Accepts
<1>4. CASE c.kind \in {"create", "move"}
  BY <1>1, <1>4 DEF Admits, Accepts
<1>5. CASE c.kind \in {"label", "name"}
  BY <1>1, <1>5 DEF Admits, Accepts
<1> QED
  BY <1>2, <1>3, <1>4, <1>5 DEF WellFormed

(* What holds of the lanes of a state, and of its shape. *)
LanesOK(s) == IsState(s) /\ LanesHaveTargets(s) /\ OneOpen(s)

LEMMA AdmittedKeepsLanes ==
    ASSUME NEW s, NEW c, Sound(s), WellFormed(c), Admits(s, c)
    PROVE  LanesOK(Apply(s, MutationOf(s, c)))
<1> DEFINE m == MutationOf(s, c)
           t == Apply(s, m)
<1> SUFFICES LanesOK(t)
  OBVIOUS
<1>1. /\ m.seq = s.seq + 1
      /\ m.kind = IF c.kind \in {"create", "move"} THEN "lane" ELSE c.kind
      /\ c.kind \in {"entry", "record"} => m.id = c.id /\ m.lane = c.lane /\ m.type = c.type
      /\ c.kind = "entry" => m.parent = s.lanes[c.lane]
      /\ c.kind \in {"create", "move"} => m.lane = c.lane /\ m.leaf = c.leaf
      /\ c.kind = "label" => m.id = c.id
  BY MutationFields
<1> HIDE DEF m
<1>2. IsState(s) /\ LanesHaveTargets(s) /\ OneOpen(s)
  BY DEF Sound
<1>3. CASE c.kind = "entry"
  <2>1. t = ApplyEntry(s, m)
    BY <1>1, <1>3 DEF Apply
  <2>2. /\ IsState(t) /\ t.open = s.open
        /\ t.entries = Put(s.entries, m.id, [parent |-> m.parent, type |-> m.type, seq |-> m.seq])
        /\ t.lanes = IF m.lane = NoLane THEN s.lanes ELSE [s.lanes EXCEPT ![m.lane] = m.id]
    BY <1>2, <2>1 DEF ApplyEntry, IsState
  <2> HIDE DEF t
  <2>3. DOMAIN t.entries = DOMAIN s.entries \cup {m.id}
    BY <2>2 DEF Put
  <2>4. LanesHaveTargets(t)
    BY <1>2, <2>2, <2>3 DEF LanesHaveTargets, HasTarget, HasEntry
  <2> QED
    BY <1>2, <2>2, <2>4 DEF LanesOK, OneOpen
<1>4. CASE c.kind = "record"
  <2>1. t = ApplyRecord(s, m)
    BY <1>1, <1>4 DEF Apply
  <2>2. /\ IsState(t) /\ t.entries = s.entries /\ t.lanes = s.lanes
        /\ t.open = CASE m.type = "operation_started" -> s.open \cup {[lane |-> m.lane, id |-> m.id]}
                      [] m.type = "operation_finished" -> s.open \ {[lane |-> m.lane, id |-> m.run]}
                      [] OTHER -> s.open
    BY <1>2, <2>1 DEF ApplyRecord, IsState
  <2> HIDE DEF t
  <2>3. LanesHaveTargets(t)
    BY <1>2, <2>2 DEF LanesHaveTargets, HasTarget, HasEntry
  <2>4. m.type = "operation_started" => \A o \in s.open : o.lane # m.lane
    BY <1>1, <1>4 DEF Admits, OpenOn
  <2>5. OneOpen(t)
    <3>1. CASE m.type = "operation_started"
      <4>1. t.open = s.open \cup {[lane |-> m.lane, id |-> m.id]}
        BY <2>2, <3>1
      <4> QED
        BY <1>2, <2>4, <3>1, <4>1 DEF OneOpen
    <3>2. CASE m.type # "operation_started"
      <4>1. t.open \subseteq s.open
        BY <2>2, <3>2
      <4> QED
        BY <1>2, <4>1 DEF OneOpen
    <3> QED
      BY <3>1, <3>2
  <2> QED
    BY <2>2, <2>3, <2>5 DEF LanesOK
<1>5. CASE c.kind \in {"create", "move"}
  <2>1. t = [s EXCEPT !.seq = m.seq, !.lanes = Put(@, m.lane, m.leaf)]
    BY <1>1, <1>5 DEF Apply
  <2>2. IsState(t) /\ t.open = s.open /\ t.entries = s.entries /\ t.lanes = Put(s.lanes, m.lane, m.leaf)
    BY <1>2, <2>1 DEF IsState
  <2> HIDE DEF t
  <2>3. HasTarget(s, m.leaf)
    BY <1>1, <1>5 DEF Admits
  <2>4. LanesHaveTargets(t)
    BY <1>2, <2>2, <2>3 DEF LanesHaveTargets, HasTarget, HasEntry, Put
  <2> QED
    BY <1>2, <2>2, <2>4 DEF LanesOK, OneOpen
<1>6. CASE c.kind \in {"label", "name"}
  <2>1. CASE c.kind = "label"
    <3>1. t = ApplyLabel(s, m)
      BY <1>1, <2>1 DEF Apply
    <3>2. IsState(t) /\ t.open = s.open /\ t.entries = s.entries /\ t.lanes = s.lanes
      BY <1>2, <3>1 DEF ApplyLabel, IsState
    <3> HIDE DEF t
    <3> QED
      BY <1>2, <3>2 DEF LanesOK, OneOpen, LanesHaveTargets, HasTarget, HasEntry
  <2>2. CASE c.kind = "name"
    <3>1. t = [s EXCEPT !.seq = m.seq, !.name = m.label]
      BY <1>1, <2>2 DEF Apply
    <3>2. IsState(t) /\ t.open = s.open /\ t.entries = s.entries /\ t.lanes = s.lanes
      BY <1>2, <3>1 DEF IsState
    <3> HIDE DEF t
    <3> QED
      BY <1>2, <3>2 DEF LanesOK, OneOpen, LanesHaveTargets, HasTarget, HasEntry
  <2> QED
    BY <1>6, <2>1, <2>2
<1> HIDE DEF t
<1> QED
  BY <1>3, <1>4, <1>5, <1>6 DEF WellFormed


-----------------------------------------------------------------------------
(* Entries in the order of their numbers *)

(* What a mutation does to the entries. *)
LEMMA EntriesAfter ==
    ASSUME NEW s, NEW c, Sound(s), WellFormed(c), Admits(s, c)
    PROVE  /\ Apply(s, MutationOf(s, c)).seq = s.seq + 1
           /\ c.kind # "entry" => Apply(s, MutationOf(s, c)).entries = s.entries
           /\ c.kind = "entry" =>
                 /\ Apply(s, MutationOf(s, c)).entries =
                       Put(s.entries, c.id, [parent |-> s.lanes[c.lane], type |-> c.type, seq |-> s.seq + 1])
                 /\ c.id \notin s.used /\ c.id # Root /\ HasTarget(s, s.lanes[c.lane])
           /\ s.used \subseteq Apply(s, MutationOf(s, c)).used
           /\ c.kind = "entry" => c.id \in Apply(s, MutationOf(s, c)).used
<1> DEFINE m == MutationOf(s, c)
           t == Apply(s, m)
<1>1. /\ m.seq = s.seq + 1
      /\ m.kind = IF c.kind \in {"create", "move"} THEN "lane" ELSE c.kind
      /\ c.kind \in {"entry", "record"} => m.id = c.id /\ m.lane = c.lane /\ m.type = c.type
      /\ c.kind = "entry" => m.parent = s.lanes[c.lane]
  BY MutationFields
<1> HIDE DEF m
<1> SUFFICES /\ t.seq = s.seq + 1
             /\ c.kind # "entry" => t.entries = s.entries
             /\ c.kind = "entry" =>
                   /\ t.entries = Put(s.entries, c.id, [parent |-> s.lanes[c.lane], type |-> c.type, seq |-> s.seq + 1])
                   /\ c.id \notin s.used /\ c.id # Root /\ HasTarget(s, s.lanes[c.lane])
             /\ s.used \subseteq t.used
             /\ c.kind = "entry" => c.id \in t.used
  BY DEF m
<1>2. IsState(s)
  BY DEF Sound
<1>3. CASE c.kind = "entry"
  <2>1. t = ApplyEntry(s, m)
    BY <1>1, <1>3 DEF Apply
  <2>2. /\ t.seq = m.seq /\ t.used = s.used \cup {m.id}
        /\ t.entries = Put(s.entries, m.id, [parent |-> m.parent, type |-> m.type, seq |-> m.seq])
    BY <1>2, <2>1 DEF ApplyEntry, IsState
  <2>3. c.id \notin s.used /\ c.id # Root /\ HasTarget(s, s.lanes[c.lane])
    BY <1>3 DEF WellFormed, Admits, HasLane, Sound, LanesHaveTargets
  <2> HIDE DEF t
  <2> QED
    BY <1>1, <1>3, <2>2, <2>3
<1>4. CASE c.kind = "record"
  <2>1. t = ApplyRecord(s, m)
    BY <1>1, <1>4 DEF Apply
  <2>2. t.seq = m.seq /\ t.entries = s.entries /\ t.used = s.used \cup {m.id}
    BY <1>2, <2>1 DEF ApplyRecord, IsState
  <2> HIDE DEF t
  <2> QED
    BY <1>1, <1>4, <2>2
<1>5. CASE c.kind \in {"create", "move", "label", "name"}
  <2>1. /\ c.kind \in {"create", "move"} => t = [s EXCEPT !.seq = m.seq, !.lanes = Put(@, m.lane, m.leaf)]
        /\ c.kind = "label" => t = ApplyLabel(s, m)
        /\ c.kind = "name" => t = [s EXCEPT !.seq = m.seq, !.name = m.label]
    BY <1>1 DEF Apply
  <2>2. t.seq = m.seq /\ t.entries = s.entries /\ t.used = s.used
    BY <1>2, <1>5, <2>1 DEF ApplyLabel, IsState
  <2> HIDE DEF t
  <2> QED
    BY <1>1, <1>5, <2>2
<1> HIDE DEF t
<1> QED
  BY <1>3, <1>4, <1>5 DEF WellFormed

(* The entries after a new one was put among them. *)
LEMMA NewEntry ==
    ASSUME NEW s, NEW t, NEW id, NEW parent, NEW type, Ordered(s),
           t.entries = Put(s.entries, id, [parent |-> parent, type |-> type, seq |-> s.seq + 1]),
           id \notin s.used
    PROVE  /\ id \notin DOMAIN s.entries
           /\ DOMAIN t.entries = DOMAIN s.entries \cup {id}
           /\ t.entries[id].parent = parent /\ t.entries[id].seq = s.seq + 1
           /\ \A e \in DOMAIN s.entries : t.entries[e] = s.entries[e]
  BY DEF Ordered, Put

LEMMA AdmittedIsOrdered ==
    ASSUME NEW s, NEW c, Sound(s), Ordered(s), WellFormed(c), Admits(s, c)
    PROVE  Ordered(Apply(s, MutationOf(s, c)))
<1> DEFINE t == Apply(s, MutationOf(s, c))
<1> SUFFICES Ordered(t)
  OBVIOUS
<1>1. /\ t.seq = s.seq + 1
      /\ c.kind # "entry" => t.entries = s.entries
      /\ c.kind = "entry" =>
            /\ t.entries = Put(s.entries, c.id, [parent |-> s.lanes[c.lane], type |-> c.type, seq |-> s.seq + 1])
            /\ c.id \notin s.used /\ c.id # Root /\ HasTarget(s, s.lanes[c.lane])
      /\ s.used \subseteq t.used
      /\ c.kind = "entry" => c.id \in t.used
  BY EntriesAfter
<1> HIDE DEF t
<1>2. CASE c.kind # "entry"
  BY <1>1, <1>2 DEF Ordered
<1>3. CASE c.kind = "entry"
  <2> DEFINE parent == s.lanes[c.lane]
  <2>1. /\ c.id \notin DOMAIN s.entries
        /\ DOMAIN t.entries = DOMAIN s.entries \cup {c.id}
        /\ t.entries[c.id].parent = parent /\ t.entries[c.id].seq = s.seq + 1
        /\ \A e \in DOMAIN s.entries : t.entries[e] = s.entries[e]
    BY <1>1, <1>3, NewEntry
  <2>2. parent = Root \/ parent \in DOMAIN s.entries
    BY <1>1, <1>3 DEF HasTarget, HasEntry
  <2> HIDE DEF parent
  <2>3. s.seq \in Nat /\ \A e \in DOMAIN s.entries : s.entries[e].seq \in 1..s.seq
    BY DEF Ordered
  <2>4. ASSUME NEW e \in DOMAIN t.entries
        PROVE  /\ t.entries[e].seq \in 1..t.seq
               /\ t.entries[e].parent # Root =>
                     /\ t.entries[e].parent \in DOMAIN t.entries
                     /\ t.entries[t.entries[e].parent].seq < t.entries[e].seq
    <3>1. CASE e = c.id
      BY <1>1, <2>1, <2>2, <2>3, <3>1
    <3>2. CASE e \in DOMAIN s.entries
      <4>1. t.entries[e] = s.entries[e] /\ s.entries[e].seq \in 1..s.seq
        BY <2>1, <2>3, <3>2
      <4>2. s.entries[e].parent # Root =>
               /\ s.entries[e].parent \in DOMAIN s.entries
               /\ s.entries[s.entries[e].parent].seq < s.entries[e].seq
        BY <3>2 DEF Ordered
      <4> QED
        BY <1>1, <2>1, <2>3, <4>1, <4>2
    <3> QED
      BY <2>1, <3>1, <3>2
  <2>5. ASSUME NEW d \in DOMAIN t.entries, NEW e \in DOMAIN t.entries,
               t.entries[d].seq = t.entries[e].seq
        PROVE  d = e
    BY <2>1, <2>3, <2>5 DEF Ordered
  <2>6. t.seq \in Nat /\ Root \notin DOMAIN t.entries /\ DOMAIN t.entries \subseteq t.used
    BY <1>1, <1>3, <2>1, <2>3 DEF Ordered
  <2> QED
    BY <2>4, <2>5, <2>6 DEF Ordered
<1> QED
  BY <1>2, <1>3

(* Lanes are not taken away, and labels are given to what is there. *)
LEMMA AdmittedKeepsLabels ==
    ASSUME NEW s, NEW c, Sound(s), WellFormed(c), Admits(s, c)
    PROVE  HasMain(Apply(s, MutationOf(s, c))) /\ LabelsHaveTargets(Apply(s, MutationOf(s, c)))
<1> DEFINE m == MutationOf(s, c)
           t == Apply(s, m)
<1> SUFFICES HasMain(t) /\ LabelsHaveTargets(t)
  OBVIOUS
<1>1. /\ m.seq = s.seq + 1
      /\ m.kind = IF c.kind \in {"create", "move"} THEN "lane" ELSE c.kind
      /\ c.kind \in {"entry", "record"} => m.id = c.id /\ m.lane = c.lane /\ m.type = c.type
      /\ c.kind \in {"create", "move"} => m.lane = c.lane /\ m.leaf = c.leaf
      /\ c.kind = "label" => m.id = c.id
  BY MutationFields
<1> HIDE DEF m
<1>2. IsState(s) /\ HasMain(s) /\ LabelsHaveTargets(s)
  BY DEF Sound
<1>3. CASE c.kind = "entry"
  <2>1. t = ApplyEntry(s, m)
    BY <1>1, <1>3 DEF Apply
  <2>2. /\ t.labels = s.labels
        /\ t.entries = Put(s.entries, m.id, [parent |-> m.parent, type |-> m.type, seq |-> m.seq])
        /\ t.lanes = IF m.lane = NoLane THEN s.lanes ELSE [s.lanes EXCEPT ![m.lane] = m.id]
    BY <1>2, <2>1 DEF ApplyEntry, IsState
  <2> HIDE DEF t
  <2>3. DOMAIN t.lanes = DOMAIN s.lanes /\ DOMAIN s.entries \subseteq DOMAIN t.entries
    BY <2>2 DEF Put
  <2> QED
    BY <1>2, <2>2, <2>3 DEF HasMain, LabelsHaveTargets, HasEntry
<1>4. CASE c.kind = "record"
  <2>1. t = ApplyRecord(s, m)
    BY <1>1, <1>4 DEF Apply
  <2>2. t.labels = s.labels /\ t.entries = s.entries /\ t.lanes = s.lanes
    BY <1>2, <2>1 DEF ApplyRecord, IsState
  <2> HIDE DEF t
  <2> QED
    BY <1>2, <2>2 DEF HasMain, LabelsHaveTargets, HasEntry
<1>5. CASE c.kind \in {"create", "move"}
  <2>1. t = [s EXCEPT !.seq = m.seq, !.lanes = Put(@, m.lane, m.leaf)]
    BY <1>1, <1>5 DEF Apply
  <2>2. t.labels = s.labels /\ t.entries = s.entries /\ t.lanes = Put(s.lanes, m.lane, m.leaf)
    BY <1>2, <2>1 DEF IsState
  <2> HIDE DEF t
  <2>3. DOMAIN t.lanes = DOMAIN s.lanes \cup {m.lane}
    BY <2>2 DEF Put
  <2>4. IsFiniteSet(DOMAIN s.lanes \cup {m.lane})
    BY <1>2, FS_AddElement DEF HasMain
  <2> QED
    BY <1>2, <2>2, <2>3, <2>4 DEF HasMain, LabelsHaveTargets, HasEntry
<1>6. CASE c.kind = "label"
  <2>1. t = ApplyLabel(s, m)
    BY <1>1, <1>6 DEF Apply
  <2>2. /\ t.entries = s.entries /\ t.lanes = s.lanes
        /\ t.labels = IF m.label = NoLabel THEN [id \in DOMAIN s.labels \ {m.id} |-> s.labels[id]]
                      ELSE Put(s.labels, m.id, m.label)
    BY <1>2, <2>1 DEF ApplyLabel, IsState
  <2> HIDE DEF t
  <2>3. HasEntry(s, m.id)
    BY <1>1, <1>6 DEF Admits
  <2>4. ASSUME NEW id \in DOMAIN t.labels PROVE HasEntry(s, id) /\ t.labels[id] # NoLabel
    BY <1>2, <2>2, <2>3 DEF LabelsHaveTargets, Put
  <2> QED
    BY <1>2, <2>2, <2>4 DEF HasMain, LabelsHaveTargets, HasEntry
<1>7. CASE c.kind = "name"
  <2>1. t = [s EXCEPT !.seq = m.seq, !.name = m.label]
    BY <1>1, <1>7 DEF Apply
  <2>2. t.labels = s.labels /\ t.entries = s.entries /\ t.lanes = s.lanes
    BY <1>2, <2>1 DEF IsState
  <2> HIDE DEF t
  <2> QED
    BY <1>2, <2>2 DEF HasMain, LabelsHaveTargets, HasEntry
<1> HIDE DEF t
<1> QED
  BY <1>3, <1>4, <1>5, <1>6, <1>7 DEF WellFormed

LEMMA AdmittedIsSound ==
    ASSUME NEW s, NEW c, Sound(s), WellFormed(c), Admits(s, c)
    PROVE  Sound(Apply(s, MutationOf(s, c)))
<1>1. Ordered(s)
  BY DEF Sound
<1> QED
  BY <1>1, AdmittedKeepsLanes, AdmittedIsOrdered, AdmittedKeepsLabels DEF Sound, LanesOK

-----------------------------------------------------------------------------
(* Paths: an entry and all that is above it *)

(* P is a path to id: it has the parents of its entries, and between an entry and
   its parent it has none. *)
Path(s, id, P) ==
    /\ id \in P /\ P \subseteq DOMAIN s.entries
    /\ \A e \in P : s.entries[e].seq <= s.entries[id].seq
    /\ \A e \in P : s.entries[e].parent # Root => s.entries[e].parent \in P
    /\ \A d, e \in P : s.entries[d].seq < s.entries[e].seq =>
          s.entries[e].parent \in P /\ s.entries[d].seq <= s.entries[s.entries[e].parent].seq

(* The part of a path up to an entry on it is a path to that entry. *)
LEMMA PathUpTo ==
    ASSUME NEW s, Ordered(s), NEW id, NEW P, Path(s, id, P), NEW x \in P
    PROVE  Path(s, x, {e \in P : s.entries[e].seq <= s.entries[x].seq})
<1> DEFINE Q == {e \in P : s.entries[e].seq <= s.entries[x].seq}
<1>1. P \subseteq DOMAIN s.entries /\ \A e \in P : s.entries[e].seq \in Nat
  BY DEF Path, Ordered
<1>2. x \in Q /\ Q \subseteq P /\ \A e \in Q : s.entries[e].seq <= s.entries[x].seq
  BY <1>1
<1>3. \A e \in P : e \in Q <=> s.entries[e].seq <= s.entries[x].seq
  OBVIOUS
<1> HIDE DEF Q
<1>4. ASSUME NEW e \in Q, s.entries[e].parent \in P, s.entries[e].parent # Root
      PROVE  s.entries[e].parent \in Q
  <2>1. s.entries[s.entries[e].parent].seq < s.entries[e].seq
    BY <1>1, <1>2, <1>4 DEF Ordered
  <2> QED
    BY <1>1, <1>2, <1>3, <1>4, <2>1
<1>5. Root \notin P
  BY <1>1 DEF Ordered
<1>6. \A e \in Q : s.entries[e].parent # Root => s.entries[e].parent \in Q
  BY <1>2, <1>4 DEF Path
<1>7. \A d, e \in Q : s.entries[d].seq < s.entries[e].seq =>
         s.entries[e].parent \in Q /\ s.entries[d].seq <= s.entries[s.entries[e].parent].seq
  BY <1>2, <1>4, <1>5 DEF Path
<1>8. Path(s, x, Q)
  BY <1>1, <1>2, <1>6, <1>7 DEF Path
<1> QED
  BY <1>8 DEF Q

(* Every entry of a path but its end is the parent of another. *)
LEMMA PathGoesOn ==
    ASSUME NEW s, Ordered(s), NEW id, NEW P, Path(s, id, P), NEW e \in P, e # id
    PROVE  \E d \in P : s.entries[d].parent = e /\ s.entries[e].seq < s.entries[d].seq
<1> DEFINE Later == {n \in Nat : \E d \in P : s.entries[d].seq = n /\ s.entries[e].seq < n}
<1>1. P \subseteq DOMAIN s.entries /\ \A d \in P : s.entries[d].seq \in Nat
  BY DEF Path, Ordered
<1>2. s.entries[e].seq < s.entries[id].seq
  <2>1. s.entries[e].seq <= s.entries[id].seq /\ id \in P
    BY DEF Path
  <2>2. s.entries[e].seq # s.entries[id].seq
    BY <1>1, <2>1 DEF Ordered
  <2> QED
    BY <1>1, <2>1, <2>2
<1>3. Later \in SUBSET Nat /\ s.entries[id].seq \in Later
  BY <1>1, <1>2 DEF Path
<1>4. PICK n \in Later : \A k \in Later : n <= k
  BY <1>3, LeastNumber
<1>5. PICK d \in P : s.entries[d].seq = n /\ s.entries[e].seq < n
  BY <1>4
<1> DEFINE p == s.entries[d].parent
<1>6. p \in P /\ s.entries[e].seq <= s.entries[p].seq
  BY <1>5 DEF Path
<1>7. p # Root /\ s.entries[p].seq < s.entries[d].seq /\ s.entries[p].seq \in Nat /\ s.entries[e].seq \in Nat
  BY <1>1, <1>6 DEF Ordered
<1>8. s.entries[p].seq \notin Later
  BY <1>4, <1>5, <1>7
<1> HIDE DEF p
<1>9. s.entries[p].seq = s.entries[e].seq
  <2>1. ~(s.entries[e].seq < s.entries[p].seq)
    BY <1>6, <1>7, <1>8
  <2> QED
    BY <1>6, <1>7, <2>1
<1>10. p = e
  BY <1>1, <1>6, <1>9 DEF Ordered
<1> QED
  BY <1>5, <1>10 DEF p


(* The recursion of Ancestors, one generation at a time. *)
Above(s, A) == A \cup ({s.entries[e].parent : e \in A} \ {Root})
Climbs(s, id, f, n) == f = [k \in 0..n |-> IF k = 0 THEN {id} ELSE Above(s, f[k - 1])]

LEMMA ClimbExists == ASSUME NEW s, NEW id, NEW n \in Nat PROVE \E f : Climbs(s, id, f, n)
<1> DEFINE T == {k \in Nat : \E f : Climbs(s, id, f, k)}
<1>1. 0 \in T
  <2> DEFINE f == [k \in {0} |-> {id}]
  <2>1. 0..0 = {0}
    OBVIOUS
  <2>2. Climbs(s, id, f, 0)
    BY <2>1 DEF Climbs
  <2> QED
    BY <2>2
<1>2. ASSUME NEW k \in Nat, k \in T
      PROVE  k + 1 \in T
  <2>1. PICK f : Climbs(s, id, f, k)
    BY <1>2
  <2> DEFINE h == [j \in 0..k + 1 |-> IF j \in 0..k THEN f[j] ELSE Above(s, f[k])]
  <2>2. ASSUME NEW j \in 0..k + 1
        PROVE  h[j] = IF j = 0 THEN {id} ELSE Above(s, h[j - 1])
    <3>1. CASE j = 0
      <4>1. h[0] = f[0] /\ f[0] = {id}
        BY <2>1 DEF Climbs
      <4> HIDE DEF h
      <4> QED
        BY <3>1, <4>1
    <3>2. CASE j \in 1..k
      <4>1. h[j] = f[j] /\ h[j - 1] = f[j - 1] /\ j # 0
        BY <3>2
      <4>2. f[j] = Above(s, f[j - 1])
        <5>1. j \in 0..k /\ j # 0
          BY <3>2
        <5> QED
          BY <2>1, <5>1 DEF Climbs
      <4> HIDE DEF h
      <4> QED
        BY <4>1, <4>2
    <3>3. CASE j = k + 1
      <4>1. h[k + 1] = Above(s, f[k]) /\ h[k] = f[k] /\ j - 1 = k /\ j # 0
        BY <3>3
      <4> HIDE DEF h
      <4> QED
        BY <3>3, <4>1
    <3> QED
      BY <3>1, <3>2, <3>3
  <2>3. h = [j \in 0..k + 1 |-> h[j]]
    OBVIOUS
  <2> HIDE DEF h
  <2>4. Climbs(s, id, h, k + 1)
    BY <2>2, <2>3 DEF Climbs
  <2>5. k + 1 \in Nat
    OBVIOUS
  <2> QED
    BY <2>4, <2>5
<1> HIDE DEF T
<1>3. n \in T
  BY <1>1, <1>2, SetInduction
<1> QED
  BY <1>3 DEF T

LEMMA AncestorsClimb ==
    ASSUME NEW s, NEW id, s.seq \in Nat, id # Root
    PROVE  \E f : Climbs(s, id, f, s.seq) /\ Ancestors(s, id) = f[s.seq]
<1>1. Ancestors(s, id) = (CHOOSE f : Climbs(s, id, f, s.seq))[s.seq]
  BY DEF Ancestors, Climbs, Above
<1>2. Climbs(s, id, CHOOSE f : Climbs(s, id, f, s.seq), s.seq)
  BY ClimbExists, Zenon
<1> QED
  BY <1>1, <1>2

(* A path to an entry is the set of its ancestors. *)
LEMMA PathIsAncestors ==
    ASSUME NEW s, Ordered(s), NEW id, NEW P, Path(s, id, P)
    PROVE  Ancestors(s, id) = P
<1>1. id \in P /\ P \subseteq DOMAIN s.entries /\ s.seq \in Nat /\ Root \notin DOMAIN s.entries
  BY DEF Path, Ordered
<1>2. PICK f : Climbs(s, id, f, s.seq) /\ Ancestors(s, id) = f[s.seq]
  BY <1>1, AncestorsClimb
<1>3. f[0] = {id} /\ \A k \in Nat : k + 1 <= s.seq => f[k + 1] = Above(s, f[k])
  <2>1. f[0] = {id}
    BY <1>1, <1>2 DEF Climbs
  <2>2. ASSUME NEW k \in Nat, k + 1 <= s.seq
        PROVE  f[k + 1] = Above(s, f[k])
    <3>1. k + 1 \in 0..s.seq /\ k + 1 # 0 /\ (k + 1) - 1 = k
      BY <1>1, <2>2
    <3> QED
      BY <1>2, <3>1 DEF Climbs
  <2> QED
    BY <2>1, <2>2
<1> DEFINE Near(k) == {e \in P : s.entries[id].seq - s.entries[e].seq <= k}
           T == {k \in Nat : k <= s.seq => f[k] \subseteq P /\ Near(k) \subseteq f[k]}
<1>4. \A e \in P : s.entries[e].seq \in 1..s.seq /\ s.entries[e].seq <= s.entries[id].seq
  BY <1>1 DEF Path, Ordered
<1>5. 0 \in T
  <2>1. ASSUME NEW e \in Near(0)
        PROVE  e = id
    <3>1. e \in P /\ s.entries[e].seq = s.entries[id].seq
      BY <1>1, <1>4
    <3> QED
      BY <1>1, <3>1 DEF Ordered
  <2> QED
    BY <1>1, <1>3, <2>1
<1>6. ASSUME NEW k \in Nat, k \in T
      PROVE  k + 1 \in T
  <2> SUFFICES ASSUME k + 1 <= s.seq
               PROVE  f[k + 1] \subseteq P /\ Near(k + 1) \subseteq f[k + 1]
    OBVIOUS
  <2>1. f[k] \subseteq P /\ Near(k) \subseteq f[k]
    BY <1>1, <1>6
  <2>2. f[k + 1] = Above(s, f[k])
    BY <1>3
  <2>3. f[k + 1] \subseteq P
    BY <2>1, <2>2 DEF Above, Path
  <2>4. ASSUME NEW e \in Near(k + 1)
        PROVE  e \in f[k + 1]
    <3>1. CASE e = id
      <4>1. id \in Near(k)
        BY <1>1, <1>4
      <4> QED
        BY <2>1, <2>2, <3>1, <4>1 DEF Above
    <3>2. CASE e # id
      <4>1. PICK d \in P : s.entries[d].parent = e /\ s.entries[e].seq < s.entries[d].seq
        BY <3>2, PathGoesOn
      <4>2. d \in Near(k)
        BY <1>1, <1>4, <2>4, <4>1
      <4>3. e # Root
        BY <1>1, <2>4
      <4> HIDE DEF Near
      <4> QED
        BY <2>1, <2>2, <4>1, <4>2, <4>3 DEF Above
    <3> QED
      BY <3>1, <3>2
  <2> QED
    BY <2>3, <2>4
<1> HIDE DEF T
<1>7. s.seq \in T
  BY <1>1, <1>5, <1>6, SetInduction
<1>8. f[s.seq] \subseteq P /\ Near(s.seq) \subseteq f[s.seq]
  BY <1>1, <1>7 DEF T
<1>9. P \subseteq Near(s.seq)
  BY <1>1, <1>4
<1> QED
  BY <1>2, <1>8, <1>9

-----------------------------------------------------------------------------
(* Entries listed in their order *)

(* InOrder lists each id of a set once, and nothing else. *)
LEMMA InOrderLists ==
    ASSUME NEW s, Ordered(s), NEW ids, ids \subseteq DOMAIN s.entries
    PROVE  /\ Cardinality(ids) \in Nat
           /\ InOrder(s, ids) \in [1..Cardinality(ids) -> ids]
           /\ \A e \in ids : \E i \in 1..Cardinality(ids) : InOrder(s, ids)[i] = e
           /\ \A i, j \in 1..Cardinality(ids) : InOrder(s, ids)[i] = InOrder(s, ids)[j] => i = j
           /\ \A i, j \in 1..Cardinality(ids) :
                 i < j => s.entries[InOrder(s, ids)[i]].seq < s.entries[InOrder(s, ids)[j]].seq
<1> DEFINE earlier(e) == {d \in ids : s.entries[d].seq < s.entries[e].seq}
           n == Cardinality(ids)
<1>1. \A e \in ids : s.entries[e].seq \in 1..s.seq
  BY DEF Ordered
<1>2. IsFiniteSet(ids)
  <2> DEFINE g == [e \in ids |-> s.entries[e].seq]
  <2>1. g \in Injection(ids, 1..s.seq)
    BY <1>1 DEF Ordered, Injection, IsInjective
  <2>2. IsFiniteSet(1..s.seq)
    BY FS_Interval DEF Ordered
  <2> QED
    BY <2>1, <2>2, FS_Injection
<1>3. n \in Nat
  BY <1>2, FS_CardinalityType
<1>4. ASSUME NEW e \in ids
      PROVE  /\ IsFiniteSet(earlier(e)) /\ Cardinality(earlier(e)) \in 0..(n - 1)
  <2>1. earlier(e) \subseteq ids \ {e}
    BY <1>1
  <2>2. IsFiniteSet(ids \ {e}) /\ Cardinality(ids \ {e}) = n - 1
    BY <1>2, FS_RemoveElement
  <2> HIDE DEF earlier
  <2>3. IsFiniteSet(earlier(e)) /\ Cardinality(earlier(e)) <= n - 1
    BY <2>1, <2>2, FS_Subset
  <2>4. Cardinality(earlier(e)) \in Nat
    BY <2>3, FS_CardinalityType
  <2> QED
    BY <1>3, <2>3, <2>4
<1>5. ASSUME NEW d \in ids, NEW e \in ids, s.entries[d].seq < s.entries[e].seq
      PROVE  Cardinality(earlier(d)) # Cardinality(earlier(e))
  <2>1. earlier(d) \subseteq earlier(e) /\ d \in earlier(e) /\ d \notin earlier(d)
    BY <1>1, <1>5
  <2>2. IsFiniteSet(earlier(e))
    BY <1>4
  <2> HIDE DEF earlier
  <2> QED
    BY <2>1, <2>2, FS_Subset
<1>6. ASSUME NEW d \in ids, NEW e \in ids, Cardinality(earlier(d)) = Cardinality(earlier(e))
      PROVE  d = e
  <2>1. ~(s.entries[d].seq < s.entries[e].seq) /\ ~(s.entries[e].seq < s.entries[d].seq)
    BY <1>5, <1>6
  <2>2. s.entries[d].seq = s.entries[e].seq
    BY <1>1, <2>1
  <2> QED
    BY <2>2 DEF Ordered
<1> DEFINE rank == [e \in ids |-> Cardinality(earlier(e)) + 1]
<1>7. ASSUME NEW e \in ids
      PROVE  rank[e] = Cardinality(earlier(e)) + 1 /\ rank[e] \in 1..n
  <2>1. Cardinality(earlier(e)) \in 0..(n - 1)
    BY <1>4
  <2> HIDE DEF earlier
  <2> QED
    BY <1>3, <2>1
<1>8. rank \in Injection(ids, 1..n)
  <2>1. rank \in [ids -> 1..n]
    BY <1>7
  <2>2. ASSUME NEW d \in ids, NEW e \in ids, rank[d] = rank[e]
        PROVE  d = e
    <3>1. Cardinality(earlier(d)) \in 0..(n - 1) /\ Cardinality(earlier(e)) \in 0..(n - 1)
      BY <1>4
    <3>2. rank[d] = Cardinality(earlier(d)) + 1 /\ rank[e] = Cardinality(earlier(e)) + 1
      BY <1>7
    <3> DEFINE x == Cardinality(earlier(d))
               y == Cardinality(earlier(e))
    <3>3. x \in Int /\ y \in Int /\ x + 1 = y + 1
      BY <1>3, <2>2, <3>1, <3>2
    <3>4. x = y
      <4> HIDE DEF x, y
      <4> QED
        BY <3>3
    <3> QED
      BY <1>6, <3>4
  <2>3. DOMAIN rank = ids
    OBVIOUS
  <2> HIDE DEF rank
  <2> QED
    BY <2>1, <2>2, <2>3 DEF Injection, IsInjective
<1>9. \A i \in 1..n : \E e \in ids : rank[e] = i
  <2>1. IsFiniteSet(1..n) /\ Cardinality(1..n) = n
    BY <1>3, FS_Interval
  <2> HIDE DEF rank
  <2>2. rank \in Surjection(ids, 1..n)
    BY <1>8, <2>1, FS_Injection
  <2> QED
    BY <2>2 DEF Surjection
<1> DEFINE listed == [i \in 1..n |-> CHOOSE e \in ids : Cardinality(earlier(e)) = i - 1]
<1>10. \A i \in 1..n : listed[i] \in ids /\ Cardinality(earlier(listed[i])) = i - 1
  <2> SUFFICES ASSUME NEW i \in 1..n
               PROVE  listed[i] \in ids /\ Cardinality(earlier(listed[i])) = i - 1
    OBVIOUS
  <2>1. PICK e \in ids : rank[e] = i
    BY <1>9
  <2>2. Cardinality(earlier(e)) \in 0..(n - 1) /\ rank[e] = Cardinality(earlier(e)) + 1
    BY <1>4, <1>7
  <2> HIDE DEF earlier, rank
  <2>3. Cardinality(earlier(e)) = i - 1
    BY <1>3, <2>1, <2>2
  <2> QED
    BY <2>3
<1>11. \A e \in ids : \E i \in 1..n : listed[i] = e
  <2> SUFFICES ASSUME NEW e \in ids PROVE \E i \in 1..n : listed[i] = e
    OBVIOUS
  <2>1. rank[e] \in 1..n /\ rank[e] = Cardinality(earlier(e)) + 1 /\ Cardinality(earlier(e)) \in 0..(n - 1)
    BY <1>4, <1>7
  <2>2. listed[rank[e]] \in ids /\ Cardinality(earlier(listed[rank[e]])) = rank[e] - 1
    BY <1>10, <2>1
  <2> HIDE DEF earlier, rank, listed
  <2>3. Cardinality(earlier(listed[rank[e]])) = Cardinality(earlier(e))
    BY <1>3, <2>1, <2>2
  <2>4. listed[rank[e]] = e
    BY <1>6, <2>2, <2>3
  <2> QED
    BY <2>1, <2>4
<1>12. InOrder(s, ids) = listed
  BY DEF InOrder
<1>13. listed \in [1..n -> ids]
  BY <1>10
<1>14. ASSUME NEW i \in 1..n, NEW j \in 1..n, listed[i] = listed[j]
       PROVE  i = j
  <2>1. Cardinality(earlier(listed[i])) = i - 1 /\ Cardinality(earlier(listed[j])) = j - 1
    BY <1>10
  <2> HIDE DEF earlier, rank, listed
  <2>2. i - 1 = j - 1
    BY <1>14, <2>1
  <2> QED
    BY <1>3, <2>2
<1>15. ASSUME NEW i \in 1..n, NEW j \in 1..n, s.entries[listed[i]].seq < s.entries[listed[j]].seq
       PROVE  i < j
  <2>1. /\ listed[i] \in ids /\ Cardinality(earlier(listed[i])) = i - 1
        /\ listed[j] \in ids /\ Cardinality(earlier(listed[j])) = j - 1
    BY <1>10
  <2> HIDE DEF listed
  <2>2. earlier(listed[i]) \subseteq earlier(listed[j])
    BY <1>1, <1>15, <2>1
  <2>3. IsFiniteSet(earlier(listed[j]))
    BY <1>4, <2>1
  <2>4. Cardinality(earlier(listed[i])) # Cardinality(earlier(listed[j]))
    BY <1>5, <1>15, <2>1
  <2> HIDE DEF earlier, rank
  <2>5. Cardinality(earlier(listed[i])) <= Cardinality(earlier(listed[j]))
    BY <2>2, <2>3, FS_Subset
  <2>6. i - 1 <= j - 1 /\ i - 1 # j - 1
    BY <2>1, <2>4, <2>5
  <2> QED
    BY <1>3, <2>6
<1> HIDE DEF listed
<1>16. ASSUME NEW i \in 1..n, NEW j \in 1..n, i < j
       PROVE  s.entries[listed[i]].seq < s.entries[listed[j]].seq
  <2>1. listed[i] \in ids /\ listed[j] \in ids
    BY <1>13
  <2>2. s.entries[listed[i]].seq \in Nat /\ s.entries[listed[j]].seq \in Nat
    BY <1>1, <2>1
  <2>3. ~(s.entries[listed[j]].seq < s.entries[listed[i]].seq)
    BY <1>3, <1>15, <1>16
  <2>4. s.entries[listed[j]].seq # s.entries[listed[i]].seq
    BY <1>3, <1>14, <1>16, <2>1 DEF Ordered
  <2> QED
    BY <2>2, <2>3, <2>4
<1> QED
  BY <1>3, <1>11, <1>12, <1>13, <1>14, <1>16

-----------------------------------------------------------------------------
(* The log of a copy *)

(* The ids, and the lanes, of the first k mutations of a kind. *)
Of(ms, k, kind) == {i \in 1..k : ms[i].kind = kind}
Ids(ms, k, kind) == {ms[i].id : i \in Of(ms, k, kind)}
LanesOf(ms, k) == {ms[i].lane : i \in Of(ms, k, "lane")}

LEMMA OneMore ==
    ASSUME NEW ms, NEW k \in Nat, NEW kind
    PROVE  /\ Of(ms, k + 1, kind) = IF ms[k + 1].kind = kind THEN Of(ms, k, kind) \cup {k + 1} ELSE Of(ms, k, kind)
           /\ Ids(ms, k + 1, kind) = IF ms[k + 1].kind = kind THEN Ids(ms, k, kind) \cup {ms[k + 1].id}
                                     ELSE Ids(ms, k, kind)
           /\ LanesOf(ms, k + 1) = IF ms[k + 1].kind = "lane" THEN LanesOf(ms, k) \cup {ms[k + 1].lane}
                                    ELSE LanesOf(ms, k)
<1>1. 1..k + 1 = 1..k \cup {k + 1}
  OBVIOUS
<1>2. \A x : Of(ms, k + 1, x) = IF ms[k + 1].kind = x THEN Of(ms, k, x) \cup {k + 1} ELSE Of(ms, k, x)
  BY <1>1 DEF Of
<1> QED
  BY <1>2 DEF Ids, LanesOf

(* A mutation of a copy: an entry above what it depends on, one that moves a lane, the name,
   or a label. *)
CopyStep(ms, i) ==
    /\ ms[i].seq = i
    /\ ms[i].kind \in {"entry", "lane", "name", "label"}
    /\ ms[i].kind = "entry" =>
          /\ ms[i].lane = NoLane /\ ms[i].id \notin Ids(ms, i - 1, "entry")
          /\ ms[i].parent \in Ids(ms, i - 1, "entry") \cup {Root}
    /\ ms[i].kind = "lane" =>
          /\ ms[i].leaf \in Ids(ms, i - 1, "entry") \cup {Root}
          /\ ms[i].lane \notin LanesOf(ms, i - 1)
    /\ ms[i].kind = "label" =>
          ms[i].id \in Ids(ms, i - 1, "entry") /\ ms[i].label # NoLabel
    /\ ms[i].kind = "name" => Of(ms, i - 1, "name") = {}
IsCopy(ms) == \A i \in 1..Len(ms) : CopyStep(ms, i)

(* What the first k mutations of a copy leave. *)
EntriesCopied(ms, k, t) ==
    /\ t.used = Ids(ms, k, "entry") /\ DOMAIN t.entries = Ids(ms, k, "entry")
    /\ \A i \in Of(ms, k, "entry") :
          t.entries[ms[i].id].parent = ms[i].parent /\ t.entries[ms[i].id].seq = i
LanesCopied(ms, k, t) ==
    /\ DOMAIN t.lanes = LanesOf(ms, k) \cup {Main}
    /\ \A i \in Of(ms, k, "lane") : t.lanes[ms[i].lane] = ms[i].leaf
FactsCopied(ms, k, t) ==
    /\ DOMAIN t.labels = Ids(ms, k, "label")
    /\ Of(ms, k, "name") = {} => t.name = NoLabel
    /\ \A i \in Of(ms, k, "name") : t.name = ms[i].label
Copied(ms, k, t) ==
    /\ IsState(t) /\ t.seq = k /\ t.open = {}
    /\ EntriesCopied(ms, k, t) /\ LanesCopied(ms, k, t) /\ FactsCopied(ms, k, t)

LEMMA NothingCopied == ASSUME NEW ms PROVE Copied(ms, 0, Empty)
<1>1. \A kind : Of(ms, 0, kind) = {}
  BY DEF Of
<1> QED
  BY <1>1 DEF Copied, EntriesCopied, LanesCopied, FactsCopied, Ids, LanesOf, IsState, Empty

LEMMA CopyGoesOn ==
    ASSUME NEW ms, NEW k \in Nat, NEW s, Copied(ms, k, s), CopyStep(ms, k + 1)
    PROVE  Accepts(s, ms[k + 1]) /\ Copied(ms, k + 1, Apply(s, ms[k + 1]))
<1> DEFINE m == ms[k + 1]
           t == Apply(s, m)
<1> SUFFICES Accepts(s, m) /\ Copied(ms, k + 1, t)
  OBVIOUS
<1>1. /\ m.seq = k + 1 /\ m.kind \in {"entry", "lane", "name", "label"}
      /\ m.kind = "entry" =>
            /\ m.lane = NoLane /\ m.id \notin Ids(ms, k, "entry")
            /\ m.parent \in Ids(ms, k, "entry") \cup {Root}
      /\ m.kind = "lane" =>
            /\ m.leaf \in Ids(ms, k, "entry") \cup {Root}
            /\ m.lane \notin LanesOf(ms, k)
      /\ m.kind = "label" => m.id \in Ids(ms, k, "entry") /\ m.label # NoLabel
      /\ m.kind = "name" => Of(ms, k, "name") = {}
  <2>1. (k + 1) - 1 = k
    OBVIOUS
  <2> QED
    BY <2>1 DEF CopyStep
<1>2. \A kind : /\ Of(ms, k + 1, kind) = IF m.kind = kind THEN Of(ms, k, kind) \cup {k + 1} ELSE Of(ms, k, kind)
                /\ Ids(ms, k + 1, kind) = IF m.kind = kind THEN Ids(ms, k, kind) \cup {m.id} ELSE Ids(ms, k, kind)
                /\ LanesOf(ms, k + 1) = IF m.kind = "lane" THEN LanesOf(ms, k) \cup {m.lane} ELSE LanesOf(ms, k)
  BY OneMore
<1>3. \A kind : \A i \in Of(ms, k, kind) : i \in 1..k /\ ms[i].kind = kind
  BY DEF Of
<1>4. /\ \A i \in Of(ms, k, "entry") : ms[i].id \in Ids(ms, k, "entry")
      /\ \A i \in Of(ms, k, "lane") : ms[i].lane \in LanesOf(ms, k)
  BY DEF Ids, LanesOf
<1>5. IsState(s) /\ s.seq = k /\ s.open = {} /\ EntriesCopied(ms, k, s) /\ LanesCopied(ms, k, s) /\ FactsCopied(ms, k, s)
  BY DEF Copied
<1>6. ms[k + 1] = m
  OBVIOUS
<1> HIDE DEF m
<1>7. CASE m.kind = "entry"
  <2>1. Accepts(s, m)
    BY <1>1, <1>5, <1>7 DEF Accepts, HasTarget, HasEntry, EntriesCopied
  <2>2. t = ApplyEntry(s, m)
    BY <1>7 DEF Apply
  <2>3. /\ IsState(t) /\ t.seq = k + 1 /\ t.open = {} /\ t.used = s.used \cup {m.id}
        /\ t.entries = Put(s.entries, m.id, [parent |-> m.parent, type |-> m.type, seq |-> m.seq])
        /\ t.lanes = s.lanes /\ t.labels = s.labels /\ t.name = s.name
    BY <1>1, <1>5, <1>7, <2>2 DEF ApplyEntry, IsState
  <2> HIDE DEF t
  <2>4. /\ DOMAIN t.entries = DOMAIN s.entries \cup {m.id}
        /\ t.entries[m.id].parent = m.parent /\ t.entries[m.id].seq = k + 1
        /\ \A x \in DOMAIN s.entries : x # m.id => t.entries[x] = s.entries[x]
    BY <1>1, <2>3 DEF Put
  <2>5. EntriesCopied(ms, k + 1, t)
    <3>1. ASSUME NEW i \in Of(ms, k, "entry")
          PROVE  t.entries[ms[i].id].parent = ms[i].parent /\ t.entries[ms[i].id].seq = i
      <4>1. ms[i].id \in Ids(ms, k, "entry") /\ ms[i].id # m.id
        BY <1>1, <1>4, <1>7
      <4> QED
        BY <1>5, <2>4, <4>1 DEF EntriesCopied
    <3>2. Of(ms, k + 1, "entry") = Of(ms, k, "entry") \cup {k + 1}
      BY <1>2, <1>7
    <3>3. Ids(ms, k + 1, "entry") = Ids(ms, k, "entry") \cup {m.id}
      BY <1>2, <1>7
    <3>4. t.entries[ms[k + 1].id].parent = ms[k + 1].parent /\ t.entries[ms[k + 1].id].seq = k + 1
      BY <1>6, <2>4
    <3>5. t.used = Ids(ms, k + 1, "entry") /\ DOMAIN t.entries = Ids(ms, k + 1, "entry")
      BY <1>5, <2>3, <2>4, <3>3 DEF EntriesCopied
    <3> QED
      BY <3>1, <3>2, <3>4, <3>5 DEF EntriesCopied
  <2>6. LanesCopied(ms, k + 1, t) /\ FactsCopied(ms, k + 1, t)
    <3>1. Of(ms, k + 1, "lane") = Of(ms, k, "lane") /\ LanesOf(ms, k + 1) = LanesOf(ms, k)
      BY <1>2, <1>7
    <3>2. LanesCopied(ms, k + 1, t)
      BY <1>5, <2>3, <3>1 DEF LanesCopied
    <3>3. Of(ms, k + 1, "name") = Of(ms, k, "name") /\ Ids(ms, k + 1, "label") = Ids(ms, k, "label")
      BY <1>2, <1>7
    <3>4. FactsCopied(ms, k + 1, t)
      BY <1>5, <2>3, <3>3 DEF FactsCopied
    <3> QED
      BY <3>2, <3>4
  <2> QED
    BY <2>1, <2>3, <2>5, <2>6 DEF Copied
<1>8. CASE m.kind = "lane"
  <2>1. Accepts(s, m)
    BY <1>1, <1>5, <1>8 DEF Accepts, HasTarget, HasEntry, EntriesCopied
  <2>2. t = [s EXCEPT !.seq = m.seq, !.lanes = Put(@, m.lane, m.leaf)]
    BY <1>8 DEF Apply
  <2>3. /\ IsState(t) /\ t.seq = k + 1 /\ t.open = {} /\ t.used = s.used
        /\ t.entries = s.entries /\ t.lanes = Put(s.lanes, m.lane, m.leaf)
        /\ t.labels = s.labels /\ t.name = s.name
    BY <1>1, <1>5, <2>2 DEF IsState
  <2> HIDE DEF t
  <2>4. /\ DOMAIN t.lanes = DOMAIN s.lanes \cup {m.lane} /\ t.lanes[m.lane] = m.leaf
        /\ \A x \in DOMAIN s.lanes : x # m.lane => t.lanes[x] = s.lanes[x]
    BY <2>3 DEF Put
  <2>5. LanesCopied(ms, k + 1, t)
    <3>1. ASSUME NEW i \in Of(ms, k, "lane")
          PROVE  t.lanes[ms[i].lane] = ms[i].leaf
      <4>1. ms[i].lane \in LanesOf(ms, k) /\ ms[i].lane # m.lane
        BY <1>1, <1>4, <1>8
      <4> QED
        BY <1>5, <2>4, <4>1 DEF LanesCopied
    <3>2. Of(ms, k + 1, "lane") = Of(ms, k, "lane") \cup {k + 1}
      BY <1>2, <1>8
    <3>3. t.lanes[ms[k + 1].lane] = ms[k + 1].leaf
      BY <1>6, <2>4
    <3>4. DOMAIN t.lanes = LanesOf(ms, k + 1) \cup {Main}
      <4>1. LanesOf(ms, k + 1) = LanesOf(ms, k) \cup {m.lane}
        BY <1>2, <1>8
      <4> QED
        BY <1>5, <2>4, <4>1 DEF LanesCopied
    <3> QED
      BY <3>1, <3>2, <3>3, <3>4 DEF LanesCopied
  <2>6. EntriesCopied(ms, k + 1, t) /\ FactsCopied(ms, k + 1, t)
    <3>1. Of(ms, k + 1, "entry") = Of(ms, k, "entry") /\ Ids(ms, k + 1, "entry") = Ids(ms, k, "entry")
      BY <1>2, <1>8
    <3>2. EntriesCopied(ms, k + 1, t)
      BY <1>5, <2>3, <3>1 DEF EntriesCopied
    <3>3. Of(ms, k + 1, "name") = Of(ms, k, "name") /\ Ids(ms, k + 1, "label") = Ids(ms, k, "label")
      BY <1>2, <1>8
    <3>4. FactsCopied(ms, k + 1, t)
      BY <1>5, <2>3, <3>3 DEF FactsCopied
    <3> QED
      BY <3>2, <3>4
  <2> QED
    BY <2>1, <2>3, <2>5, <2>6 DEF Copied
<1>9. CASE m.kind = "label"
  <2>1. Accepts(s, m)
    BY <1>1, <1>5, <1>9 DEF Accepts, HasEntry, EntriesCopied
  <2>2. t = ApplyLabel(s, m)
    BY <1>9 DEF Apply
  <2>3. /\ IsState(t) /\ t.seq = k + 1 /\ t.open = {} /\ t.used = s.used
        /\ t.entries = s.entries /\ t.lanes = s.lanes
        /\ t.labels = Put(s.labels, m.id, m.label) /\ t.name = s.name
    BY <1>1, <1>5, <1>9, <2>2 DEF ApplyLabel, IsState
  <2> HIDE DEF t
  <2>4. DOMAIN t.labels = DOMAIN s.labels \cup {m.id}
    BY <2>3 DEF Put
  <2>5. FactsCopied(ms, k + 1, t)
    BY <1>2, <1>5, <1>9, <2>3, <2>4 DEF FactsCopied
  <2>6. EntriesCopied(ms, k + 1, t) /\ LanesCopied(ms, k + 1, t)
    <3>1. Of(ms, k + 1, "entry") = Of(ms, k, "entry") /\ Ids(ms, k + 1, "entry") = Ids(ms, k, "entry")
      BY <1>2, <1>9
    <3>2. EntriesCopied(ms, k + 1, t)
      BY <1>5, <2>3, <3>1 DEF EntriesCopied
    <3>3. Of(ms, k + 1, "lane") = Of(ms, k, "lane") /\ LanesOf(ms, k + 1) = LanesOf(ms, k)
      BY <1>2, <1>9
    <3>4. LanesCopied(ms, k + 1, t)
      BY <1>5, <2>3, <3>3 DEF LanesCopied
    <3> QED
      BY <3>2, <3>4
  <2> QED
    BY <2>1, <2>3, <2>5, <2>6 DEF Copied
<1>10. CASE m.kind = "name"
  <2>1. Accepts(s, m)
    BY <1>1, <1>5, <1>10 DEF Accepts
  <2>2. t = [s EXCEPT !.seq = m.seq, !.name = m.label]
    BY <1>10 DEF Apply
  <2>3. /\ IsState(t) /\ t.seq = k + 1 /\ t.open = {} /\ t.used = s.used
        /\ t.entries = s.entries /\ t.lanes = s.lanes
        /\ t.labels = s.labels /\ t.name = m.label
    BY <1>1, <1>5, <2>2 DEF IsState
  <2> HIDE DEF t
  <2>4. FactsCopied(ms, k + 1, t)
    <3>1. Of(ms, k + 1, "name") = {k + 1}
      <4>1. Of(ms, k, "name") = {}
        BY <1>1, <1>10
      <4>2. Of(ms, k + 1, "name") = Of(ms, k, "name") \cup {k + 1}
        BY <1>2, <1>10
      <4> QED
        BY <4>1, <4>2
    <3>2. Ids(ms, k + 1, "label") = Ids(ms, k, "label")
      BY <1>2, <1>10
    <3>3. DOMAIN t.labels = Ids(ms, k + 1, "label")
      BY <1>5, <2>3, <3>2 DEF FactsCopied
    <3> QED
      BY <1>6, <2>3, <3>1, <3>3 DEF FactsCopied
  <2>5. EntriesCopied(ms, k + 1, t) /\ LanesCopied(ms, k + 1, t)
    <3>1. Of(ms, k + 1, "entry") = Of(ms, k, "entry") /\ Ids(ms, k + 1, "entry") = Ids(ms, k, "entry")
      BY <1>2, <1>10
    <3>2. EntriesCopied(ms, k + 1, t)
      BY <1>5, <2>3, <3>1 DEF EntriesCopied
    <3>3. Of(ms, k + 1, "lane") = Of(ms, k, "lane") /\ LanesOf(ms, k + 1) = LanesOf(ms, k)
      BY <1>2, <1>10
    <3>4. LanesCopied(ms, k + 1, t)
      BY <1>5, <2>3, <3>3 DEF LanesCopied
    <3> QED
      BY <3>2, <3>4
  <2> QED
    BY <2>1, <2>3, <2>4, <2>5 DEF Copied
<1> QED
  BY <1>1, <1>7, <1>8, <1>9, <1>10

(* The log of a copy replays, and leaves what it says. *)
LEMMA CopyReplays ==
    ASSUME NEW S, NEW ms \in Seq(S), IsCopy(ms)
    PROVE  Replays(ms) /\ Copied(ms, Len(ms), Replay(ms))
<1> DEFINE N == Len(ms)
           part(k) == SubSeq(ms, 1, k)
           T == {k \in Nat : k <= N => Replays(part(k)) /\ Copied(ms, k, Replay(part(k)))}
<1>1. N \in Nat /\ part(N) = ms /\ part(0) = <<>>
  OBVIOUS
<1>2. ASSUME NEW k \in Nat, k + 1 <= N
      PROVE  /\ part(k) \in Seq(S) /\ ms[k + 1] \in S /\ part(k + 1) = Append(part(k), ms[k + 1])
             /\ CopyStep(ms, k + 1)
  <2>1. k + 1 \in 1..Len(ms)
    BY <1>2
  <2> QED
    BY <2>1 DEF IsCopy
<1> HIDE DEF part, N
<1>3. 0 \in T
  BY <1>1, ReplaysEmpty, ReplayEmpty, NothingCopied
<1>4. ASSUME NEW k \in Nat, k \in T PROVE k + 1 \in T
  <2> SUFFICES ASSUME k + 1 <= N
               PROVE  Replays(part(k + 1)) /\ Copied(ms, k + 1, Replay(part(k + 1)))
    OBVIOUS
  <2>1. Replays(part(k)) /\ Copied(ms, k, Replay(part(k)))
    BY <1>1, <1>4
  <2> DEFINE s == Replay(part(k))
             m == ms[k + 1]
  <2>2. /\ part(k) \in Seq(S) /\ m \in S /\ part(k + 1) = Append(part(k), m)
        /\ CopyStep(ms, k + 1)
    BY <1>2
  <2>3. Accepts(s, m) /\ Copied(ms, k + 1, Apply(s, m))
    BY <2>1, <2>2, CopyGoesOn
  <2> HIDE DEF m
  <2>4. Replay(part(k + 1)) = Apply(s, m)
    BY <2>2, ReplayAppend
  <2>5. Replays(part(k + 1))
    BY <2>1, <2>2, <2>3, ReplaysAppend
  <2> QED
    BY <2>3, <2>4, <2>5
<1> HIDE DEF T
<1>5. N \in T
  BY <1>1, <1>3, <1>4, SetInduction
<1> QED
  BY <1>1, <1>5 DEF T, N

-----------------------------------------------------------------------------
(* What is copied *)

(* Four sequences behind each other. *)
FourParts(x, a, b, c, d) ==
    /\ Len(x) = Len(a) + Len(b) + Len(c) + Len(d)
    /\ \A i \in 1..Len(x) :
          /\ i <= Len(a) => x[i] = a[i]
          /\ Len(a) < i /\ i <= Len(a) + Len(b) => x[i] = b[i - Len(a)]
          /\ Len(a) + Len(b) < i /\ i <= Len(a) + Len(b) + Len(c) => x[i] = c[i - (Len(a) + Len(b))]
          /\ Len(a) + Len(b) + Len(c) < i => x[i] = d[i - (Len(a) + Len(b) + Len(c))]

LEMMA FourInARow ==
    ASSUME NEW M, NEW a \in Seq(M), NEW b \in Seq(M), NEW c \in Seq(M), NEW d \in Seq(M)
    PROVE  a \o b \o c \o d \in Seq(M) /\ FourParts(a \o b \o c \o d, a, b, c, d)
<1> DEFINE ab == a \o b
           abc == ab \o c
           x == abc \o d
           i == Len(a)
           j == Len(b)
           k == Len(c)
           l == Len(d)
<1>1. i \in Nat /\ j \in Nat /\ k \in Nat /\ l \in Nat
  OBVIOUS
<1>2. /\ ab \in Seq(M) /\ Len(ab) = i + j
      /\ \A e \in 1..i + j : ab[e] = IF e <= i THEN a[e] ELSE b[e - i]
  BY ConcatProperties
<1> HIDE DEF ab
<1>3. /\ abc \in Seq(M) /\ Len(abc) = i + j + k
      /\ \A e \in 1..i + j + k : abc[e] = IF e <= i + j THEN ab[e] ELSE c[e - (i + j)]
  <2>1. c \in Seq(M) /\ ab \in Seq(M)
    BY <1>2
  <2>2. /\ abc \in Seq(M) /\ Len(abc) = Len(ab) + Len(c)
        /\ \A e \in 1..Len(ab) + Len(c) : abc[e] = IF e <= Len(ab) THEN ab[e] ELSE c[e - Len(ab)]
    BY <2>1, ConcatProperties
  <2>3. Len(ab) = i + j /\ Len(c) = k
    BY <1>2
  <2> HIDE DEF abc, i, j, k
  <2> QED
    BY <2>2, <2>3
<1> HIDE DEF abc
<1>4. /\ x \in Seq(M) /\ Len(x) = i + j + k + l
      /\ \A e \in 1..i + j + k + l : x[e] = IF e <= i + j + k THEN abc[e] ELSE d[e - (i + j + k)]
  <2>1. d \in Seq(M) /\ abc \in Seq(M)
    BY <1>3
  <2>2. /\ x \in Seq(M) /\ Len(x) = Len(abc) + Len(d)
        /\ \A e \in 1..Len(abc) + Len(d) : x[e] = IF e <= Len(abc) THEN abc[e] ELSE d[e - Len(abc)]
    BY <2>1, ConcatProperties
  <2>3. Len(abc) = i + j + k /\ Len(d) = l
    BY <1>3
  <2> HIDE DEF x, i, j, k, l
  <2> QED
    BY <2>2, <2>3
<1> HIDE DEF x, i, j, k, l
<1>5. ASSUME NEW e \in 1..i + j + k + l
      PROVE  /\ e <= i => x[e] = a[e]
             /\ i < e /\ e <= i + j => x[e] = b[e - i]
             /\ i + j < e /\ e <= i + j + k => x[e] = c[e - (i + j)]
             /\ i + j + k < e => x[e] = d[e - (i + j + k)]
  <2>1. x[e] = IF e <= i + j + k THEN abc[e] ELSE d[e - (i + j + k)]
    BY <1>4
  <2>2. e <= i + j + k => abc[e] = IF e <= i + j THEN ab[e] ELSE c[e - (i + j)]
    BY <1>1, <1>3
  <2>3. e <= i + j => ab[e] = IF e <= i THEN a[e] ELSE b[e - i]
    BY <1>1, <1>2
  <2> QED
    BY <1>1, <2>1, <2>2, <2>3
<1>6. FourParts(x, a, b, c, d)
  BY <1>4, <1>5 DEF FourParts, i, j, k, l
<1> QED
  BY <1>4, <1>6 DEF x, ab, abc

LEMMA FunctionIsSeq ==
    ASSUME NEW M, NEW n \in Nat, NEW f \in [1..n -> M]
    PROVE  f \in Seq(M) /\ Len(f) = n
  OBVIOUS

(* A log that copies: first the entries, then the lanes, the name if there is one, and the
   labels. *)
CopyLog(ms, s, copied, leafs, names, labels, n) ==
    /\ Len(ms) = Len(copied) + Len(names) + n + Len(labels)
    /\ \A i \in 1..Len(ms) :
          /\ ms[i].seq = i
          /\ i <= Len(copied) =>
                /\ ms[i].kind = "entry" /\ ms[i].id = copied[i] /\ ms[i].lane = NoLane
                /\ ms[i].parent = s.entries[copied[i]].parent
          /\ Len(copied) < i /\ i <= Len(copied) + Len(names) =>
                /\ ms[i].kind = "lane" /\ ms[i].lane = names[i - Len(copied)]
                /\ ms[i].leaf = leafs[names[i - Len(copied)]]
          /\ Len(copied) + Len(names) < i /\ i <= Len(copied) + Len(names) + n =>
                ms[i].kind = "name" /\ ms[i].label = s.name
          /\ Len(copied) + Len(names) + n < i =>
                /\ ms[i].kind = "label" /\ ms[i].id = labels[i - (Len(copied) + Len(names) + n)]
                /\ ms[i].label = s.labels[labels[i - (Len(copied) + Len(names) + n)]]

LEMMA PutSeq ==
    ASSUME NEW m, NEW i
    PROVE  /\ Put(m, "seq", i).seq = i
           /\ \A f \in DOMAIN m : f # "seq" => Put(m, "seq", i)[f] = m[f]
  BY DEF Put

LEMMA CopyMutationsIs ==
    ASSUME NEW s, NEW D, NEW copied \in Seq(D), NEW leafs,
           NEW L, SetToSeq(DOMAIN leafs) \in Seq(L),
           NEW B, InOrder(s, ToSet(copied) \cap DOMAIN s.labels) \in Seq(B)
    PROVE  /\ \E S : CopyMutations(s, copied, leafs) \in Seq(S)
           /\ CopyLog(CopyMutations(s, copied, leafs), s, copied, leafs, SetToSeq(DOMAIN leafs),
                      InOrder(s, ToSet(copied) \cap DOMAIN s.labels), IF s.name = NoLabel THEN 0 ELSE 1)
<1> DEFINE names == SetToSeq(DOMAIN leafs)
           labels == InOrder(s, ToSet(copied) \cap DOMAIN s.labels)
           n == IF s.name = NoLabel THEN 0 ELSE 1
           a == [i \in DOMAIN copied |-> [kind |-> "entry", id |-> copied[i], lane |-> NoLane,
                                          type |-> s.entries[copied[i]].type,
                                          parent |-> s.entries[copied[i]].parent]]
           b == [i \in DOMAIN names |-> [kind |-> "lane", lane |-> names[i], leaf |-> leafs[names[i]]]]
           c == IF s.name = NoLabel THEN <<>> ELSE <<[kind |-> "name", label |-> s.name]>>
           d == [i \in DOMAIN labels |-> [kind |-> "label", id |-> labels[i],
                                          label |-> s.labels[labels[i]]]]
           all == a \o b \o c \o d
           ms == [i \in DOMAIN all |-> Put(all[i], "seq", i)]
           E == Len(copied)
           N == Len(names)
           K == Len(labels)
<1>1. CopyMutations(s, copied, leafs) = ms
  BY DEF CopyMutations
<1>2. /\ E \in Nat /\ N \in Nat /\ K \in Nat /\ n \in Nat
      /\ DOMAIN copied = 1..E /\ DOMAIN names = 1..N /\ DOMAIN labels = 1..K
  OBVIOUS
<1> HIDE DEF names, labels, E, N, K
<1> DEFINE R == {a[i] : i \in 1..E} \cup {b[i] : i \in 1..N} \cup {c[i] : i \in 1..n} \cup {d[i] : i \in 1..K}
<1>3. a \in Seq(R) /\ Len(a) = E
  <2>1. a \in [1..E -> R]
    BY <1>2
  <2> HIDE DEF a, R
  <2> QED
    BY <1>2, <2>1, FunctionIsSeq
<1>4. b \in Seq(R) /\ Len(b) = N
  <2>1. b \in [1..N -> R]
    BY <1>2
  <2> HIDE DEF b, R
  <2> QED
    BY <1>2, <2>1, FunctionIsSeq
<1>5. d \in Seq(R) /\ Len(d) = K
  <2>1. d \in [1..K -> R]
    BY <1>2
  <2> HIDE DEF d, R
  <2> QED
    BY <1>2, <2>1, FunctionIsSeq
<1>6. c \in Seq(R) /\ Len(c) = n
  <2>1. CASE s.name = NoLabel
    <3>1. c = <<>> /\ n = 0
      BY <2>1
    <3> HIDE DEF c, R
    <3> QED
      BY <3>1
  <2>2. CASE s.name # NoLabel
    <3> DEFINE m == [kind |-> "name", label |-> s.name]
    <3>1. c = <<m>> /\ n = 1
      BY <2>2
    <3>2. m \in R
      <4>1. 1 \in 1..n /\ c[1] = m
        BY <3>1
      <4> HIDE DEF a, b, c, d, m
      <4> QED
        BY <4>1
    <3> HIDE DEF c, R, m
    <3> QED
      BY <3>1, <3>2
  <2> QED
    BY <2>1, <2>2
<1>7. \A i \in 1..n : c[i] = [kind |-> "name", label |-> s.name]
  OBVIOUS
<1>8. \A i \in 1..E : /\ {"kind", "id", "lane", "parent"} \subseteq DOMAIN a[i]
                      /\ a[i].kind = "entry" /\ a[i].id = copied[i] /\ a[i].lane = NoLane
                      /\ a[i].parent = s.entries[copied[i]].parent
  BY <1>2
<1>9. \A i \in 1..N : /\ {"kind", "lane", "leaf"} \subseteq DOMAIN b[i]
                      /\ b[i].kind = "lane" /\ b[i].lane = names[i] /\ b[i].leaf = leafs[names[i]]
  BY <1>2
<1>10. \A i \in 1..n : /\ {"kind", "label"} \subseteq DOMAIN c[i]
                       /\ c[i].kind = "name" /\ c[i].label = s.name
  BY <1>7
<1>11. \A i \in 1..K : /\ {"kind", "id", "label"} \subseteq DOMAIN d[i]
                       /\ d[i].kind = "label" /\ d[i].id = labels[i] /\ d[i].label = s.labels[labels[i]]
  BY <1>2
<1> HIDE DEF a, b, c, d, n, R
<1>12. all \in Seq(R) /\ FourParts(all, a, b, c, d)
  BY <1>3, <1>4, <1>5, <1>6, FourInARow
<1> HIDE DEF all
<1> DEFINE Z == Len(all)
<1>13. Z = E + N + n + K /\ Z \in Nat /\ DOMAIN all = 1..Z
  BY <1>3, <1>4, <1>5, <1>6, <1>12 DEF FourParts
<1> DEFINE S == {ms[i] : i \in 1..Z}
<1>14. ms \in [1..Z -> S] /\ \A i \in 1..Z : ms[i] = Put(all[i], "seq", i)
  BY <1>13
<1> HIDE DEF ms, S
<1>15. ms \in Seq(S) /\ Len(ms) = Z
  <2> HIDE DEF Z
  <2> QED
    BY <1>13, <1>14, FunctionIsSeq
<1>16. ASSUME NEW i \in 1..Z
       PROVE  /\ ms[i].seq = i
              /\ \A f \in DOMAIN all[i] : f # "seq" => ms[i][f] = all[i][f]
  <2>1. ms[i] = Put(all[i], "seq", i)
    BY <1>14
  <2> QED
    BY <2>1, PutSeq
<1> HIDE DEF Z
<1>17. ASSUME NEW i \in 1..Z
       PROVE  /\ i <= E => all[i] = a[i] /\ i \in 1..E
              /\ E < i /\ i <= E + N => all[i] = b[i - E] /\ i - E \in 1..N
              /\ E + N < i /\ i <= E + N + n => all[i] = c[i - (E + N)] /\ i - (E + N) \in 1..n
              /\ E + N + n < i => all[i] = d[i - (E + N + n)] /\ i - (E + N + n) \in 1..K
  <2>1. /\ i <= E => all[i] = a[i]
        /\ E < i /\ i <= E + N => all[i] = b[i - E]
        /\ E + N < i /\ i <= E + N + n => all[i] = c[i - (E + N)]
        /\ E + N + n < i => all[i] = d[i - (E + N + n)]
    BY <1>3, <1>4, <1>5, <1>6, <1>12 DEF FourParts, Z
  <2> QED
    BY <1>2, <1>13, <2>1
<1>18. ASSUME NEW i \in 1..Z
       PROVE  /\ i <= E =>
                 /\ ms[i].kind = "entry" /\ ms[i].id = copied[i] /\ ms[i].lane = NoLane
                 /\ ms[i].parent = s.entries[copied[i]].parent
              /\ E < i /\ i <= E + N =>
                 /\ ms[i].kind = "lane" /\ ms[i].lane = names[i - E]
                 /\ ms[i].leaf = leafs[names[i - E]]
              /\ E + N < i /\ i <= E + N + n => ms[i].kind = "name" /\ ms[i].label = s.name
              /\ E + N + n < i =>
                 /\ ms[i].kind = "label" /\ ms[i].id = labels[i - (E + N + n)]
                 /\ ms[i].label = s.labels[labels[i - (E + N + n)]]
  <2>1. \A f \in DOMAIN all[i] : f # "seq" => ms[i][f] = all[i][f]
    BY <1>16
  <2>2. CASE i <= E
    <3>1. all[i] = a[i] /\ i \in 1..E
      BY <1>17, <2>2
    <3>2. ~(E < i) /\ ~(E + N < i) /\ ~(E + N + n < i)
      BY <1>2, <2>2, <3>1
    <3> QED
      BY <1>8, <2>1, <3>1, <3>2
  <2>3. CASE E < i /\ i <= E + N
    <3>1. all[i] = b[i - E] /\ i - E \in 1..N
      BY <1>17, <2>3
    <3>2. ~(i <= E) /\ ~(E + N < i) /\ ~(E + N + n < i)
      BY <1>2, <2>3
    <3> DEFINE k == i - E
    <3> HIDE DEF k
    <3>3. ms[i].kind = "lane" /\ ms[i].lane = names[k] /\ ms[i].leaf = leafs[names[k]]
      BY <1>9, <2>1, <3>1 DEF k
    <3> QED
      BY <3>2, <3>3 DEF k
  <2>4. CASE E + N < i /\ i <= E + N + n
    <3>1. all[i] = c[i - (E + N)] /\ i - (E + N) \in 1..n
      BY <1>17, <2>4
    <3>2. ~(i <= E) /\ ~(i <= E + N) /\ ~(E + N + n < i)
      BY <1>2, <2>4
    <3> QED
      BY <1>10, <2>1, <3>1, <3>2
  <2>5. CASE E + N + n < i
    <3>1. all[i] = d[i - (E + N + n)] /\ i - (E + N + n) \in 1..K
      BY <1>17, <2>5
    <3>2. ~(i <= E) /\ ~(i <= E + N) /\ ~(i <= E + N + n)
      BY <1>2, <2>5
    <3> QED
      BY <1>11, <2>1, <3>1, <3>2
  <2>6. i \in Nat
    BY <1>13
  <2> QED
    BY <1>2, <2>2, <2>3, <2>4, <2>5, <2>6
<1>19. CopyLog(ms, s, copied, leafs, names, labels, n)
  BY <1>13, <1>15, <1>16, <1>18 DEF CopyLog, E, N, K
<1> QED
  BY <1>1, <1>15, <1>19 DEF names, labels, n

(* What can be copied of a state: entries with all that is above them, and lanes that point at
   them. *)
Copyable(s, ids, leafs) ==
    /\ ids \subseteq DOMAIN s.entries
    /\ \A e \in ids : s.entries[e].parent \in ids \cup {Root}
    /\ Main \in DOMAIN leafs /\ IsFiniteSet(DOMAIN leafs)
    /\ \A x \in DOMAIN leafs : leafs[x] \in ids \cup {Root}

(* A set listed once, and one listed in the order of the entries' numbers. *)
ListsAll(list, set) ==
    /\ list \in Seq(set)
    /\ \A x \in set : \E i \in 1..Len(list) : list[i] = x
    /\ \A i, j \in 1..Len(list) : list[i] = list[j] => i = j
InTheirOrder(s, list) ==
    \A i, j \in 1..Len(list) : i < j => s.entries[list[i]].seq < s.entries[list[j]].seq

LEMMA InOrderListsAll ==
    ASSUME NEW s, Ordered(s), NEW ids, ids \subseteq DOMAIN s.entries
    PROVE  ListsAll(InOrder(s, ids), ids) /\ InTheirOrder(s, InOrder(s, ids))
<1> DEFINE list == InOrder(s, ids)
           n == Cardinality(ids)
<1>1. /\ n \in Nat /\ list \in [1..n -> ids]
      /\ \A e \in ids : \E i \in 1..n : list[i] = e
      /\ \A i, j \in 1..n : list[i] = list[j] => i = j
      /\ \A i, j \in 1..n : i < j => s.entries[list[i]].seq < s.entries[list[j]].seq
  BY InOrderLists
<1> HIDE DEF list, n
<1>2. list \in Seq(ids) /\ Len(list) = n
  BY <1>1, FunctionIsSeq
<1> QED
  BY <1>1, <1>2 DEF ListsAll, InTheirOrder, list

LEMMA SetToSeqListsAll ==
    ASSUME NEW set, IsFiniteSet(set)
    PROVE  ListsAll(SetToSeq(set), set)
<1> DEFINE n == Cardinality(set)
           list == SetToSeq(set)
<1>1. n \in Nat /\ ExistsBijection(1..n, set)
  <2>1. PICK k \in Nat : ExistsBijection(1..k, set)
    BY FS_NatBijection
  <2>2. n = k
    BY <2>1, FS_CountingElements
  <2> QED
    BY <2>1, <2>2
<1>2. PICK g : g \in Bijection(1..n, set)
  BY <1>1 DEF ExistsBijection
<1>3. g \in [1..n -> set] /\ IsInjective(g)
  BY <1>2 DEF Bijection, Injection
<1>4. list \in [1..n -> set] /\ IsInjective(list)
  <2>1. list = CHOOSE f \in [1..n -> set] : IsInjective(f)
    BY DEF SetToSeq
  <2> HIDE DEF list, n
  <2> QED
    BY <1>3, <2>1
<1> HIDE DEF list, n
<1>5. list \in Injection(1..n, set)
  BY <1>4 DEF Injection
<1>6. list \in Surjection(1..n, set)
  <2>1. IsFiniteSet(1..n) /\ Cardinality(1..n) = n
    BY <1>1, FS_Interval
  <2>2. Cardinality(set) = n
    BY DEF n
  <2> QED
    BY <1>5, <2>1, <2>2, FS_Injection
<1>7. list \in Seq(set) /\ Len(list) = n
  BY <1>1, <1>4, FunctionIsSeq
<1>8. \A x \in set : \E i \in 1..n : list[i] = x
  BY <1>6 DEF Surjection
<1>9. \A i, j \in 1..n : list[i] = list[j] => i = j
  BY <1>4 DEF IsInjective
<1> QED
  BY <1>7, <1>8, <1>9 DEF ListsAll, list

(* The places of the parts, of e entries, l lanes, a name or none, and b labels. *)
PlaceOK(ms, i, e, l, n, b) ==
    /\ ms[i].kind \in {"entry", "lane", "name", "label"}
    /\ ms[i].kind = "entry" => i \in 1..e
    /\ ms[i].kind = "lane" => i - e \in 1..l
    /\ ms[i].kind = "name" => n = 1 /\ i = e + l + 1
    /\ ms[i].kind = "label" => i - (e + l + n) \in 1..b

LEMMA KindsOfCopyLog ==
    ASSUME NEW ms, NEW s, NEW E, NEW copied \in Seq(E), NEW L, NEW names \in Seq(L), NEW B, NEW labels \in Seq(B),
           NEW leafs, NEW n \in {0, 1}, CopyLog(ms, s, copied, leafs, names, labels, n)
    PROVE  \A i \in 1..Len(ms) : PlaceOK(ms, i, Len(copied), Len(names), n, Len(labels))
<1> SUFFICES ASSUME NEW i \in 1..Len(ms)
             PROVE  PlaceOK(ms, i, Len(copied), Len(names), n, Len(labels))
  OBVIOUS
<1> DEFINE e == Len(copied)
           l == Len(names)
           b == Len(labels)
<1>1. e \in Nat /\ l \in Nat /\ b \in Nat
  OBVIOUS
<1>2. /\ Len(ms) = e + l + n + b
      /\ i <= e => ms[i].kind = "entry"
      /\ e < i /\ i <= e + l => ms[i].kind = "lane"
      /\ e + l < i /\ i <= e + l + n => ms[i].kind = "name"
      /\ e + l + n < i => ms[i].kind = "label"
  BY DEF CopyLog
<1> HIDE DEF e, l, b
<1>3. i \in 1..e + l + n + b
  BY <1>2
<1>4. /\ ms[i].kind \in {"entry", "lane", "name", "label"}
      /\ ms[i].kind = "entry" => i <= e
      /\ ms[i].kind = "lane" => e < i /\ i <= e + l
      /\ ms[i].kind = "name" => e + l < i /\ i <= e + l + n
      /\ ms[i].kind = "label" => e + l + n < i
  <2>1. i <= e \/ (e < i /\ i <= e + l) \/ (e + l < i /\ i <= e + l + n) \/ e + l + n < i
    BY <1>1, <1>3
  <2> QED
    BY <1>2, <2>1
<1>5. /\ i <= e => i \in 1..e
      /\ e < i /\ i <= e + l => i - e \in 1..l
      /\ e + l < i /\ i <= e + l + n => n = 1 /\ i = e + l + 1
      /\ e + l + n < i => i - (e + l + n) \in 1..b
  BY <1>1, <1>3
<1> QED
  BY <1>4, <1>5 DEF PlaceOK, e, l, b

(* What the mutations of each kind say. *)
Says(ms, s, copied, leafs, names, labels, e, l, n) ==
    /\ \A i \in 1..e :
          /\ i \in 1..Len(ms) /\ ms[i].kind = "entry" /\ ms[i].id = copied[i] /\ ms[i].lane = NoLane
          /\ ms[i].parent = s.entries[copied[i]].parent
    /\ \A i \in 1..l :
          /\ e + i \in 1..Len(ms) /\ ms[e + i].kind = "lane"
          /\ ms[e + i].lane = names[i] /\ ms[e + i].leaf = leafs[names[i]]
    /\ n = 1 => /\ e + l + 1 \in 1..Len(ms) /\ ms[e + l + 1].kind = "name"
                /\ ms[e + l + 1].label = s.name
    /\ \A i \in 1..Len(labels) :
          /\ e + l + n + i \in 1..Len(ms) /\ ms[e + l + n + i].kind = "label"
          /\ ms[e + l + n + i].id = labels[i] /\ ms[e + l + n + i].label = s.labels[labels[i]]

LEMMA CopyLogSays ==
    ASSUME NEW ms, NEW s, NEW E, NEW copied \in Seq(E), NEW L, NEW names \in Seq(L), NEW B, NEW labels \in Seq(B),
           NEW leafs, NEW n \in {0, 1}, CopyLog(ms, s, copied, leafs, names, labels, n)
    PROVE  Says(ms, s, copied, leafs, names, labels, Len(copied), Len(names), n)
<1> DEFINE e == Len(copied)
           l == Len(names)
           b == Len(labels)
           Z == Len(ms)
<1>1. e \in Nat /\ l \in Nat /\ b \in Nat
  OBVIOUS
<1>2. /\ Z = e + l + n + b
      /\ \A i \in 1..Z :
          /\ i <= e =>
                /\ ms[i].kind = "entry" /\ ms[i].id = copied[i] /\ ms[i].lane = NoLane
                /\ ms[i].parent = s.entries[copied[i]].parent
          /\ e < i /\ i <= e + l =>
                /\ ms[i].kind = "lane" /\ ms[i].lane = names[i - e]
                /\ ms[i].leaf = leafs[names[i - e]]
          /\ e + l < i /\ i <= e + l + n => ms[i].kind = "name" /\ ms[i].label = s.name
          /\ e + l + n < i =>
                /\ ms[i].kind = "label" /\ ms[i].id = labels[i - (e + l + n)]
                /\ ms[i].label = s.labels[labels[i - (e + l + n)]]
  BY DEF CopyLog
<1> HIDE DEF e, l, b, Z
<1>3. ASSUME NEW i \in 1..e
      PROVE  /\ i \in 1..Z /\ ms[i].kind = "entry" /\ ms[i].id = copied[i] /\ ms[i].lane = NoLane
             /\ ms[i].parent = s.entries[copied[i]].parent
  <2>1. i \in 1..Z /\ i <= e
    BY <1>1, <1>2
  <2> QED
    BY <1>2, <2>1
<1>4. ASSUME NEW i \in 1..l
      PROVE  /\ e + i \in 1..Z /\ ms[e + i].kind = "lane" /\ ms[e + i].lane = names[i]
             /\ ms[e + i].leaf = leafs[names[i]]
  <2>1. e + i \in 1..Z /\ e < e + i /\ e + i <= e + l /\ (e + i) - e = i
    BY <1>1, <1>2
  <2> QED
    BY <1>2, <2>1
<1>5. ASSUME n = 1
      PROVE  e + l + 1 \in 1..Z /\ ms[e + l + 1].kind = "name" /\ ms[e + l + 1].label = s.name
  <2>1. e + l + 1 \in 1..Z /\ e + l < e + l + 1 /\ e + l + 1 <= e + l + n
    BY <1>1, <1>2, <1>5
  <2> QED
    BY <1>2, <2>1
<1>6. ASSUME NEW i \in 1..b
      PROVE  /\ e + l + n + i \in 1..Z /\ ms[e + l + n + i].kind = "label" /\ ms[e + l + n + i].id = labels[i]
             /\ ms[e + l + n + i].label = s.labels[labels[i]]
  <2>1. e + l + n + i \in 1..Z /\ e + l + n < e + l + n + i /\ (e + l + n + i) - (e + l + n) = i
    BY <1>1, <1>2
  <2> QED
    BY <1>2, <2>1
<1> QED
  BY <1>3, <1>4, <1>5, <1>6 DEF Says, e, l, b, Z

(* What is copied of s, in the order that it has there. *)
CopiesPart(s, ids, leafs, copied, names, labels, n) ==
    /\ Ordered(s) /\ Copyable(s, ids, leafs)
    /\ \A id \in DOMAIN s.labels : s.labels[id] # NoLabel
    /\ ListsAll(copied, ids) /\ InTheirOrder(s, copied)
    /\ ListsAll(names, DOMAIN leafs)
    /\ ListsAll(labels, ids \cap DOMAIN s.labels)
    /\ n = IF s.name = NoLabel THEN 0 ELSE 1

(* The log that copies it has each mutation behind those it depends on. *)
LEMMA CopyLogIsCopy ==
    ASSUME NEW ms, NEW s, NEW ids, NEW leafs, NEW copied, NEW names, NEW labels, NEW n,
           CopiesPart(s, ids, leafs, copied, names, labels, n),
           CopyLog(ms, s, copied, leafs, names, labels, n)
    PROVE  IsCopy(ms)
<1> DEFINE e == Len(copied)
           l == Len(names)
<1>1. /\ copied \in Seq(ids) /\ names \in Seq(DOMAIN leafs) /\ labels \in Seq(ids \cap DOMAIN s.labels)
      /\ n \in {0, 1}
  BY DEF CopiesPart, ListsAll
<1>2. e \in Nat /\ l \in Nat
  BY <1>1
<1>3. \A i \in 1..Len(ms) : PlaceOK(ms, i, e, l, n, Len(labels))
  BY <1>1, KindsOfCopyLog
<1>4. Says(ms, s, copied, leafs, names, labels, e, l, n)
  BY <1>1, CopyLogSays
<1>5. \A i \in 1..Len(ms) : ms[i].seq = i
  BY DEF CopyLog
<1> HIDE DEF e, l
<1>6. ASSUME NEW i \in 1..e
      PROVE  copied[i] \in ids
  BY <1>1, <1>6 DEF e
(* An entry that stands further up is among the ids so far. *)
<1>7. ASSUME NEW j \in Nat, NEW i \in 1..e, i < j
      PROVE  copied[i] \in Ids(ms, j - 1, "entry")
  <2>1. i \in Of(ms, j - 1, "entry")
    BY <1>2, <1>4, <1>7 DEF Of, Says
  <2> QED
    BY <1>4, <2>1 DEF Ids, Says
<1>8. ASSUME NEW j \in Nat, j > e, NEW x \in ids
      PROVE  x \in Ids(ms, j - 1, "entry")
  <2>1. PICK i \in 1..e : copied[i] = x
    BY DEF CopiesPart, ListsAll, e
  <2>2. i < j
    BY <1>2, <1>8
  <2> QED
    BY <1>7, <2>1, <2>2
<1>9. ASSUME NEW i \in 1..Len(ms) PROVE CopyStep(ms, i)
  <2>1. i \in Nat /\ \A kind : \A j \in Of(ms, i - 1, kind) : j \in 1..Len(ms) /\ j < i /\ ms[j].kind = kind
    <3>1. Len(ms) \in Int
      BY <1>1, <1>2 DEF CopyLog, e, l
    <3> QED
      BY <3>1 DEF Of
  <2>2. CASE ms[i].kind = "entry"
    <3>1. i \in 1..e /\ ms[i].id = copied[i] /\ ms[i].lane = NoLane
          /\ ms[i].parent = s.entries[copied[i]].parent
      BY <1>3, <1>4, <2>2 DEF PlaceOK, Says
    <3>2. copied[i] \notin Ids(ms, i - 1, "entry")
      <4> SUFFICES ASSUME NEW j \in Of(ms, i - 1, "entry"), ms[j].id = copied[i] PROVE FALSE
        BY DEF Ids
      <4>1. j \in 1..e /\ j < i
        BY <1>3, <2>1 DEF PlaceOK
      <4>2. copied[j] = copied[i]
        BY <1>4, <4>1 DEF Says
      <4>3. j = i
        BY <3>1, <4>1, <4>2 DEF CopiesPart, ListsAll, e
      <4> QED
        BY <2>1, <4>1, <4>3
    <3>3. ASSUME s.entries[copied[i]].parent # Root
          PROVE  s.entries[copied[i]].parent \in Ids(ms, i - 1, "entry")
      <4> DEFINE p == s.entries[copied[i]].parent
      <4>1. copied[i] \in ids /\ ids \subseteq DOMAIN s.entries
        BY <1>6, <3>1 DEF CopiesPart, Copyable
      <4>2. p \in ids /\ s.entries[p].seq < s.entries[copied[i]].seq
        BY <3>3, <4>1 DEF CopiesPart, Copyable, Ordered
      <4> HIDE DEF p
      <4>3. PICK j \in 1..e : copied[j] = p
        BY <4>2 DEF CopiesPart, ListsAll, e
      <4>4. s.entries[copied[j]].seq \in Nat /\ s.entries[copied[i]].seq \in Nat
        BY <4>1, <4>2, <4>3 DEF CopiesPart, Ordered
      <4>5. ~(i < j) /\ i # j
        <5>1. ASSUME i < j PROVE s.entries[copied[i]].seq < s.entries[copied[j]].seq
          BY <3>1, <5>1 DEF CopiesPart, InTheirOrder, e
        <5> QED
          BY <4>2, <4>3, <4>4, <5>1
      <4>6. j < i
        BY <1>2, <2>1, <4>5
      <4> QED
        BY <1>7, <2>1, <4>3, <4>6 DEF p
    <3>4. ms[i].parent \in Ids(ms, i - 1, "entry") \cup {Root}
      BY <3>1, <3>3
    <3>5. ms[i].seq = i /\ ms[i].id \notin Ids(ms, i - 1, "entry")
      BY <1>5, <3>1, <3>2
    <3> QED
      BY <2>2, <3>1, <3>4, <3>5 DEF CopyStep
  <2>3. CASE ms[i].kind = "lane"
    <3>1. PICK k \in 1..l : k = i - e
      BY <1>3, <2>3 DEF PlaceOK
    <3>2. i = e + k /\ i > e
      BY <1>2, <2>1, <3>1
    <3>3. ms[i].lane = names[k] /\ ms[i].leaf = leafs[names[k]]
      BY <1>4, <3>2 DEF Says
    <3>4. names[k] \in DOMAIN leafs
      BY <1>1, <3>1 DEF l
    <3>5. ms[i].leaf \in Ids(ms, i - 1, "entry") \cup {Root}
      <4>1. leafs[names[k]] \in ids \cup {Root}
        BY <3>4 DEF CopiesPart, Copyable
      <4> QED
        BY <1>8, <2>1, <3>2, <3>3, <4>1
    <3>6. ms[i].lane \notin LanesOf(ms, i - 1)
      <4> SUFFICES ASSUME NEW j \in Of(ms, i - 1, "lane"), ms[j].lane = names[k] PROVE FALSE
        BY <3>3 DEF LanesOf
      <4>1. PICK h \in 1..l : h = j - e
        BY <1>3, <2>1 DEF PlaceOK
      <4>2. j = e + h /\ h < k
        BY <1>2, <2>1, <3>2, <4>1
      <4>3. names[h] = names[k]
        BY <1>4, <4>2 DEF Says
      <4>4. h = k
        BY <4>3 DEF CopiesPart, ListsAll, l
      <4> QED
        BY <4>2, <4>4
    <3> QED
      BY <1>5, <2>3, <3>5, <3>6 DEF CopyStep
  <2>4. CASE ms[i].kind = "name"
    <3>1. i = e + l + 1
      BY <1>3, <2>4 DEF PlaceOK
    <3>2. Of(ms, i - 1, "name") = {}
      <4> SUFFICES ASSUME NEW j \in Of(ms, i - 1, "name") PROVE FALSE
        OBVIOUS
      <4>1. j = e + l + 1 /\ j < i
        BY <1>3, <2>1 DEF PlaceOK
      <4> QED
        BY <2>1, <3>1, <4>1
    <3> QED
      BY <1>5, <2>4, <3>2 DEF CopyStep
  <2>5. CASE ms[i].kind = "label"
    <3>1. PICK k \in 1..Len(labels) : k = i - (e + l + n)
      BY <1>3, <2>5 DEF PlaceOK
    <3>2. i = e + l + n + k /\ i > e
      BY <1>1, <1>2, <2>1, <3>1
    <3>3. ms[i].id = labels[k] /\ ms[i].label = s.labels[labels[k]]
      BY <1>4, <3>2 DEF Says
    <3>4. labels[k] \in ids /\ labels[k] \in DOMAIN s.labels
      BY <1>1, <3>1
    <3>5. ms[i].id \in Ids(ms, i - 1, "entry") /\ ms[i].label # NoLabel
      BY <1>8, <2>1, <3>2, <3>3, <3>4 DEF CopiesPart
    <3> QED
      BY <1>5, <2>5, <3>5 DEF CopyStep
  <2> QED
    BY <1>3, <2>2, <2>3, <2>4, <2>5 DEF PlaceOK
<1> QED
  BY <1>9 DEF IsCopy

(* t has these entries of s, in the same order, the lanes, and their labels. *)
IsCopyOf(t, s, ids, leafs) ==
    /\ t.seq \in Nat /\ t.used = ids /\ DOMAIN t.entries = ids
    /\ \A x \in ids : t.entries[x].parent = s.entries[x].parent /\ t.entries[x].seq \in 1..t.seq
    /\ \A x, y \in ids : t.entries[x].seq < t.entries[y].seq <=> s.entries[x].seq < s.entries[y].seq
    /\ DOMAIN t.lanes = DOMAIN leafs /\ \A x \in DOMAIN leafs : t.lanes[x] = leafs[x]
    /\ DOMAIN t.labels = ids \cap DOMAIN s.labels
    /\ t.name = s.name /\ t.open = {}

LEMMA CopyLogCopies ==
    ASSUME NEW ms, NEW s, NEW ids, NEW leafs, NEW copied, NEW names, NEW labels, NEW n,
           CopiesPart(s, ids, leafs, copied, names, labels, n),
           CopyLog(ms, s, copied, leafs, names, labels, n), NEW t, Copied(ms, Len(ms), t)
    PROVE  IsCopyOf(t, s, ids, leafs)
<1> DEFINE e == Len(copied)
           l == Len(names)
           b == Len(labels)
           Z == Len(ms)
<1>1. /\ copied \in Seq(ids) /\ names \in Seq(DOMAIN leafs) /\ labels \in Seq(ids \cap DOMAIN s.labels)
      /\ n \in {0, 1}
  BY DEF CopiesPart, ListsAll
<1>2. e \in Nat /\ l \in Nat /\ b \in Nat
  BY <1>1
<1>3. \A i \in 1..Z : PlaceOK(ms, i, e, l, n, b)
  BY <1>1, KindsOfCopyLog
<1>4. Says(ms, s, copied, leafs, names, labels, e, l, n)
  BY <1>1, CopyLogSays
<1>5. Z \in Nat /\ e <= Z
  BY <1>1, <1>2 DEF CopyLog
<1> HIDE DEF e, l, b, Z
<1>6. /\ \A x \in ids : \E i \in 1..e : copied[i] = x
      /\ \A i \in 1..e : copied[i] \in ids
      /\ \A i, j \in 1..e : i < j => s.entries[copied[i]].seq < s.entries[copied[j]].seq
      /\ \A x \in DOMAIN leafs : \E i \in 1..l : names[i] = x
      /\ \A i \in 1..l : names[i] \in DOMAIN leafs
      /\ \A x \in ids \cap DOMAIN s.labels : \E i \in 1..b : labels[i] = x
      /\ \A i \in 1..b : labels[i] \in ids \cap DOMAIN s.labels
  BY <1>1 DEF CopiesPart, ListsAll, InTheirOrder, e, l, b
<1>7. t.seq = Z /\ t.open = {} /\ EntriesCopied(ms, Z, t) /\ LanesCopied(ms, Z, t) /\ FactsCopied(ms, Z, t)
  BY DEF Copied, Z
<1>8. /\ Of(ms, Z, "entry") = 1..e /\ Ids(ms, Z, "entry") = ids
  <2>1. Of(ms, Z, "entry") = 1..e
    <3>1. \A i \in 1..Z : ms[i].kind = "entry" => i \in 1..e
      BY <1>3 DEF PlaceOK
    <3>2. \A i \in 1..e : i \in 1..Z /\ ms[i].kind = "entry"
      BY <1>4 DEF Says, Z
    <3> QED
      BY <3>1, <3>2 DEF Of
  <2>2. \A i \in 1..e : ms[i].id = copied[i]
    BY <1>4 DEF Says
  <2>3. Ids(ms, Z, "entry") = {ms[i].id : i \in 1..e}
    BY <2>1 DEF Ids
  <2>4. {ms[i].id : i \in 1..e} = ids
    <3>1. {ms[i].id : i \in 1..e} \subseteq ids
      BY <1>6, <2>2
    <3>2. ASSUME NEW x \in ids PROVE x \in {ms[i].id : i \in 1..e}
      <4>1. PICK i \in 1..e : copied[i] = x
        BY <1>6
      <4> QED
        BY <2>2, <4>1
    <3> QED
      BY <3>1, <3>2
  <2> QED
    BY <2>1, <2>3, <2>4
<1>9. ASSUME NEW i \in 1..e
      PROVE  /\ t.entries[copied[i]].seq = i /\ t.entries[copied[i]].parent = s.entries[copied[i]].parent
             /\ copied[i] \in ids
  <2>1. ms[i].id = copied[i] /\ ms[i].parent = s.entries[copied[i]].parent
    BY <1>4 DEF Says
  <2>2. t.entries[ms[i].id].parent = ms[i].parent /\ t.entries[ms[i].id].seq = i
    BY <1>7, <1>8 DEF EntriesCopied
  <2>3. copied[i] \in ids
    BY <1>6
  <2> QED
    BY <2>1, <2>2, <2>3
<1>10. /\ t.used = ids /\ DOMAIN t.entries = ids
       /\ \A x \in ids : t.entries[x].parent = s.entries[x].parent /\ t.entries[x].seq \in 1..t.seq
  <2>1. t.used = ids /\ DOMAIN t.entries = ids
    BY <1>7, <1>8 DEF EntriesCopied
  <2>2. ASSUME NEW x \in ids
        PROVE  t.entries[x].parent = s.entries[x].parent /\ t.entries[x].seq \in 1..t.seq
    <3>1. PICK i \in 1..e : copied[i] = x
      BY <1>6
    <3> QED
      BY <1>2, <1>5, <1>7, <1>9, <3>1
  <2> QED
    BY <2>1, <2>2
<1>11. ASSUME NEW x \in ids, NEW y \in ids
       PROVE  t.entries[x].seq < t.entries[y].seq <=> s.entries[x].seq < s.entries[y].seq
  <2>1. PICK i \in 1..e : copied[i] = x
    BY <1>6
  <2>2. PICK j \in 1..e : copied[j] = y
    BY <1>6
  <2>3. t.entries[x].seq = i /\ t.entries[y].seq = j
    BY <1>9, <2>1, <2>2
  <2>4. s.entries[x].seq \in Nat /\ s.entries[y].seq \in Nat
    BY DEF CopiesPart, Copyable, Ordered
  <2>5. /\ i < j => s.entries[x].seq < s.entries[y].seq
        /\ j < i => s.entries[y].seq < s.entries[x].seq
        /\ i = j => x = y
    BY <1>6, <2>1, <2>2
  <2> QED
    BY <1>2, <2>3, <2>4, <2>5
<1>12. DOMAIN t.lanes = DOMAIN leafs /\ \A x \in DOMAIN leafs : t.lanes[x] = leafs[x]
  <2>1. \A i \in Of(ms, Z, "lane") : \E k \in 1..l : i = e + k
    <3> SUFFICES ASSUME NEW i \in 1..Z, ms[i].kind = "lane" PROVE \E k \in 1..l : i = e + k
      BY DEF Of
    <3>1. i - e \in 1..l
      BY <1>3 DEF PlaceOK
    <3>2. i = e + (i - e)
      BY <1>2, <1>5
    <3> QED
      BY <3>1, <3>2
  <2>2. ASSUME NEW k \in 1..l
        PROVE  e + k \in Of(ms, Z, "lane") /\ ms[e + k].lane = names[k] /\ ms[e + k].leaf = leafs[names[k]]
    BY <1>4 DEF Says, Of, Z
  <2>3. LanesOf(ms, Z) = DOMAIN leafs
    <3>1. ASSUME NEW x \in DOMAIN leafs PROVE x \in LanesOf(ms, Z)
      <4>1. PICK k \in 1..l : names[k] = x
        BY <1>6
      <4> QED
        BY <2>2, <4>1 DEF LanesOf
    <3>2. ASSUME NEW x \in LanesOf(ms, Z) PROVE x \in DOMAIN leafs
      <4>1. PICK i \in Of(ms, Z, "lane") : ms[i].lane = x
        BY DEF LanesOf
      <4>2. PICK k \in 1..l : i = e + k
        BY <2>1
      <4> QED
        BY <1>6, <2>2, <4>1, <4>2
    <3> QED
      BY <3>1, <3>2
  <2>4. Main \in DOMAIN leafs
    BY DEF CopiesPart, Copyable
  <2>5. ASSUME NEW x \in DOMAIN leafs PROVE t.lanes[x] = leafs[x]
    <3>1. PICK k \in 1..l : names[k] = x
      BY <1>6
    <3> QED
      BY <1>7, <2>2, <3>1 DEF LanesCopied
  <2> QED
    BY <1>7, <2>3, <2>4, <2>5 DEF LanesCopied
<1>13. DOMAIN t.labels = ids \cap DOMAIN s.labels
  <2>1. ASSUME NEW x \in Ids(ms, Z, "label") PROVE x \in ids \cap DOMAIN s.labels
    <3>1. PICK i \in 1..Z : ms[i].kind = "label" /\ ms[i].id = x
      BY DEF Ids, Of
    <3>2. PICK k \in 1..b : k = i - (e + l + n)
      BY <1>3, <3>1 DEF PlaceOK
    <3>3. i = e + l + n + k
      BY <1>1, <1>2, <1>5, <3>2
    <3>4. ms[i].id = labels[k]
      BY <1>4, <3>3 DEF Says, b
    <3> QED
      BY <1>6, <3>1, <3>4
  <2>2. ASSUME NEW x \in ids \cap DOMAIN s.labels PROVE x \in Ids(ms, Z, "label")
    <3>1. PICK k \in 1..b : labels[k] = x
      BY <1>6
    <3>2. PICK i \in 1..Z : i = e + l + n + k /\ ms[i].kind = "label" /\ ms[i].id = labels[k]
      BY <1>4 DEF Says, Z, b
    <3> QED
      BY <3>1, <3>2 DEF Ids, Of
  <2> QED
    BY <1>7, <2>1, <2>2 DEF FactsCopied
<1>14. t.name = s.name
  <2>1. CASE n = 0
    <3>1. Of(ms, Z, "name") = {}
      BY <1>3, <2>1 DEF Of, PlaceOK
    <3> QED
      BY <1>7, <2>1, <3>1 DEF FactsCopied, CopiesPart
  <2>2. CASE n = 1
    <3>1. PICK i \in 1..Z : ms[i].kind = "name" /\ ms[i].label = s.name
      BY <1>4, <2>2 DEF Says, Z
    <3>2. i \in Of(ms, Z, "name")
      BY <3>1 DEF Of
    <3> QED
      BY <1>7, <3>1, <3>2 DEF FactsCopied
  <2> QED
    BY <1>1, <2>1, <2>2
<1> QED
  BY <1>5, <1>7, <1>10, <1>11, <1>12, <1>13, <1>14 DEF IsCopyOf

-----------------------------------------------------------------------------
(* What a copy shows *)

(* Every entry has a path, within any set that has the parents of its entries. *)
LEMMA PathExists ==
    ASSUME NEW s, Ordered(s), NEW ids, ids \subseteq DOMAIN s.entries,
           \A e \in ids : s.entries[e].parent \in ids \cup {Root}, NEW id \in ids
    PROVE  \E P \in SUBSET ids : Path(s, id, P)
<1> DEFINE T == {n \in Nat : \A e \in ids : s.entries[e].seq <= n => \E P \in SUBSET ids : Path(s, e, P)}
<1>1. \A e \in ids : s.entries[e].seq \in Nat /\ s.entries[e].seq > 0
  BY DEF Ordered
<1>2. 0 \in T
  BY <1>1
<1>3. ASSUME NEW n \in Nat, n \in T PROVE n + 1 \in T
  <2> SUFFICES ASSUME NEW e \in ids, s.entries[e].seq <= n + 1
               PROVE  \E P \in SUBSET ids : Path(s, e, P)
    OBVIOUS
  <2> DEFINE p == s.entries[e].parent
  <2>1. CASE p = Root
    <3>1. Path(s, e, {e})
      BY <1>1, <2>1 DEF Path
    <3> QED
      BY <3>1
  <2>2. CASE p # Root
    <3>1. p \in ids /\ s.entries[p].seq < s.entries[e].seq
      BY <2>2 DEF Ordered
    <3>2. s.entries[p].seq <= n
      BY <1>1, <3>1
    <3>3. PICK P \in SUBSET ids : Path(s, p, P)
      BY <1>3, <3>1, <3>2
    <3> DEFINE Q == P \cup {e}
    <3>4. p \in P /\ P \subseteq DOMAIN s.entries /\ \A d \in P : s.entries[d].seq <= s.entries[p].seq
      BY <3>3 DEF Path
    <3>5. \A d \in Q : s.entries[d].seq <= s.entries[e].seq
      BY <1>1, <3>1, <3>4
    <3>6. \A d \in Q : s.entries[d].parent # Root => s.entries[d].parent \in Q
      BY <3>3, <3>4 DEF Path
    <3>7. ASSUME NEW d \in Q, NEW f \in Q, s.entries[d].seq < s.entries[f].seq
          PROVE  s.entries[f].parent \in Q /\ s.entries[d].seq <= s.entries[s.entries[f].parent].seq
      <4>1. d \in P
        BY <1>1, <3>5, <3>7
      <4>2. CASE f = e
        BY <3>4, <4>1, <4>2
      <4>3. CASE f \in P
        BY <3>3, <3>7, <4>1, <4>3 DEF Path
      <4> QED
        BY <4>2, <4>3
    <3> HIDE DEF p
    <3>8. Path(s, e, Q)
      BY <3>4, <3>5, <3>6, <3>7 DEF Path
    <3> QED
      BY <3>8
  <2> QED
    BY <2>1, <2>2
<1> DEFINE n == s.entries[id].seq
<1> HIDE DEF T
<1>4. n \in T
  BY <1>1, <1>2, <1>3, SetInduction
<1> QED
  BY <1>1, <1>4 DEF T

LEMMA CopyIsOrdered ==
    ASSUME NEW s, NEW t, NEW ids, NEW leafs, Ordered(s), Copyable(s, ids, leafs), IsCopyOf(t, s, ids, leafs)
    PROVE  Ordered(t)
<1>1. ids \subseteq DOMAIN s.entries /\ Root \notin ids
  BY DEF Copyable, Ordered
<1>2. ASSUME NEW x \in ids, t.entries[x].parent # Root
      PROVE  t.entries[x].parent \in ids /\ t.entries[t.entries[x].parent].seq < t.entries[x].seq
  <2>1. t.entries[x].parent = s.entries[x].parent /\ s.entries[x].parent \in ids
    BY <1>2 DEF IsCopyOf, Copyable
  <2>2. s.entries[s.entries[x].parent].seq < s.entries[x].seq
    BY <1>1, <1>2, <2>1 DEF Ordered
  <2> QED
    BY <2>1, <2>2 DEF IsCopyOf
<1>3. ASSUME NEW x \in ids, NEW y \in ids, t.entries[x].seq = t.entries[y].seq
      PROVE  x = y
  <2>1. /\ ~(t.entries[x].seq < t.entries[y].seq)
        /\ ~(t.entries[y].seq < t.entries[x].seq)
    BY <1>3 DEF IsCopyOf
  <2>2. ~(s.entries[x].seq < s.entries[y].seq) /\ ~(s.entries[y].seq < s.entries[x].seq)
    BY <2>1 DEF IsCopyOf
  <2>3. s.entries[x].seq \in Nat /\ s.entries[y].seq \in Nat
    BY <1>1 DEF Ordered
  <2>4. s.entries[x].seq = s.entries[y].seq
    BY <2>2, <2>3
  <2> QED
    BY <1>1, <2>4 DEF Ordered
<1> QED
  BY <1>1, <1>2, <1>3 DEF Ordered, IsCopyOf

(* A copy shows the branches of what it was made of. *)
LEMMA CopyShowsBranches ==
    ASSUME NEW s, NEW t, NEW ids, NEW leafs, Ordered(s), Copyable(s, ids, leafs), IsCopyOf(t, s, ids, leafs),
           NEW id \in ids \cup {Root}
    PROVE  Branch(t, id) = Branch(s, id)
<1>1. CASE id = Root
  <2>1. Ancestors(s, id) = {} /\ Ancestors(t, id) = {}
    BY <1>1 DEF Ancestors
  <2>2. Cardinality({}) = 0
    BY FS_EmptySet
  <2> QED
    BY <2>1, <2>2 DEF Branch, InOrder
<1>2. CASE id # Root
  <2>1. ids \subseteq DOMAIN s.entries /\ \A e \in ids : s.entries[e].parent \in ids \cup {Root}
    BY DEF Copyable
  <2>2. PICK P \in SUBSET ids : Path(s, id, P)
    BY <1>2, <2>1, PathExists
  <2>3. Path(t, id, P)
    <3>1. \A x \in P : x \in ids /\ t.entries[x].parent = s.entries[x].parent
                       /\ t.entries[x].seq \in Nat /\ s.entries[x].seq \in Nat
      BY <2>1, <2>2 DEF IsCopyOf, Ordered
    <3>2. ASSUME NEW x \in P, NEW y \in P
          PROVE  t.entries[x].seq <= t.entries[y].seq <=> s.entries[x].seq <= s.entries[y].seq
      <4>1. t.entries[y].seq < t.entries[x].seq <=> s.entries[y].seq < s.entries[x].seq
        BY <3>1 DEF IsCopyOf
      <4> QED
        BY <3>1, <4>1
    <3>3. ASSUME NEW x \in P, NEW y \in P
          PROVE  t.entries[x].seq < t.entries[y].seq <=> s.entries[x].seq < s.entries[y].seq
      BY <3>1 DEF IsCopyOf
    <3>4. id \in P /\ P \subseteq DOMAIN t.entries
      BY <2>2 DEF Path, IsCopyOf
    <3>5. \A x \in P : t.entries[x].seq <= t.entries[id].seq
      BY <2>2, <3>2, <3>4 DEF Path
    <3>6. \A x \in P : t.entries[x].parent # Root => t.entries[x].parent \in P
      BY <2>2, <3>1 DEF Path
    <3>7. ASSUME NEW d \in P, NEW e \in P, t.entries[d].seq < t.entries[e].seq
          PROVE  t.entries[e].parent \in P /\ t.entries[d].seq <= t.entries[t.entries[e].parent].seq
      <4>1. s.entries[d].seq < s.entries[e].seq
        BY <3>3, <3>7
      <4>2. s.entries[e].parent \in P /\ s.entries[d].seq <= s.entries[s.entries[e].parent].seq
        BY <2>2, <4>1 DEF Path
      <4>3. t.entries[e].parent = s.entries[e].parent
        BY <3>1
      <4> QED
        BY <3>2, <4>2, <4>3
    <3> QED
      BY <3>4, <3>5, <3>6, <3>7 DEF Path
  <2>4. Ancestors(s, id) = P
    BY <2>2, PathIsAncestors
  <2>5. Ancestors(t, id) = P
    BY <2>3, CopyIsOrdered, PathIsAncestors
  <2>6. \A x, y \in P : t.entries[x].seq < t.entries[y].seq <=> s.entries[x].seq < s.entries[y].seq
    BY <2>2 DEF IsCopyOf
  <2>7. InOrder(t, P) = InOrder(s, P)
    <3>1. \A x \in P : {d \in P : t.entries[d].seq < t.entries[x].seq} = {d \in P : s.entries[d].seq < s.entries[x].seq}
      BY <2>6
    <3>2. \A i \in 1..Cardinality(P) :
             (CHOOSE e \in P : Cardinality({d \in P : t.entries[d].seq < t.entries[e].seq}) = i - 1)
             = (CHOOSE e \in P : Cardinality({d \in P : s.entries[d].seq < s.entries[e].seq}) = i - 1)
      BY <3>1
    <3> DEFINE T(i) == CHOOSE e \in P : Cardinality({d \in P : t.entries[d].seq < t.entries[e].seq}) = i - 1
               S(i) == CHOOSE e \in P : Cardinality({d \in P : s.entries[d].seq < s.entries[e].seq}) = i - 1
    <3>3. InOrder(t, P) = [i \in 1..Cardinality(P) |-> T(i)] /\ InOrder(s, P) = [i \in 1..Cardinality(P) |-> S(i)]
      BY DEF InOrder
    <3>4. \A i \in 1..Cardinality(P) : T(i) = S(i)
      BY <3>2
    <3> HIDE DEF T, S
    <3> QED
      BY <3>3, <3>4
  <2> QED
    BY <2>4, <2>5, <2>7 DEF Branch
<1> QED
  BY <1>1, <1>2

-----------------------------------------------------------------------------
(* Forks *)

(* A copy replays, and is one. *)
LEMMA CopyIsFaithful ==
    ASSUME NEW s, Sound(s), NEW ids, NEW leafs, Copyable(s, ids, leafs)
    PROVE  /\ Replays(CopyMutations(s, InOrder(s, ids), leafs))
           /\ IsCopyOf(Replay(CopyMutations(s, InOrder(s, ids), leafs)), s, ids, leafs)
<1> DEFINE copied == InOrder(s, ids)
           names == SetToSeq(DOMAIN leafs)
           labels == InOrder(s, ToSet(copied) \cap DOMAIN s.labels)
           n == IF s.name = NoLabel THEN 0 ELSE 1
           ms == CopyMutations(s, copied, leafs)
<1>1. Ordered(s) /\ LabelsHaveTargets(s) /\ ids \subseteq DOMAIN s.entries /\ IsFiniteSet(DOMAIN leafs)
  BY DEF Sound, Copyable
<1>2. ListsAll(copied, ids) /\ InTheirOrder(s, copied)
  BY <1>1, InOrderListsAll
<1>3. ToSet(copied) = ids
  BY <1>2 DEF ToSet, ListsAll
<1>4. ListsAll(labels, ids \cap DOMAIN s.labels)
  <2>1. ids \cap DOMAIN s.labels \subseteq DOMAIN s.entries
    BY <1>1
  <2>2. labels = InOrder(s, ids \cap DOMAIN s.labels)
    BY <1>3
  <2> HIDE DEF labels
  <2> QED
    BY <1>1, <2>1, <2>2, InOrderListsAll
<1>5. ListsAll(names, DOMAIN leafs)
  BY <1>1, SetToSeqListsAll
<1>6. CopiesPart(s, ids, leafs, copied, names, labels, n)
  <2> HIDE DEF copied, names, labels
  <2> QED
    BY <1>1, <1>2, <1>4, <1>5 DEF CopiesPart, LabelsHaveTargets, n
<1>7. copied \in Seq(ids) /\ names \in Seq(DOMAIN leafs) /\ labels \in Seq(ids \cap DOMAIN s.labels)
  <2> HIDE DEF copied, names, labels
  <2> QED
    BY <1>2, <1>4, <1>5 DEF ListsAll
<1> HIDE DEF copied
<1>8. (\E S : ms \in Seq(S)) /\ CopyLog(ms, s, copied, leafs, names, labels, n)
  BY <1>7, CopyMutationsIs
<1> HIDE DEF names, labels, n, ms
<1>9. IsCopy(ms)
  BY <1>6, <1>8, CopyLogIsCopy
<1>10. PICK S : ms \in Seq(S)
  BY <1>8
<1>11. Replays(ms) /\ Copied(ms, Len(ms), Replay(ms))
  BY <1>9, <1>10, CopyReplays
<1> DEFINE t == Replay(ms)
<1> HIDE DEF t
<1>12. Copied(ms, Len(ms), t)
  BY <1>11 DEF t
<1>13. IsCopyOf(t, s, ids, leafs)
  BY <1>6, <1>8, <1>12, CopyLogCopies
<1> QED
  BY <1>11, <1>13 DEF t, ms, copied

(* What a fork copies, of either scope, has the parents of its entries and the targets of its lanes. *)
LEMMA ForkIsCopyable ==
    ASSUME NEW s, Sound(s), NEW o \in {TreeScope} \cup BranchScope(s)
    PROVE  \E ids : Copyable(s, ids, ForkedLanes(s, o)) /\ ForkedEntries(s, o) = InOrder(s, ids)
<1>1. Ordered(s) /\ LanesHaveTargets(s) /\ HasMain(s)
  BY DEF Sound
<1>2. \A e \in DOMAIN s.entries : s.entries[e].parent \in DOMAIN s.entries \cup {Root}
  BY <1>1 DEF Ordered
<1>3. CASE o = TreeScope
  <2>1. ForkedLanes(s, o) = s.lanes /\ ForkedEntries(s, o) = InOrder(s, DOMAIN s.entries)
    BY <1>3 DEF TreeScope, ForkedLanes, ForkedEntries
  <2>2. Copyable(s, DOMAIN s.entries, s.lanes)
    BY <1>1, <1>2 DEF Copyable, HasMain, LanesHaveTargets, HasTarget, HasEntry
  <2> QED
    BY <2>1, <2>2
<1>4. CASE o \in BranchScope(s)
  <2> DEFINE id == ForkTarget(s, o)
             leafs == [lane \in {Main} |-> id]
  <2>1. o.scope = "branch" /\ o.entry \in DOMAIN s.entries \cup {s.lanes[Main]}
    BY <1>4 DEF BranchScope
  <2>2. o.entry \in DOMAIN s.entries \cup {Root}
    BY <1>1, <2>1 DEF HasMain, LanesHaveTargets, HasTarget, HasEntry
  <2>3. id \in DOMAIN s.entries \cup {Root}
    BY <1>2, <2>2 DEF ForkTarget
  <2>4. ForkedLanes(s, o) = leafs /\ ForkedEntries(s, o) = InOrder(s, Ancestors(s, id))
    BY <2>1 DEF ForkedLanes, ForkedEntries, Branch
  <2>5. DOMAIN leafs = {Main} /\ leafs[Main] = id /\ IsFiniteSet({Main})
    BY FS_Singleton
  <2> HIDE DEF id, leafs
  <2>6. CASE id = Root
    <3>1. Ancestors(s, id) = {}
      BY <2>6 DEF Ancestors
    <3> QED
      BY <2>4, <2>5, <2>6, <3>1 DEF Copyable
  <2>7. CASE id # Root
    <3>1. PICK P \in SUBSET DOMAIN s.entries : Path(s, id, P)
      BY <1>1, <1>2, <2>3, <2>7, PathExists
    <3>2. Ancestors(s, id) = P
      BY <1>1, <3>1, PathIsAncestors
    <3> QED
      BY <2>4, <2>5, <3>1, <3>2 DEF Copyable, Path
  <2> QED
    BY <2>6, <2>7
<1> QED
  BY <1>3, <1>4

LEMMA SoundForksAreFaithful ==
    ASSUME NEW s, Sound(s) PROVE ForksAreFaithful(s)
<1> SUFFICES ASSUME NEW o \in {TreeScope} \cup BranchScope(s) PROVE ForkIsFaithful(s, o)
  BY DEF ForksAreFaithful
<1> DEFINE leafs == ForkedLanes(s, o)
           ms == ForkMutations(s, o)
           copy == Replay(ms)
<1>1. PICK ids : Copyable(s, ids, leafs) /\ ForkedEntries(s, o) = InOrder(s, ids)
  BY ForkIsCopyable
<1>2. ms = CopyMutations(s, InOrder(s, ids), leafs)
  BY <1>1 DEF ForkMutations
<1> HIDE DEF leafs, ms
<1>3. Replays(ms) /\ IsCopyOf(copy, s, ids, leafs)
  BY <1>1, <1>2, CopyIsFaithful
<1> HIDE DEF copy
<1>4. Ordered(s)
  BY DEF Sound
<1>5. ASSUME NEW lane \in DOMAIN copy.lanes
      PROVE  Branch(copy, copy.lanes[lane]) = Branch(s, leafs[lane])
  <2>1. lane \in DOMAIN leafs /\ copy.lanes[lane] = leafs[lane] /\ leafs[lane] \in ids \cup {Root}
    BY <1>1, <1>3 DEF IsCopyOf, Copyable
  <2> QED
    BY <1>1, <1>3, <1>4, <2>1, CopyShowsBranches
<1>6. ASSUME NEW id \in DOMAIN copy.entries
      PROVE  id \in DOMAIN s.labels <=> id \in DOMAIN copy.labels
  BY <1>3 DEF IsCopyOf
<1>7. copy.name = s.name /\ copy.open = {}
  BY <1>3 DEF IsCopyOf
<1> QED
  BY <1>3, <1>5, <1>6, <1>7 DEF ForkIsFaithful, leafs, ms, copy

-----------------------------------------------------------------------------
(* The invariant *)

(* A log without a torn line, that replays to a sound state. *)
WholeLog(ms) ==
    /\ \E S : ms \in Seq(S)
    /\ \A i \in 1..Len(ms) : ms[i] # Torn
    /\ Replays(ms) /\ Sound(Replay(ms))

(* Lines of which only the last may be torn. *)
GoodLines(lines) == \E ms : WholeLog(ms) /\ lines \in {ms, Append(ms, Torn)}

(* Memory is the replay of ms, and the file is ms and what the append under way
   has put. *)
Agrees(ms) ==
    /\ WholeLog(ms) /\ mem = Replay(ms) /\ detached = FALSE
    /\ \/ put = "none" /\ file = ms /\ ended = TRUE
       \/ put = "part" /\ file = Append(ms, Torn) /\ ended = FALSE
       \/ put = "line" /\ file = Append(ms, writing) /\ ended = FALSE

(* What is being appended follows from memory. *)
WritingOK ==
    writing # None => writing # Torn /\ Accepts(mem, writing) /\ Sound(Apply(mem, writing))

(* What a load has read can be loaded; nothing changes the file while the session
   is being opened. *)
LoaderOK ==
    loader # None => /\ GoodLines(loader.lines)
                     /\ mem = None => loader.lines = file /\ loader.ended = ended

Good ==
    /\ GoodLines(file)
    /\ mem # None => Sound(mem)
    /\ WritingOK /\ LoaderOK
    /\ mem = None => writing = None
    /\ damage = "none" /\ mem # None => \E ms : Agrees(ms)

Shape ==
    /\ queue \in Seq(Calls)
    /\ ended \in BOOLEAN
    /\ damage \in {"none", "apart", "built"}
    /\ writing = None => put = "none" /\ detached = FALSE

(* Once more is written to a file that has come apart from memory, nothing is
   claimed of either. *)
FileInv == Shape /\ (damage # "built" => Good)

-----------------------------------------------------------------------------
(* Lines *)

LEMMA AppendedTail ==
    ASSUME NEW S, NEW lines \in Seq(S), NEW line
    PROVE  /\ Append(lines, line) # <<>> /\ Len(Append(lines, line)) = Len(lines) + 1
           /\ Last(Append(lines, line)) = line /\ Front(Append(lines, line)) = lines
<1> DEFINE longer == Append(lines, line)
           T == S \cup {line}
<1>1. lines \in Seq(T) /\ line \in T
  OBVIOUS
<1> HIDE DEF T
<1>2. Len(lines) \in Nat /\ Len(longer) = Len(lines) + 1 /\ longer[Len(longer)] = line
  BY <1>1
<1>3. SubSeq(longer, 1, Len(longer) - 1) = lines
  BY <1>1
<1> HIDE DEF longer
<1>4. longer # <<>>
  BY <1>2
<1>5. Last(longer) = line /\ Front(longer) = lines
  BY <1>2, <1>3 DEF Last, Front
<1> QED
  BY <1>2, <1>4, <1>5 DEF longer

(* A whole log has no torn line to drop, and can be loaded. *)
LEMMA WholeIsLoadable ==
    ASSUME NEW ms, WholeLog(ms)
    PROVE  ~TornTail(ms) /\ WithoutTorn(ms) = ms /\ Loadable(ms)
<1>1. PICK S : ms \in Seq(S)
  BY DEF WholeLog
<1>2. ms # <<>> => Len(ms) \in 1..Len(ms) /\ Last(ms) = ms[Len(ms)]
  BY <1>1 DEF Last
<1>3. ~TornTail(ms)
  BY <1>2 DEF WholeLog, TornTail
<1>4. WithoutTorn(ms) = ms
  BY <1>3 DEF WithoutTorn
<1>5. \A i \in 1..(Len(ms) - 1) : ms[i] # Torn
  BY <1>1 DEF WholeLog
<1> QED
  BY <1>3, <1>4, <1>5 DEF WholeLog, Loadable

(* A torn line after it is dropped, and the log can still be loaded. *)
LEMMA TornIsLoadable ==
    ASSUME NEW ms, WholeLog(ms)
    PROVE  /\ TornTail(Append(ms, Torn)) /\ WithoutTorn(Append(ms, Torn)) = ms
           /\ Loadable(Append(ms, Torn))
<1> DEFINE longer == Append(ms, Torn)
<1>1. PICK S : ms \in Seq(S)
  BY DEF WholeLog
<1>2. longer # <<>> /\ Len(longer) = Len(ms) + 1 /\ Last(longer) = Torn /\ Front(longer) = ms
  BY <1>1, AppendedTail
<1>3. Len(ms) \in Nat /\ \A i \in 1..Len(ms) : longer[i] = ms[i]
  <2>1. ms \in Seq(S \cup {Torn}) /\ Torn \in S \cup {Torn}
    BY <1>1
  <2> QED
    BY <2>1
<1> HIDE DEF longer
<1>4. TornTail(longer) /\ WithoutTorn(longer) = ms
  BY <1>2 DEF TornTail, WithoutTorn
<1>5. \A i \in 1..(Len(longer) - 1) : longer[i] # Torn
  BY <1>2, <1>3 DEF WholeLog
<1>6. Loadable(longer)
  BY <1>4, <1>5 DEF WholeLog, Loadable
<1> QED
  BY <1>4, <1>6 DEF longer

(* A mutation that follows makes a longer whole log. *)
LEMMA LineJoins ==
    ASSUME NEW ms, WholeLog(ms), NEW line, line # Torn,
           Accepts(Replay(ms), line), Sound(Apply(Replay(ms), line))
    PROVE  WholeLog(Append(ms, line)) /\ Replay(Append(ms, line)) = Apply(Replay(ms), line)
<1> DEFINE longer == Append(ms, line)
<1>1. PICK S : ms \in Seq(S)
  BY DEF WholeLog
<1> DEFINE T == S \cup {line}
<1>2. ms \in Seq(T) /\ line \in T
  BY <1>1
<1> HIDE DEF T
<1>3. Replay(longer) = Apply(Replay(ms), line) /\ Replays(longer)
  BY <1>2, ReplayAppend, ReplaysAppend DEF WholeLog
<1>4. /\ longer \in Seq(T) /\ Len(ms) \in Nat /\ Len(longer) = Len(ms) + 1
      /\ longer[Len(ms) + 1] = line /\ \A i \in 1..Len(ms) : longer[i] = ms[i]
  BY <1>2
<1> HIDE DEF longer
<1>5. \A i \in 1..Len(longer) : longer[i] # Torn
  BY <1>4 DEF WholeLog
<1>6. WholeLog(longer)
  BY <1>3, <1>4, <1>5 DEF WholeLog
<1> QED
  BY <1>3, <1>6 DEF longer

(* A torn line that is completed. *)
LEMMA PartCompleted ==
    ASSUME NEW ms, WholeLog(ms), NEW line
    PROVE  [Append(ms, Torn) EXCEPT ![Len(Append(ms, Torn))] = line] = Append(ms, line)
<1>1. PICK S : ms \in Seq(S)
  BY DEF WholeLog
<1> DEFINE T == S \cup {Torn, line}
           torn == Append(ms, Torn)
           whole == Append(ms, line)
           n == Len(ms) + 1
<1>2. ms \in Seq(T) /\ Torn \in T /\ line \in T
  BY <1>1
<1> HIDE DEF T
<1>3. n \in Nat /\ Len(torn) = n
  BY <1>2
<1>4. torn \in [1..n -> T] /\ whole \in [1..n -> T]
  <2>1. torn \in Seq(T) /\ whole \in Seq(T) /\ Len(whole) = n
    BY <1>2
  <2> HIDE DEF torn, whole, n
  <2> QED
    BY <1>3, <2>1
<1>5. \A i \in 1..n : whole[i] = IF i = n THEN line ELSE torn[i]
  BY <1>2
<1> HIDE DEF torn, whole, n
<1> DEFINE done == [torn EXCEPT ![n] = line]
<1>6. done = [i \in 1..n |-> done[i]] /\ \A i \in 1..n : done[i] = IF i = n THEN line ELSE torn[i]
  BY <1>4
<1> HIDE DEF done
<1>7. \A i \in 1..n : done[i] = whole[i]
  BY <1>5, <1>6
<1>8. whole = [i \in 1..n |-> whole[i]]
  BY <1>4
<1>9. done = whole
  BY <1>6, <1>7, <1>8
<1> QED
  BY <1>3, <1>9 DEF torn, whole, done

(* Good lines can be loaded, and the load keeps a whole log. *)
LEMMA GoodIsLoadable ==
    ASSUME NEW lines, GoodLines(lines)
    PROVE  Loadable(lines) /\ WholeLog(WithoutTorn(lines))
  BY WholeIsLoadable, TornIsLoadable DEF GoodLines

(* An empty log is whole. *)
LEMMA EmptyIsWhole == WholeLog(<<>>)
<1>1. <<>> \in Seq({}) /\ Len(<<>>) = 0
  OBVIOUS
<1> QED
  BY <1>1, ReplayEmpty, ReplaysEmpty, EmptyIsSound DEF WholeLog

(* A state is not None. *)
LEMMA StateIsSome == ASSUME NEW s, Sound(s) PROVE s # None
<1>1. "seq" \in DOMAIN s
  BY DEF Sound, IsState
<1> QED
  BY <1>1, NoStateAssumption

-----------------------------------------------------------------------------
(* The steps *)

LEMMA InitInv == Init => FileInv
<1> SUFFICES ASSUME Init PROVE FileInv
  OBVIOUS
<1>1. WholeLog(file) /\ GoodLines(file)
  BY EmptyIsWhole DEF Init, GoodLines
<1>2. mem = Replay(file) /\ Sound(mem)
  BY ReplayEmpty, EmptyIsSound DEF Init
<1>3. Agrees(file)
  BY <1>1, <1>2 DEF Agrees, Init
<1>4. WritingOK /\ LoaderOK
  BY DEF Init, WritingOK, LoaderOK
<1> QED
  BY <1>1, <1>2, <1>3, <1>4 DEF FileInv, Shape, Good, Init

(* What holds of good lines holds whatever the variable that has them. *)
LEMMA StillAgrees ==
    ASSUME \E ms : Agrees(ms), UNCHANGED <<file, ended, mem, put, detached>>,
           put = "line" => writing' = writing
    PROVE  \E ms : Agrees(ms)'
<1>1. PICK ms : Agrees(ms)
  OBVIOUS
<1>2. Agrees(ms)'
  BY <1>1 DEF Agrees
<1> QED
  BY <1>2

(* A step that leaves the file and memory alone, and what waits and is written sound. *)
LEMMA StillInv ==
    ASSUME FileInv, UNCHANGED <<file, ended, mem, put, detached, damage>>,
           put = "line" => writing' = writing,
           Good => WritingOK' /\ LoaderOK' /\ (mem = None => writing' = None),
           queue' \in Seq(Calls), writing' = None => put = "none" /\ detached = FALSE
    PROVE  FileInv'
<1>1. Shape'
  BY DEF FileInv, Shape
<1>2. ASSUME Good, damage # "built" PROVE Good'
  <2>1. damage = "none" /\ mem # None => \E ms : Agrees(ms)'
    BY <1>2, StillAgrees DEF Good
  <2> QED
    BY <1>2, <2>1 DEF Good
<1> QED
  BY <1>1, <1>2 DEF FileInv

LEMMA QueueTail ==
    ASSUME FileInv, queue # <<>>
    PROVE  Head(queue) \in Calls /\ Tail(queue) \in Seq(Calls)
<1>1. queue \in Seq(Calls)
  BY DEF FileInv, Shape
<1> QED
  BY <1>1

LEMMA CallInv == ASSUME FileInv, Call PROVE FileInv'
<1>1. queue' \in Seq(Calls)
  <2>1. PICK c \in Calls : queue' = Append(queue, c)
    BY DEF Call
  <2>2. queue \in Seq(Calls)
    BY DEF FileInv, Shape
  <2> QED
    BY <2>1, <2>2
<1>2. UNCHANGED <<file, ended, mem, put, detached, damage, writing, loader>>
  BY DEF Call
<1>3. Good => WritingOK' /\ LoaderOK' /\ (mem = None => writing' = None)
  BY <1>2 DEF Good, WritingOK, LoaderOK
<1> QED
  BY <1>1, <1>2, <1>3, StillInv DEF FileInv, Shape

LEMMA RefuseInv == ASSUME FileInv, Refuse PROVE FileInv'
<1>1. queue' \in Seq(Calls)
  BY QueueTail DEF Refuse
<1>2. UNCHANGED <<file, ended, mem, put, detached, damage, writing, loader>>
  BY DEF Refuse
<1>3. Good => WritingOK' /\ LoaderOK' /\ (mem = None => writing' = None)
  BY <1>2 DEF Good, WritingOK, LoaderOK
<1> QED
  BY <1>1, <1>2, <1>3, StillInv DEF FileInv, Shape

(* Memory is sound: a call that passes its checks now makes a mutation that follows. *)
LEMMA StartAppendInv == ASSUME FileInv, StartAppend PROVE FileInv'
<1>1. Head(queue) \in Calls /\ queue' \in Seq(Calls)
  BY QueueTail DEF StartAppend
<1>2. /\ UNCHANGED <<file, ended, mem, put, detached, damage, loader>>
      /\ writing = None /\ put = "none" /\ detached = FALSE
  BY DEF StartAppend, FileInv, Shape
<1>3. WellFormed(Head(queue)) /\ Admits(mem, Head(queue)) /\ mem # None
  BY <1>1, CallsAssumption DEF StartAppend
<1>4. writing' = MutationOf(mem, Head(queue)) /\ writing' # Torn
  <2>1. "kind" \in DOMAIN MutationOf(mem, Head(queue))
    BY <1>3, MutationFields
  <2> QED
    BY <2>1, TornAssumption DEF StartAppend
<1>5. ASSUME Good PROVE WritingOK' /\ LoaderOK' /\ (mem = None => writing' = None)
  <2>1. Sound(mem)
    BY <1>3, <1>5 DEF Good
  <2>2. Accepts(mem, writing') /\ Sound(Apply(mem, writing'))
    BY <1>3, <1>4, <2>1, AdmittedIsAccepted, AdmittedIsSound
  <2>3. WritingOK'
    BY <1>2, <1>4, <2>2 DEF WritingOK
  <2> QED
    BY <1>2, <1>3, <1>5, <2>3 DEF Good, LoaderOK
<1> QED
  BY <1>1, <1>2, <1>5, StillInv DEF FileInv, Shape

(* While an append is under way, damage or not, memory and what is written are
   sound as long as the file has not been built upon. *)
LEMMA WritingFacts ==
    ASSUME FileInv, writing # None, damage # "built"
    PROVE  /\ Good /\ mem # None /\ Sound(mem)
           /\ writing # Torn /\ Accepts(mem, writing) /\ Sound(Apply(mem, writing))
  BY DEF FileInv, Good, WritingOK

(* The first bytes land: the file gets a torn line. *)
LEMMA PutPartInv == ASSUME FileInv, PutPart PROVE FileInv'
<1>1. Shape'
  BY DEF FileInv, Shape, PutPart, Bytes, Written
<1> SUFFICES ASSUME damage' # "built" PROVE Good'
  BY <1>1 DEF FileInv
<1>2. damage = "none" /\ damage' = "none"
  BY DEF FileInv, Shape, PutPart, Written
<1>3. Good /\ mem # None
  BY <1>2, WritingFacts DEF PutPart
<1>4. PICK ms : Agrees(ms)
  BY <1>2, <1>3 DEF Good
<1>5. file = ms /\ ended = TRUE /\ WholeLog(ms)
  BY <1>4 DEF Agrees, PutPart
<1>6. file' = Append(ms, Torn) /\ ended' = FALSE /\ put' = "part"
  BY <1>5 DEF PutPart, Bytes
<1>7. Agrees(ms)'
  BY <1>4, <1>6 DEF Agrees, PutPart
<1>8. GoodLines(file)'
  BY <1>5, <1>6 DEF GoodLines
<1>9. WritingOK' /\ LoaderOK'
  BY <1>3 DEF Good, WritingOK, LoaderOK, PutPart
<1> QED
  BY <1>3, <1>7, <1>8, <1>9 DEF Good, PutPart

(* The rest of the line lands: the file gets the mutation, which follows. *)
LEMMA PutLineFacts ==
    ASSUME FileInv, PutLine, damage' # "built"
    PROVE  /\ damage = "none" /\ damage' = "none" /\ Good /\ mem # None
           /\ \E ms : /\ Agrees(ms) /\ file = Append(ms, Torn) /\ file' = Append(ms, writing)
                      /\ ended' = FALSE
<1>1. damage = "none" /\ damage' = "none"
  BY DEF FileInv, Shape, PutLine, Written
<1>2. Good /\ mem # None
  BY <1>1, WritingFacts DEF PutLine
<1>3. PICK ms : Agrees(ms)
  BY <1>1, <1>2 DEF Good
<1>4. put = "part" /\ file = Append(ms, Torn) /\ ended = FALSE /\ WholeLog(ms)
  BY <1>3 DEF Agrees, PutLine
<1>5. file' = [file EXCEPT ![Len(file)] = writing] /\ ended' = FALSE
  BY <1>4 DEF PutLine
<1>6. file' = Append(ms, writing)
  BY <1>4, <1>5, PartCompleted
<1> QED
  BY <1>1, <1>2, <1>3, <1>4, <1>5, <1>6

LEMMA PutLineInv == ASSUME FileInv, PutLine PROVE FileInv'
<1>1. Shape'
  BY DEF FileInv, Shape, PutLine, Bytes, Written
<1> SUFFICES ASSUME damage' # "built" PROVE Good'
  BY <1>1 DEF FileInv
<1>2. damage = "none" /\ damage' = "none" /\ Good /\ mem # None
  BY PutLineFacts
<1>3. PICK ms : Agrees(ms) /\ file' = Append(ms, writing) /\ ended' = FALSE
  BY PutLineFacts
<1>4. WholeLog(ms) /\ mem = Replay(ms)
  BY <1>3 DEF Agrees
<1>5. writing # Torn /\ Accepts(mem, writing) /\ Sound(Apply(mem, writing))
  BY <1>2, WritingFacts DEF PutLine
<1>6. WholeLog(Append(ms, writing))
  BY <1>4, <1>5, LineJoins
<1>7. GoodLines(file)'
  BY <1>3, <1>6 DEF GoodLines
<1>8. Agrees(ms)'
  BY <1>3 DEF Agrees, PutLine
<1>9. WritingOK' /\ LoaderOK'
  BY <1>2 DEF Good, WritingOK, LoaderOK, PutLine
<1> QED
  BY <1>2, <1>7, <1>8, <1>9 DEF Good, PutLine

(* The newline lands in a file that agrees with memory. *)
LEMMA EndAppendFacts ==
    ASSUME FileInv, EndAppend, damage' # "built"
    PROVE  /\ damage' = damage /\ Good /\ mem # None /\ file' = file
           /\ mem' = Apply(mem, writing) /\ Sound(mem') /\ mem' # None
           /\ damage = "none" =>
                \E ms : /\ Agrees(ms) /\ file = Append(ms, writing) /\ ended' = TRUE
                        /\ WholeLog(file) /\ Replay(file) = mem'
<1>1. damage' = damage /\ damage # "built"
  BY DEF FileInv, Shape, EndAppend, Written
<1>2. /\ Good /\ mem # None /\ writing # Torn
      /\ Accepts(mem, writing) /\ Sound(Apply(mem, writing))
  BY <1>1, WritingFacts DEF EndAppend
<1>3. mem' = Apply(mem, writing) /\ Sound(mem') /\ mem' # None
  BY <1>2, StateIsSome DEF EndAppend
<1>4. ASSUME damage = "none"
      PROVE  \E ms : /\ Agrees(ms) /\ file = Append(ms, writing) /\ ended' = TRUE
                     /\ WholeLog(file) /\ Replay(file) = mem' /\ file' = file
  <2>1. PICK ms : Agrees(ms)
    BY <1>2, <1>4 DEF Good
  <2>2. /\ detached = FALSE /\ put = "line" /\ ended = FALSE /\ file = Append(ms, writing)
        /\ WholeLog(ms) /\ mem = Replay(ms)
    BY <2>1 DEF Agrees, EndAppend
  <2>3. WholeLog(file) /\ Replay(file) = mem'
    BY <1>2, <1>3, <2>2, LineJoins
  <2>4. ended' = TRUE /\ file' = file
    BY <2>2 DEF EndAppend, Newline
  <2> QED
    BY <2>1, <2>2, <2>3, <2>4
<1>5. file' = file
  <2>1. CASE damage = "none"
    BY <1>4, <2>1
  <2>2. CASE damage # "none"
    BY <1>1, <2>2 DEF EndAppend, Written
  <2> QED
    BY <2>1, <2>2
<1> QED
  BY <1>1, <1>2, <1>3, <1>4, <1>5

LEMMA EndAppendInv == ASSUME FileInv, EndAppend PROVE FileInv'
<1>1. Shape'
  BY DEF FileInv, Shape, EndAppend, Newline, Written
<1> SUFFICES ASSUME damage' # "built" PROVE Good'
  BY <1>1 DEF FileInv
<1>2. /\ damage' = damage /\ Good /\ mem # None /\ file' = file
      /\ Sound(mem') /\ mem' # None
  BY EndAppendFacts
<1>3. writing' = None /\ put' = "none" /\ detached' = FALSE /\ loader' = loader
  BY DEF EndAppend
<1>4. WritingOK' /\ LoaderOK'
  BY <1>2, <1>3 DEF Good, WritingOK, LoaderOK
<1>5. ASSUME damage' = "none" PROVE Agrees(file)'
  <2>1. ended' = TRUE /\ WholeLog(file) /\ Replay(file) = mem'
    BY <1>2, <1>5, EndAppendFacts
  <2> QED
    BY <1>2, <1>3, <2>1 DEF Agrees
<1>6. GoodLines(file)'
  BY <1>2 DEF Good
<1> QED
  BY <1>2, <1>3, <1>4, <1>5, <1>6 DEF Good

(* What an append that stops leaves, when the file agreed with memory or nothing
   more was put: the file as it was, or with the newline of its last line. *)
LEMMA StoppedFacts ==
    ASSUME FileInv, writing # None, Stopped, damage = "none"
    PROVE  file' = file
<1>1. Good /\ mem # None
  BY WritingFacts
<1>2. PICK ms : Agrees(ms)
  BY <1>1 DEF Good
<1>3. put = "line" => ended = FALSE
  BY <1>2 DEF Agrees
<1> QED
  BY <1>3 DEF Stopped, Newline

LEMMA FailAppendInv == ASSUME FileInv, FailAppend PROVE FileInv'
<1>1. Shape'
  BY DEF FileInv, Shape, FailAppend, Stopped, Newline, Worse
<1> SUFFICES ASSUME damage' # "built" PROVE Good'
  BY <1>1 DEF FileInv
<1>2. damage # "built"
  BY DEF FileInv, Shape, FailAppend, Worse
<1>3. Good /\ mem # None /\ Sound(mem)
  BY <1>2, WritingFacts DEF FailAppend
<1>4. UNCHANGED <<mem, loader>> /\ writing' = None /\ put' = "none" /\ detached' = FALSE
  BY DEF FailAppend
<1>5. CASE detached \/ put = "none"
  <2>1. UNCHANGED <<file, ended, damage>>
    BY <1>5 DEF FailAppend, Stopped
  <2>2. WritingOK' /\ LoaderOK'
    BY <1>3, <1>4, <2>1 DEF Good, WritingOK, LoaderOK
  <2>3. ASSUME damage' = "none" PROVE \E ms : Agrees(ms)'
    <3>1. PICK ms : Agrees(ms)
      BY <1>3, <2>1, <2>3 DEF Good
    <3>2. put = "none"
      BY <1>5, <3>1 DEF Agrees
    <3>3. Agrees(ms)'
      BY <1>4, <2>1, <3>1, <3>2 DEF Agrees
    <3> QED
      BY <3>3
  <2> QED
    BY <1>3, <1>4, <2>1, <2>2, <2>3 DEF Good
<1>6. CASE ~(detached \/ put = "none")
  <2>1. damage = "none" /\ damage' = "apart"
    BY <1>2, <1>6 DEF FileInv, Shape, FailAppend, Worse
  <2>2. file' = file
    BY <2>1, StoppedFacts DEF FailAppend
  <2>3. WritingOK' /\ LoaderOK'
    BY <1>3, <1>4, <2>2 DEF Good, WritingOK, LoaderOK
  <2> QED
    BY <1>3, <1>4, <2>1, <2>2, <2>3 DEF Good
<1> QED
  BY <1>5, <1>6

(* A newline is always seen. *)
LEMMA CrashFacts ==
    ASSUME FileInv, Crash, damage' # "built"
    PROVE  damage # "built" /\ damage' = damage /\ Good /\ file' = file
<1>1. damage # "built" /\ damage' = damage
  BY DEF FileInv, Shape, Crash, Written
<1>2. Good
  BY <1>1 DEF FileInv
<1>3. CASE UNCHANGED <<file, ended>>
  BY <1>1, <1>2, <1>3
<1>4. CASE ~UNCHANGED <<file, ended>>
  <2>1. damage = "none"
    BY <1>1, <1>4 DEF FileInv, Shape, Crash, Written
  <2>2. writing # None
    BY <1>4 DEF FileInv, Shape, Crash, Stopped
  <2> QED
    BY <1>1, <1>2, <2>1, <2>2, StoppedFacts DEF Crash
<1> QED
  BY <1>3, <1>4

LEMMA CrashInv == ASSUME FileInv, Crash PROVE FileInv'
<1>1. Shape'
  <2>1. queue' = <<>> /\ <<>> \in Seq(Calls)
    BY DEF Crash
  <2> QED
    BY <2>1 DEF FileInv, Shape, Crash, Stopped, Newline, Written
<1> SUFFICES ASSUME damage' # "built" PROVE Good'
  BY <1>1 DEF FileInv
<1>2. Good /\ file' = file
  BY CrashFacts
<1>3. mem' = None /\ writing' = None /\ loader' = None
  BY DEF Crash
<1> QED
  BY <1>2, <1>3 DEF Good, WritingOK, LoaderOK

LEMMA ReadInv == ASSUME FileInv, ReadForOpen \/ ReadForFork PROVE FileInv'
<1>1. UNCHANGED <<file, ended, mem, put, detached, damage, queue, writing>>
  BY DEF ReadForOpen, ReadForFork
<1>2. loader' = [lines |-> file, ended |-> ended]
  BY DEF ReadForOpen, ReadForFork
<1>3. loader'.lines = file /\ loader'.ended = ended
  BY <1>2
<1>4. Good => WritingOK' /\ LoaderOK' /\ (mem = None => writing' = None)
  BY <1>1, <1>3 DEF Good, WritingOK, LoaderOK
<1> QED
  BY <1>1, <1>4, StillInv DEF FileInv, Shape

LEMMA AbandonLoadInv == ASSUME FileInv, AbandonLoad PROVE FileInv'
<1>1. UNCHANGED <<file, ended, mem, put, detached, damage, queue, writing>> /\ loader' = None
  BY DEF AbandonLoad
<1>2. Good => WritingOK' /\ LoaderOK' /\ (mem = None => writing' = None)
  BY <1>1 DEF Good, WritingOK, LoaderOK
<1> QED
  BY <1>1, <1>2, StillInv DEF FileInv, Shape

(* The load that opens the session leaves the whole lines of the file, and makes
   memory of them. *)
LEMMA OpenFacts ==
    ASSUME FileInv, Repair, mem = None, damage # "built"
    PROVE  /\ Good /\ damage' = "none" /\ WholeLog(WithoutTorn(file))
           /\ file' = WithoutTorn(file) /\ ended' = TRUE /\ detached' = FALSE
           /\ mem' = Replay(WithoutTorn(file))
<1>1. Good /\ writing = None /\ put = "none" /\ detached = FALSE
  BY DEF FileInv, Shape, Good
<1>2. loader.lines = file /\ loader.ended = ended /\ GoodLines(file)
  BY <1>1 DEF Good, LoaderOK, Repair
<1>3. WholeLog(WithoutTorn(file)) /\ mem' = Replay(WithoutTorn(file))
  BY <1>2, GoodIsLoadable DEF Repair
<1>4. damage' = "none"
  BY DEF FileInv, Shape, Repair, Loaded
<1>5. CASE TornTail(file)
  <2>1. file' = WithoutTorn(file) /\ ended' = TRUE /\ detached' = FALSE
    BY <1>1, <1>2, <1>5 DEF Repair
  <2> QED
    BY <1>1, <1>3, <1>4, <2>1
<1>6. CASE ~TornTail(file)
  <2>1. WithoutTorn(file) = file
    BY <1>6 DEF WithoutTorn
  <2>2. file' = file /\ ended' = TRUE /\ detached' = FALSE
    BY <1>1, <1>2, <1>6 DEF Repair, Newline, FileInv, Shape
  <2> QED
    BY <1>1, <1>3, <1>4, <2>1, <2>2
<1> QED
  BY <1>5, <1>6

(* That of a fork leaves the file as it is, or with lines that can be loaded. *)
LEMMA ForkFacts ==
    ASSUME FileInv, Repair, mem # None, damage' # "built"
    PROVE  /\ damage # "built" /\ Good /\ GoodLines(file')
           /\ \/ UNCHANGED <<file, ended, detached, damage>>
              \/ damage' = "apart"
<1>1. damage # "built"
  BY DEF FileInv, Shape, Repair, Loaded, Apart, Worse
<1>2. Good /\ GoodLines(loader.lines)
  BY <1>1 DEF FileInv, Good, LoaderOK, Repair
<1>3. CASE TornTail(loader.lines)
  <2>1. file' = WithoutTorn(loader.lines)
    BY <1>3 DEF Repair
  <2>2. GoodLines(file')
    BY <1>2, <2>1, GoodIsLoadable DEF GoodLines
  <2>3. damage' = "apart"
    BY <1>1, <1>3 DEF FileInv, Shape, Repair, Loaded, Apart
  <2> QED
    BY <1>1, <1>2, <2>2, <2>3
<1>4. CASE ~TornTail(loader.lines) /\ loader.ended
  <2>1. UNCHANGED <<file, ended, detached, damage>>
    BY <1>4 DEF Repair, Loaded
  <2> QED
    BY <1>1, <1>2, <2>1 DEF Good
<1>5. CASE ~TornTail(loader.lines) /\ ~loader.ended
  <2>1. damage = "none" /\ damage' = "apart"
    BY <1>1, <1>5 DEF FileInv, Shape, Repair, Loaded, Worse
  <2>2. PICK ms : Agrees(ms)
    BY <1>2, <2>1 DEF Good
  <2>3. file' = IF ended THEN Append(file, Torn) ELSE file
    BY <1>5 DEF Repair, Newline
  <2>4. CASE ended
    <3>1. file = ms /\ WholeLog(ms) /\ file' = Append(ms, Torn)
      BY <2>2, <2>3, <2>4 DEF Agrees
    <3>2. GoodLines(file')
      BY <3>1 DEF GoodLines
    <3> QED
      BY <1>1, <1>2, <2>1, <3>2
  <2>5. CASE ~ended
    BY <1>1, <1>2, <2>1, <2>3, <2>5 DEF Good
  <2> QED
    BY <2>4, <2>5
<1> QED
  BY <1>3, <1>4, <1>5

LEMMA RepairInv == ASSUME FileInv, Repair PROVE FileInv'
<1>1. UNCHANGED <<queue, writing, put>> /\ loader' = None
  BY DEF Repair
<1>2. Shape'
  <2>1. writing' = None => put' = "none" /\ detached' = FALSE
    BY <1>1 DEF FileInv, Shape, Repair
  <2>2. ended' \in BOOLEAN
    BY DEF FileInv, Shape, Repair, Newline
  <2>3. damage' \in {"none", "apart", "built"}
    BY DEF FileInv, Shape, Repair, Loaded, Apart, Worse
  <2> QED
    BY <1>1, <2>1, <2>2, <2>3 DEF FileInv, Shape
<1> SUFFICES ASSUME damage' # "built" PROVE Good'
  BY <1>2 DEF FileInv
<1>3. CASE mem = None
  <2>1. damage # "built"
    BY <1>3 DEF FileInv, Shape, Repair, Loaded
  <2>2. /\ Good /\ damage' = "none" /\ WholeLog(WithoutTorn(file))
        /\ file' = WithoutTorn(file) /\ ended' = TRUE /\ detached' = FALSE
        /\ mem' = Replay(WithoutTorn(file))
    BY <1>3, <2>1, OpenFacts
  <2>3. writing' = None /\ put' = "none"
    BY <1>1, <1>3, <2>2 DEF FileInv, Shape, Good
  <2>4. Agrees(WithoutTorn(file))'
    <3> DEFINE ms == WithoutTorn(file)
    <3>1. WholeLog(ms) /\ file' = ms /\ ended' = TRUE /\ detached' = FALSE /\ mem' = Replay(ms)
      BY <2>2
    <3>2. ~TornTail(ms) /\ WithoutTorn(ms) = ms
      BY <3>1, WholeIsLoadable
    <3>3. WithoutTorn(file)' = ms
      BY <3>1, <3>2 DEF WithoutTorn, TornTail
    <3> HIDE DEF ms
    <3> QED
      BY <2>3, <3>1, <3>3 DEF Agrees
  <2>5. GoodLines(file)' /\ Sound(mem')
    BY <2>2 DEF GoodLines, WholeLog
  <2>6. WritingOK' /\ LoaderOK'
    BY <1>1, <2>3 DEF WritingOK, LoaderOK
  <2> QED
    BY <2>3, <2>4, <2>5, <2>6 DEF Good
<1>4. CASE mem # None
  <2>1. /\ damage # "built" /\ Good /\ GoodLines(file')
        /\ \/ UNCHANGED <<file, ended, detached, damage>>
           \/ damage' = "apart"
    BY <1>4, ForkFacts
  <2>2. mem' = mem
    BY <1>4 DEF Repair
  <2>3. WritingOK' /\ LoaderOK'
    BY <1>1, <2>1, <2>2 DEF Good, WritingOK, LoaderOK
  <2>4. damage' = "none" => \E ms : Agrees(ms)'
    BY <1>1, <1>4, <2>1, <2>2, StillAgrees DEF Good
  <2>5. GoodLines(file)'
    BY <2>1 DEF GoodLines
  <2> QED
    BY <1>1, <1>4, <2>1, <2>2, <2>3, <2>4, <2>5 DEF Good
<1> QED
  BY <1>3, <1>4

LEMMA NextInv == ASSUME FileInv, [Next]_vars PROVE FileInv'
<1>1. ASSUME UNCHANGED vars PROVE FileInv'
  <2>1. UNCHANGED <<file, ended, mem, put, detached, damage, queue, writing, loader>>
    BY <1>1 DEF vars
  <2>2. Good => WritingOK' /\ LoaderOK' /\ (mem = None => writing' = None)
    BY <2>1 DEF Good, WritingOK, LoaderOK
  <2> QED
    BY <2>1, <2>2, StillInv DEF FileInv, Shape
<1> QED
  BY <1>1, CallInv, RefuseInv, StartAppendInv, PutPartInv, PutLineInv, EndAppendInv,
     FailAppendInv, CrashInv, ReadInv, RepairInv, AbandonLoadInv DEF Next

LEMMA InvariantHolds == Spec => []FileInv
<1>1. FileInv /\ [Next]_vars => FileInv'
  BY NextInv
<1> QED
  BY <1>1, InitInv, PTL DEF Spec

-----------------------------------------------------------------------------
(* The theorems *)

(* Whatever the calls, the appends that fail midway, the forks and the crashes, the file can
   be loaded as long as nothing is written to it once it has come apart from memory; and
   while the two agree a process that loads it gets the state of the open session (load,
   storage.ts:83-96). *)
THEOREM MemoryAndFileAgree == Spec => []MemoryIsTheFile
<1>1. FileInv => MemoryIsTheFile
  <2> SUFFICES ASSUME FileInv, damage # "built" PROVE MemoryIsTheFile
    BY DEF MemoryIsTheFile
  <2>1. Loadable(file)
    BY GoodIsLoadable DEF FileInv, Good
  <2>2. ASSUME damage = "none", mem # None, put # "line"
        PROVE  mem = Replay(WithoutTorn(file))
    <3>1. PICK ms : Agrees(ms)
      BY <2>2 DEF FileInv, Good
    <3>2. WholeLog(ms) /\ mem = Replay(ms) /\ file \in {ms, Append(ms, Torn)}
      BY <2>2, <3>1 DEF Agrees
    <3> QED
      BY <3>2, WholeIsLoadable, TornIsLoadable
  <2> QED
    BY <2>1, <2>2 DEF MemoryIsTheFile
<1> QED
  BY <1>1, InvariantHolds, PTL

LEMMA AtMostOne ==
    ASSUME NEW S, \A x, y \in S : x = y
    PROVE  Cardinality(S) <= 1
<1>1. CASE S = {}
  BY <1>1, FS_EmptySet
<1>2. CASE S # {}
  <2>1. PICK x : S = {x}
    BY <1>2
  <2> QED
    BY <2>1, FS_Singleton
<1> QED
  BY <1>1, <1>2

(* No lane ever has two open operations, whatever the order of the calls and however
   often the process dies between them (the check of an operation that starts is made
   when its turn comes, enqueue and appendRecord), nor when the file comes apart from
   memory, until more is written to it. *)
THEOREM OperationsDoNotOverlap == Spec => []OneOpenOperation
<1>1. FileInv => OneOpenOperation
  <2> SUFFICES ASSUME FileInv, damage # "built", mem # None, NEW lane \in DOMAIN mem.lanes
               PROVE  Cardinality(OpenOn(mem, lane)) <= 1
    BY DEF OneOpenOperation
  <2>1. OneOpen(mem)
    BY DEF FileInv, Good, Sound
  <2>2. \A o, p \in OpenOn(mem, lane) : o = p
    BY <2>1 DEF OneOpen, OpenOn
  <2> HIDE DEF OpenOn
  <2> QED
    BY <2>2, AtMostOne
<1> QED
  BY <1>1, InvariantHolds, PTL

(* A fork, of any scope, replays and shows on every lane the branch, the labels and the name
   of the session its load has read, whatever was called, moved and labelled before, and
   whatever append the load came across (createForkMutations, state.ts:257). *)
THEOREM ForksShowTheirSource == Spec => []ForksMatch
<1>1. FileInv => ForksMatch
  <2> SUFFICES ASSUME FileInv, damage # "built", loader # None
               PROVE  ForksAreFaithful(Replay(WithoutTorn(loader.lines)))
    BY DEF ForksMatch
  <2>1. WholeLog(WithoutTorn(loader.lines))
    BY GoodIsLoadable DEF FileInv, Good, LoaderOK
  <2>2. Sound(Replay(WithoutTorn(loader.lines)))
    BY <2>1 DEF WholeLog
  <2> QED
    BY <2>2, SoundForksAreFaithful
<1> QED
  BY <1>1, InvariantHolds, PTL

-----------------------------------------------------------------------------
(* The file implements the session log. *)

(* The replay of the log is the replay of the session. *)
LEMMA SameReplay == ASSUME NEW ms PROVE Log!Replay(ms) = Replay(ms)
  BY DEF Log!Replay, Replay, Log!Apply, Apply, Log!ApplyEntry, ApplyEntry, Log!ApplyRecord, ApplyRecord,
         Log!ApplyLabel, ApplyLabel, Log!Put, Put, Log!Empty, Empty, Log!FoldLeft, FoldLeft,
         Log!MapThenFoldSet, MapThenFoldSet, Log!Max, Max

LEMMA SameAccepts == ASSUME NEW s, NEW m PROVE Log!Accepts(s, m) <=> Accepts(s, m)
  BY DEF Log!Accepts, Accepts, Log!HasLane, HasLane, Log!HasTarget, HasTarget, Log!HasEntry, HasEntry

(* The log is the file without a torn last line. *)
LEMMA LogOfNext ==
    ASSUME NEW ms, WholeLog(ms), file' \in {ms, Append(ms, Torn)}
    PROVE  WithoutTorn(file)' = ms
<1>1. WithoutTorn(file') = ms
  BY WholeIsLoadable, TornIsLoadable
<1> QED
  BY <1>1 DEF WithoutTorn, TornTail

LEMMA StillLog ==
    ASSUME file' = file, acked' = acked
    PROVE  UNCHANGED Log!vars
  BY DEF Log!vars, WithoutTorn, TornTail

(* A line that is whole is a mutation that becomes durable. *)
LEMMA PutLineCommits ==
    ASSUME FileInv, PutLine, damage' = "none"
    PROVE  Log!Commit
<1>1. PICK ms : Agrees(ms) /\ file = Append(ms, Torn) /\ file' = Append(ms, writing)
  BY PutLineFacts
<1>2. WholeLog(ms) /\ mem = Replay(ms) /\ damage # "built"
  BY <1>1, PutLineFacts DEF Agrees
<1>3. writing # Torn /\ Accepts(mem, writing) /\ Sound(Apply(mem, writing))
  BY <1>2, WritingFacts DEF PutLine
<1> DEFINE longer == Append(ms, writing)
<1>4. WholeLog(longer)
  BY <1>2, <1>3, LineJoins
<1>5. PICK S : ms \in Seq(S)
  BY <1>2 DEF WholeLog
<1>6. Len(longer) = Len(ms) + 1 /\ Last(longer) = writing
  BY <1>5, AppendedTail
<1>7. ms = SubSeq(longer, 1, Len(ms))
  <2>1. ms \in Seq(S \cup {writing}) /\ writing \in S \cup {writing}
    BY <1>5
  <2> QED
    BY <2>1
<1> HIDE DEF longer
<1>8. WithoutTorn(file) = ms
  BY <1>1, <1>2, TornIsLoadable
<1>9. WithoutTorn(file)' = longer
  BY <1>1, <1>4, LogOfNext DEF longer
<1>10. Log!Last(longer) = writing
  BY <1>6 DEF Log!Last, Last
<1>11. Log!Accepts(Log!Replay(ms), writing)
  BY <1>2, <1>3, SameReplay, SameAccepts
<1>12. acked' = acked
  BY DEF PutLine
<1> QED
  BY <1>6, <1>7, <1>8, <1>9, <1>10, <1>11, <1>12 DEF Log!Commit

(* What is answered is the last line of the file. *)
LEMMA EndAppendAnswers ==
    ASSUME FileInv, EndAppend, damage' = "none"
    PROVE  Log!Answer
<1>1. PICK ms : Agrees(ms) /\ file = Append(ms, writing) /\ WholeLog(file)
  BY EndAppendFacts
<1>2. file' = file
  BY EndAppendFacts
<1>3. WithoutTorn(file) = file /\ WithoutTorn(file)' = WithoutTorn(file)
  BY <1>1, <1>2, WholeIsLoadable, LogOfNext
<1>4. PICK S : ms \in Seq(S)
  BY <1>1 DEF Agrees, WholeLog
<1>5. Len(file) \in 1..Len(file) /\ file[Len(file)] = writing
  <2>1. ms \in Seq(S \cup {writing}) /\ writing \in S \cup {writing}
    BY <1>4
  <2> QED
    BY <1>1, <2>1
<1>6. acked' = acked \cup {file[Len(file)]}
  BY <1>5 DEF EndAppend
<1> QED
  BY <1>3, <1>5, <1>6 DEF Log!Answer

(* No other step that ends in agreement changes the log. *)
LEMMA OthersKeepLogFile ==
    ASSUME FileInv, [Next]_vars, ~PutLine, ~EndAppend, damage' = "none"
    PROVE  UNCHANGED Log!vars
<1>1. CASE UNCHANGED vars \/ Call \/ Refuse \/ StartAppend \/ ReadForOpen \/ ReadForFork \/ AbandonLoad
  <2>1. file' = file /\ acked' = acked
    BY <1>1 DEF vars, Call, Refuse, StartAppend, ReadForOpen, ReadForFork, AbandonLoad
  <2> QED
    BY <2>1, StillLog
<1>2. CASE PutPart
  <2>1. damage = "none"
    BY <1>2 DEF FileInv, Shape, PutPart, Written
  <2>2. PICK ms : Agrees(ms)
    BY <1>2, <2>1, WritingFacts DEF Good, PutPart
  <2>3. WholeLog(ms) /\ file = ms /\ file' = Append(ms, Torn)
    BY <1>2, <2>2 DEF Agrees, PutPart, Bytes
  <2>4. WithoutTorn(file) = ms /\ WithoutTorn(file)' = ms
    BY <2>3, WholeIsLoadable, LogOfNext
  <2> QED
    BY <1>2, <2>4 DEF Log!vars, PutPart
<1>3. CASE FailAppend
  <2>1. damage = "none"
    BY <1>3 DEF FileInv, Shape, FailAppend, Worse
  <2>2. file' = file /\ acked' = acked
    BY <1>3, <2>1, StoppedFacts DEF FailAppend
  <2> QED
    BY <2>2, StillLog
<1>4. CASE Crash
  <2>1. file' = file /\ acked' = acked
    BY <1>4, CrashFacts DEF Crash
  <2> QED
    BY <2>1, StillLog
<1>5. CASE Repair
  <2>1. acked' = acked
    BY <1>5 DEF Repair
  <2>2. CASE mem = None
    <3>1. damage # "built"
      BY <1>5, <2>2 DEF FileInv, Shape, Repair, Loaded
    <3>2. WholeLog(WithoutTorn(file)) /\ file' = WithoutTorn(file)
      BY <1>5, <2>2, <3>1, OpenFacts
    <3>3. WithoutTorn(file)' = WithoutTorn(file)
      BY <3>2, LogOfNext
    <3> QED
      BY <2>1, <3>3 DEF Log!vars
  <2>3. CASE mem # None
    BY <1>5, <2>1, <2>3, ForkFacts, StillLog
  <2> QED
    BY <2>2, <2>3
<1> QED
  BY <1>1, <1>2, <1>3, <1>4, <1>5 DEF Next

LEMMA StepCommits ==
    ASSUME FileInv, [Next]_vars, (damage = "none")'
    PROVE  Log!Commit \/ Log!Answer \/ UNCHANGED Log!vars
  BY PutLineCommits, EndAppendAnswers, OthersKeepLogFile

(* Seen without its torn tail, the file is a log that only grows, by one mutation at a time
   that follows from those before it, and that keeps every mutation that was answered: what
   a session store promises, over any number of crashes and repairs, in every step that does
   not leave the file apart from memory. *)
THEOREM FileImplementsLog == Spec => ImplementsSessionLog
<1>1. Init => Log!Init
  BY DEF Init, Log!Init, WithoutTorn, TornTail
<1>2. FileInv /\ [Next]_vars => [(damage = "none")' => Log!Commit \/ Log!Answer]_(Log!vars)
  BY StepCommits
<1> QED
  BY <1>1, <1>2, InvariantHolds, PTL DEF Spec, ImplementsSessionLog, Log!Spec

-----------------------------------------------------------------------------
LeaseType == [owner : Nat, fence : Nat, left : Nat]

StorageType ==
    [owner : Nat, fence : Nat, lost : BOOLEAN, closing : BOOLEAN,
     queue : Seq({Beat, Pending}), timer : {None} \cup 0..Interval]

LeaseTypeOK ==
    /\ owners \in Nat
    /\ lease \in {None} \cup LeaseType
    /\ storages \in [Processes -> {None} \cup StorageType]
    /\ authors \in Seq(Nat)

(* An owner id is drawn once. *)
OwnersDiffer ==
    /\ lease # None => lease.owner <= owners
    /\ \A p \in Processes : storages[p] # None => storages[p].owner <= owners
    /\ \A p, q \in Processes :
          storages[p] # None /\ storages[q] # None /\ storages[p].owner = storages[q].owner => p = q

(* No row is by an owner later than the one of the lease. *)
AuthorsAreEarlier ==
    \A i \in 1..Len(authors) :
        /\ authors[i] <= owners
        /\ lease # None => authors[i] <= lease.owner

BeatWaits(s) == \E i \in 1..Len(s.queue) : s.queue[i] = Beat

(* A heartbeat waits, or its timer will fire before the time of the lease is over. *)
BeatsInTime(s) == IF s.timer = None THEN BeatWaits(s) ELSE lease.left > s.timer

(* A storage that is not closing, or has something to do still, owns a lease with time left. *)
Keeps(s) ==
    /\ ~s.lost
    /\ ~s.closing \/ s.queue # <<>> => Renewable(s)
    /\ ~s.closing => BeatsInTime(s)

PromptKeep == \A p \in Prompt : storages[p] # None => Keeps(storages[p])

LeaseInv ==
    /\ LeaseTypeOK /\ OwnersDiffer /\ AuthorsAreEarlier /\ WritersDoNotInterleave
    /\ PromptKeep

-----------------------------------------------------------------------------
(* Queues of a storage *)

(* What waits behind the head waits on, and a heartbeat that joins the queue waits. *)
LEMMA QueueFacts ==
    ASSUME NEW waits \in Seq({Beat, Pending})
    PROVE  /\ \A x \in {Beat, Pending} :
                /\ Append(waits, x) \in Seq({Beat, Pending}) /\ Append(waits, x) # <<>>
                /\ \E i \in 1..Len(Append(waits, x)) : Append(waits, x)[i] = x
                /\ \A i \in 1..Len(waits) : i \in 1..Len(Append(waits, x)) /\ Append(waits, x)[i] = waits[i]
           /\ waits # <<>> =>
                /\ Tail(waits) \in Seq({Beat, Pending})
                /\ \A i \in 1..Len(waits) : waits[i] # Head(waits) =>
                      \E j \in 1..Len(Tail(waits)) : Tail(waits)[j] = waits[i]
<1> DEFINE n == Len(waits)
<1>1. n \in Nat
  OBVIOUS
<1>2. ASSUME NEW x \in {Beat, Pending}
      PROVE  /\ Append(waits, x) \in Seq({Beat, Pending}) /\ Append(waits, x) # <<>>
             /\ \E i \in 1..Len(Append(waits, x)) : Append(waits, x)[i] = x
             /\ \A i \in 1..Len(waits) : i \in 1..Len(Append(waits, x)) /\ Append(waits, x)[i] = waits[i]
  <2> DEFINE longer == Append(waits, x)
  <2>1. /\ longer \in Seq({Beat, Pending}) /\ Len(longer) = n + 1 /\ longer[n + 1] = x
        /\ \A i \in 1..n : longer[i] = waits[i]
    OBVIOUS
  <2> HIDE DEF longer
  <2>2. longer # <<>> /\ n + 1 \in 1..Len(longer) /\ \A i \in 1..n : i \in 1..Len(longer)
    BY <1>1, <2>1
  <2> QED
    BY <2>1, <2>2 DEF longer
<1>3. ASSUME waits # <<>>
      PROVE  /\ Tail(waits) \in Seq({Beat, Pending})
             /\ \A i \in 1..Len(waits) : waits[i] # Head(waits) =>
                   \E j \in 1..Len(Tail(waits)) : Tail(waits)[j] = waits[i]
  <2>1. /\ Tail(waits) \in Seq({Beat, Pending}) /\ Len(Tail(waits)) = n - 1 /\ Head(waits) = waits[1]
        /\ \A i \in 1..(n - 1) : Tail(waits)[i] = waits[i + 1]
    BY <1>3
  <2>2. ASSUME NEW i \in 1..n, waits[i] # Head(waits)
        PROVE  \E j \in 1..Len(Tail(waits)) : Tail(waits)[j] = waits[i]
    <3>1. i - 1 \in 1..(n - 1) /\ (i - 1) + 1 = i
      BY <1>1, <2>1, <2>2
    <3> QED
      BY <2>1, <3>1
  <2> QED
    BY <2>1, <2>2
<1> QED
  BY <1>2, <1>3

-----------------------------------------------------------------------------
(* The steps *)

(* A step of one process that keeps its owner id and renews no lease but its own keeps the
   invariant, if it keeps what is said of a prompt process; so does one that writes a row
   under its lease. *)
LEMMA StorageStep ==
    ASSUME LeaseInv, NEW p \in Processes, storages[p] # None, NEW new \in StorageType,
           storages' = [storages EXCEPT ![p] = new], owners' = owners,
           new.owner = storages[p].owner, new.fence = storages[p].fence,
           \/ lease' = lease
           \/ Owned(storages[p]) /\ lease' = [lease EXCEPT !.left = TTL],
           \/ authors' = authors
           \/ Owned(storages[p]) /\ authors' = Append(authors, storages[p].owner),
           p \in Prompt => Keeps(new)'
    PROVE  LeaseInv'
<1>1. LeaseTypeOK /\ OwnersDiffer /\ AuthorsAreEarlier /\ WritersDoNotInterleave /\ PromptKeep
  BY DEF LeaseInv
<1>2. storages \in [Processes -> {None} \cup StorageType] /\ storages[p] \in StorageType
  BY <1>1 DEF LeaseTypeOK
<1>3. /\ lease' \in {None} \cup LeaseType
      /\ lease = None => lease' = None
      /\ lease # None => /\ lease \in LeaseType /\ lease' \in LeaseType
                         /\ lease' # None /\ lease'.owner = lease.owner /\ lease'.fence = lease.fence
                         /\ \/ lease'.left = lease.left
                            \/ lease'.left = TTL /\ Owned(storages[p])
  <2>1. CASE lease' = lease
    BY <1>1, <2>1 DEF LeaseTypeOK
  <2>2. CASE Owned(storages[p]) /\ lease' = [lease EXCEPT !.left = TTL]
    <3>1. lease # None /\ lease \in LeaseType /\ TTL \in Nat
      BY <1>1, <2>2, LeaseAssumption DEF Owned, LeaseTypeOK
    <3>2. lease' \in LeaseType /\ lease'.owner = lease.owner /\ lease'.fence = lease.fence /\ lease'.left = TTL
      BY <2>2, <3>1 DEF LeaseType
    <3> QED
      BY <2>2, <3>1, <3>2, NoneAssumption DEF LeaseType
  <2> QED
    BY <2>1, <2>2
<1>4. authors' \in Seq(Nat) /\ Len(authors) \in Nat
  <2>1. storages[p].owner \in Nat
    BY <1>2 DEF StorageType
  <2>2. authors \in Seq(Nat)
    BY <1>1 DEF LeaseTypeOK
  <2> QED
    BY <2>1, <2>2
<1>5. LeaseTypeOK'
  BY <1>1, <1>2, <1>3, <1>4 DEF LeaseTypeOK
<1>6. OwnersDiffer'
  BY <1>1, <1>2, <1>3 DEF OwnersDiffer
<1>7. AuthorsAreEarlier' /\ WritersDoNotInterleave'
  <2>1. CASE authors' = authors
    BY <1>1, <1>3, <2>1 DEF AuthorsAreEarlier, WritersDoNotInterleave
  <2>2. CASE Owned(storages[p]) /\ authors' = Append(authors, storages[p].owner)
    <3> DEFINE n == Len(authors)
    <3>1. /\ lease # None /\ lease' # None /\ lease.owner = storages[p].owner /\ lease'.owner = lease.owner
          /\ lease.owner \in Nat /\ lease.owner <= owners
      BY <1>1, <1>3, <2>2 DEF Owned, OwnersDiffer, LeaseType
    <3>2. /\ Len(authors') = n + 1 /\ authors'[n + 1] = lease.owner /\ DOMAIN authors' = 1..(n + 1)
          /\ \A i \in 1..n : authors'[i] = authors[i] /\ authors[i] \in Nat
      BY <1>1, <2>2, <3>1 DEF LeaseTypeOK
    <3>3. /\ DOMAIN authors = 1..n /\ \A i \in 1..n : authors[i] <= owners /\ authors[i] <= lease.owner
      BY <1>1, <3>1 DEF AuthorsAreEarlier, LeaseTypeOK
    <3>4. \A i \in 1..(n + 1) : i \in 1..n \/ i = n + 1
      BY <1>4
    <3>5. AuthorsAreEarlier'
      BY <3>1, <3>2, <3>3, <3>4 DEF AuthorsAreEarlier
    <3>6. WritersDoNotInterleave'
      <4> SUFFICES ASSUME NEW i \in 1..(n + 1), NEW j \in 1..(n + 1), i < j
                   PROVE  authors'[i] <= authors'[j]
        BY <3>2 DEF WritersDoNotInterleave
      <4>1. i \in 1..n
        BY <1>4
      <4>2. CASE j \in 1..n
        BY <1>1, <3>2, <3>3, <4>1, <4>2 DEF WritersDoNotInterleave
      <4>3. CASE j = n + 1
        BY <3>2, <3>3, <4>1, <4>3
      <4> QED
        BY <3>4, <4>2, <4>3
    <3> QED
      BY <3>5, <3>6
  <2> QED
    BY <2>1, <2>2
<1>8. PromptKeep'
  <2> SUFFICES ASSUME NEW q \in Prompt, storages'[q] # None PROVE Keeps(storages[q])'
    BY DEF PromptKeep
  <2>1. q \in Processes
    BY PromptAssumption
  <2>2. CASE q = p
    BY <1>2, <2>2
  <2>3. CASE q # p
    <3>1. storages'[q] = storages[q] /\ Keeps(storages[q]) /\ storages[q] \in StorageType
      BY <1>1, <1>2, <2>1, <2>3 DEF PromptKeep, LeaseTypeOK
    <3>2. Renewable(storages[q]) => lease'.left = lease.left /\ Renewable(storages[q])'
      BY <1>1, <1>2, <1>3, <2>1, <2>3, <3>1 DEF Renewable, Owned, OwnersDiffer
    <3>3. BeatsInTime(storages[q]) /\ ~storages[q].closing => BeatsInTime(storages[q])'
      BY <3>1, <3>2 DEF BeatsInTime, BeatWaits, Keeps
    <3> QED
      BY <3>1, <3>2, <3>3 DEF Keeps
  <2> QED
    BY <2>2, <2>3
<1> QED
  BY <1>5, <1>6, <1>7, <1>8 DEF LeaseInv

(* The lease that a storage owns stays its own, with no less time, when it is renewed. *)
LEMMA LeaseStaysOwned ==
    ASSUME LeaseInv, NEW p \in Processes, storages[p] # None, NEW new \in StorageType,
           new.owner = storages[p].owner, new.fence = storages[p].fence,
           \/ lease' = lease
           \/ Renewable(storages[p]) /\ lease' = [lease EXCEPT !.left = TTL]
    PROVE  /\ Renewable(storages[p]) => Renewable(new)'
           /\ Renewable(storages[p]) =>
                \A t \in 0..Interval : lease.left > t => lease'.left > t
<1>1. CASE lease' = lease
  BY <1>1 DEF Renewable, Owned
<1>2. CASE Renewable(storages[p]) /\ lease' = [lease EXCEPT !.left = TTL]
  <2>1. lease # None /\ lease \in LeaseType /\ TTL \in Nat /\ Interval \in Nat /\ Interval < TTL /\ TTL > 0
    BY <1>2, LeaseAssumption DEF Renewable, Owned, LeaseInv, LeaseTypeOK
  <2>2. lease' \in LeaseType /\ lease'.owner = lease.owner /\ lease'.fence = lease.fence /\ lease'.left = TTL
    BY <1>2, <2>1 DEF LeaseType
  <2>3. lease' # None
    BY <2>2, NoneAssumption DEF LeaseType
  <2>4. Renewable(new)'
    BY <1>2, <2>1, <2>2, <2>3 DEF Renewable, Owned
  <2>5. \A t \in 0..Interval : lease'.left > t
    BY <2>1, <2>2
  <2> QED
    BY <2>4, <2>5
<1> QED
  BY <1>1, <1>2

(* A step that leaves the heartbeat of a storage alone. *)
LEMMA KeepsStep ==
    ASSUME LeaseInv, NEW p \in Processes, storages[p] # None, NEW new \in StorageType,
           new.owner = storages[p].owner, new.fence = storages[p].fence,
           new.lost = storages[p].lost, new.closing = storages[p].closing, new.timer = storages[p].timer,
           \/ lease' = lease
           \/ Renewable(storages[p]) /\ lease' = [lease EXCEPT !.left = TTL],
           storages[p].closing /\ new.queue # <<>> => storages[p].queue # <<>>,
           BeatWaits(storages[p]) => BeatWaits(new)
    PROVE  p \in Prompt => Keeps(new)'
<1> SUFFICES ASSUME p \in Prompt PROVE Keeps(new)'
  OBVIOUS
<1>1. Keeps(storages[p])
  BY DEF LeaseInv, PromptKeep
<1>2. /\ Renewable(storages[p]) => Renewable(new)'
      /\ Renewable(storages[p]) => \A t \in 0..Interval : lease.left > t => lease'.left > t
  BY LeaseStaysOwned
<1>3. new.timer = None \/ new.timer \in 0..Interval
  BY DEF StorageType
<1>4. ~new.closing \/ new.queue # <<>> => Renewable(new)'
  BY <1>1, <1>2 DEF Keeps
<1>5. ~new.closing => BeatsInTime(new)'
  BY <1>1, <1>2, <1>3 DEF Keeps, BeatsInTime, BeatWaits
<1> QED
  BY <1>1, <1>4, <1>5 DEF Keeps

(* A call joins the queue. *)
LEMMA EnqueueWriteKeepsLease == ASSUME LeaseInv, NEW p \in Processes, EnqueueWrite(p) PROVE LeaseInv'
<1> DEFINE s == storages[p]
           made == [s EXCEPT !.queue = Append(@, Pending)]
<1>1. /\ s # None /\ ~s.closing /\ s \in StorageType /\ s.queue \in Seq({Beat, Pending})
      /\ UNCHANGED <<lease, owners, authors>>
  BY DEF EnqueueWrite, tables, LeaseInv, LeaseTypeOK, StorageType
<1>2. storages' = [storages EXCEPT ![p] = made]
  BY DEF EnqueueWrite, LeaseInv, LeaseTypeOK
<1>3. /\ Append(s.queue, Pending) \in Seq({Beat, Pending})
      /\ \A i \in 1..Len(s.queue) : /\ i \in 1..Len(Append(s.queue, Pending))
                                    /\ Append(s.queue, Pending)[i] = s.queue[i]
  BY <1>1, QueueFacts
<1>4. PICK new \in StorageType : /\ new = made
                                 /\ new.queue = Append(s.queue, Pending) /\ new.owner = s.owner /\ new.fence = s.fence
                                 /\ new.lost = s.lost /\ new.closing = s.closing /\ new.timer = s.timer
  <2>1. /\ made \in StorageType
        /\ made.queue = Append(s.queue, Pending) /\ made.owner = s.owner /\ made.fence = s.fence
        /\ made.lost = s.lost /\ made.closing = s.closing /\ made.timer = s.timer
    BY <1>1, <1>3 DEF StorageType
  <2> HIDE DEF made
  <2> QED
    BY <2>1
<1>5. BeatWaits(s) => BeatWaits(new)
  BY <1>3, <1>4 DEF BeatWaits
<1>6. p \in Prompt => Keeps(new)'
  BY <1>1, <1>4, <1>5, KeepsStep
<1> QED
  BY <1>1, <1>2, <1>4, <1>6, StorageStep

(* When the timer fires, a heartbeat waits. *)
LEMMA FireKeepsLease == ASSUME LeaseInv, NEW p \in Processes, Fire(p) PROVE LeaseInv'
<1> DEFINE s == storages[p]
           made == [s EXCEPT !.queue = Append(@, Beat), !.timer = None]
<1>1. /\ s # None /\ ~s.closing /\ s \in StorageType /\ s.queue \in Seq({Beat, Pending})
      /\ UNCHANGED <<lease, owners, authors>>
  BY DEF Fire, tables, LeaseInv, LeaseTypeOK, StorageType
<1>2. storages' = [storages EXCEPT ![p] = made]
  BY DEF Fire, LeaseInv, LeaseTypeOK
<1>3. /\ Append(s.queue, Beat) \in Seq({Beat, Pending})
      /\ \E i \in 1..Len(Append(s.queue, Beat)) : Append(s.queue, Beat)[i] = Beat
  BY <1>1, QueueFacts
<1>4. PICK new \in StorageType : /\ new = made
                                 /\ new.queue = Append(s.queue, Beat) /\ new.owner = s.owner /\ new.fence = s.fence
                                 /\ new.lost = s.lost /\ new.closing = s.closing /\ new.timer = None
  <2>1. /\ made \in StorageType
        /\ made.queue = Append(s.queue, Beat) /\ made.owner = s.owner /\ made.fence = s.fence
        /\ made.lost = s.lost /\ made.closing = s.closing /\ made.timer = None
    BY <1>1, <1>3 DEF StorageType
  <2> HIDE DEF made
  <2> QED
    BY <2>1
<1>5. BeatWaits(new)
  BY <1>3, <1>4 DEF BeatWaits
<1>6. p \in Prompt => Keeps(new)'
  <2> SUFFICES ASSUME p \in Prompt PROVE Keeps(new)'
    OBVIOUS
  <2>1. Keeps(s)
    BY <1>1 DEF LeaseInv, PromptKeep
  <2>2. Renewable(new)'
    BY <1>1, <1>4, <2>1 DEF Keeps, Renewable, Owned
  <2>3. BeatsInTime(new)'
    BY <1>4, <1>5 DEF BeatsInTime, BeatWaits
  <2> QED
    BY <1>4, <2>1, <2>2, <2>3 DEF Keeps
<1> QED
  BY <1>1, <1>2, <1>4, <1>6, StorageStep

(* The head leaves the queue: a heartbeat that waits behind it waits on. *)
LEMMA WriteKeepsLease ==
    ASSUME LeaseInv, NEW p \in Processes, RefuseWrite(p) \/ \E c \in Calls : Write(p, c)
    PROVE  LeaseInv'
<1> DEFINE s == storages[p]
           made == [s EXCEPT !.queue = Tail(@)]
<1>1. /\ s # None /\ s.queue # <<>> /\ Head(s.queue) = Pending
      /\ storages' = TakeHead(p) /\ owners' = owners
      /\ \/ lease' = lease
         \/ Renewable(s) /\ lease' = [lease EXCEPT !.left = TTL]
      /\ \/ authors' = authors
         \/ Renewable(s) /\ authors' = Append(authors, s.owner)
  BY DEF RefuseWrite, Write, AtHead, tables
<1>2. /\ s \in StorageType /\ s.queue \in Seq({Beat, Pending})
      /\ storages' = [storages EXCEPT ![p] = made]
  BY <1>1 DEF LeaseInv, LeaseTypeOK, StorageType, TakeHead
<1>3. /\ Tail(s.queue) \in Seq({Beat, Pending})
      /\ \A i \in 1..Len(s.queue) : s.queue[i] # Pending =>
            \E j \in 1..Len(Tail(s.queue)) : Tail(s.queue)[j] = s.queue[i]
  BY <1>1, <1>2, QueueFacts
<1>4. PICK new \in StorageType : /\ new = made
                                 /\ new.queue = Tail(s.queue) /\ new.owner = s.owner /\ new.fence = s.fence
                                 /\ new.lost = s.lost /\ new.closing = s.closing /\ new.timer = s.timer
  <2>1. /\ made \in StorageType
        /\ made.queue = Tail(s.queue) /\ made.owner = s.owner /\ made.fence = s.fence
        /\ made.lost = s.lost /\ made.closing = s.closing /\ made.timer = s.timer
    BY <1>2, <1>3 DEF StorageType
  <2> HIDE DEF made
  <2> QED
    BY <2>1
<1>5. BeatWaits(s) => BeatWaits(new)
  BY <1>3, <1>4 DEF BeatWaits, Beat, Pending
<1>6. p \in Prompt => Keeps(new)'
  BY <1>1, <1>4, <1>5, KeepsStep
<1> QED
  BY <1>1, <1>2, <1>4, <1>6, StorageStep DEF Renewable

(* A prompt process does not lose its lease: it owns it while anything waits. *)
LEMMA LoseKeepsLease == ASSUME LeaseInv, NEW p \in Processes, Lose(p) PROVE LeaseInv'
<1> DEFINE s == storages[p]
           made == [s EXCEPT !.queue = Tail(@), !.lost = TRUE, !.timer = None]
<1>1. /\ s # None /\ s.queue # <<>> /\ ~s.lost /\ ~Renewable(s)
      /\ UNCHANGED <<lease, owners, authors>>
  BY DEF Lose, AtHead, tables
<1>2. /\ s \in StorageType /\ s.queue \in Seq({Beat, Pending})
      /\ storages' = [storages EXCEPT ![p] = made]
  BY <1>1 DEF Lose, LeaseInv, LeaseTypeOK, StorageType, TakeHead
<1>3. /\ Tail(s.queue) \in Seq({Beat, Pending})
  BY <1>1, <1>2, QueueFacts
<1>4. PICK new \in StorageType : /\ new = made
                                 /\ new.owner = s.owner /\ new.fence = s.fence
  <2>1. /\ made \in StorageType
        /\ made.owner = s.owner /\ made.fence = s.fence
    BY <1>2, <1>3 DEF StorageType
  <2> HIDE DEF made
  <2> QED
    BY <2>1
<1>5. p \notin Prompt
  BY <1>1 DEF LeaseInv, PromptKeep, Keeps
<1> QED
  BY <1>1, <1>2, <1>4, <1>5, StorageStep

(* A heartbeat renews the lease, and the next one will be in time. *)
LEMMA RenewKeepsLease == ASSUME LeaseInv, NEW p \in Processes, Renew(p) PROVE LeaseInv'
<1> DEFINE s == storages[p]
<1>1. /\ s # None /\ s.queue # <<>> /\ owners' = owners /\ authors' = authors
      /\ s \in StorageType /\ s.queue \in Seq({Beat, Pending})
  BY DEF Renew, AtHead, tables, LeaseInv, LeaseTypeOK, StorageType
<1>2. Tail(s.queue) \in Seq({Beat, Pending})
  BY <1>1, QueueFacts
<1>3. CASE s.lost \/ s.closing
  <2> DEFINE made == [s EXCEPT !.queue = Tail(@)]
  <2>1. storages' = [storages EXCEPT ![p] = made] /\ lease' = lease
    BY <1>1, <1>3 DEF Renew, LeaseInv, LeaseTypeOK, TakeHead
  <2>2. PICK new \in StorageType : /\ new = made
                                   /\ new.queue = Tail(s.queue) /\ new.owner = s.owner /\ new.fence = s.fence
                                   /\ new.lost = s.lost /\ new.closing = s.closing /\ new.timer = s.timer
    <3>1. /\ made \in StorageType
          /\ made.queue = Tail(s.queue) /\ made.owner = s.owner /\ made.fence = s.fence
          /\ made.lost = s.lost /\ made.closing = s.closing /\ made.timer = s.timer
      BY <1>1, <1>2 DEF StorageType
    <3> HIDE DEF made
    <3> QED
      BY <3>1
  <2>3. p \in Prompt => Keeps(new)'
    <3> SUFFICES ASSUME p \in Prompt PROVE Keeps(new)'
      OBVIOUS
    <3>1. Keeps(s)
      BY <1>1 DEF LeaseInv, PromptKeep
    <3> QED
      BY <1>1, <1>3, <2>1, <2>2, <3>1 DEF Keeps, Renewable, Owned
  <2> QED
    BY <1>1, <2>1, <2>2, <2>3, StorageStep
<1>4. CASE ~(s.lost \/ s.closing)
  <2> DEFINE made == [s EXCEPT !.queue = Tail(@), !.timer = Interval]
  <2>1. /\ storages' = [storages EXCEPT ![p] = made] /\ Renewable(s)
        /\ lease' = [lease EXCEPT !.left = TTL]
    BY <1>1, <1>4 DEF Renew, LeaseInv, LeaseTypeOK, TakeHead
  <2>2. Interval \in 0..Interval /\ Interval \in Nat /\ TTL \in Nat /\ TTL > Interval
    BY LeaseAssumption
  <2>3. PICK new \in StorageType : /\ new = made
                                   /\ new.queue = Tail(s.queue) /\ new.owner = s.owner /\ new.fence = s.fence
                                   /\ new.lost = s.lost /\ new.closing = s.closing /\ new.timer = Interval
    <3>1. /\ made \in StorageType
          /\ made.queue = Tail(s.queue) /\ made.owner = s.owner /\ made.fence = s.fence
          /\ made.lost = s.lost /\ made.closing = s.closing /\ made.timer = Interval
      BY <1>1, <1>2, <2>2 DEF StorageType
    <3> HIDE DEF made
    <3> QED
      BY <3>1
  <2>4. p \in Prompt => Keeps(new)'
    <3>1. Renewable(new)'
      BY <1>1, <2>1, <2>3, LeaseStaysOwned
    <3>2. lease \in LeaseType
      BY <2>1 DEF Renewable, Owned, LeaseInv, LeaseTypeOK
    <3>3. lease'.left = TTL
      BY <2>1, <3>2 DEF LeaseType
    <3>4. BeatsInTime(new)'
      BY <2>2, <2>3, <3>3, NoneAssumption DEF BeatsInTime
    <3> QED
      BY <1>4, <2>3, <3>1, <3>4 DEF Keeps
  <2> QED
    BY <1>1, <2>1, <2>3, <2>4, StorageStep DEF Renewable
<1> QED
  BY <1>3, <1>4

(* A storage that begins to close owns its lease still. *)
LEMMA CloseKeepsLease == ASSUME LeaseInv, NEW p \in Processes, Close(p) PROVE LeaseInv'
<1> DEFINE s == storages[p]
           made == [s EXCEPT !.closing = TRUE, !.timer = None]
<1>1. /\ s # None /\ ~s.closing /\ s \in StorageType
      /\ UNCHANGED <<lease, owners, authors>>
  BY DEF Close, tables, LeaseInv, LeaseTypeOK
<1>2. storages' = [storages EXCEPT ![p] = made]
  BY DEF Close, LeaseInv, LeaseTypeOK
<1>3. PICK new \in StorageType : /\ new = made
                                 /\ new.owner = s.owner /\ new.fence = s.fence /\ new.lost = s.lost
                                 /\ new.closing
  <2>1. /\ made \in StorageType
        /\ made.owner = s.owner /\ made.fence = s.fence /\ made.lost = s.lost
        /\ made.closing
    BY <1>1 DEF StorageType
  <2> HIDE DEF made
  <2> QED
    BY <2>1
<1>4. p \in Prompt => Keeps(new)'
  <2> SUFFICES ASSUME p \in Prompt PROVE Keeps(new)'
    OBVIOUS
  <2>1. Keeps(s)
    BY <1>1 DEF LeaseInv, PromptKeep
  <2>2. Renewable(new)'
    BY <1>1, <1>3, <2>1 DEF Keeps, Renewable, Owned
  <2> QED
    BY <1>3, <2>1, <2>2 DEF Keeps
<1> QED
  BY <1>1, <1>2, <1>3, <1>4, StorageStep

(* The lease is claimed when it is nobody's or its time is over: no prompt process that has
   anything to do still loses it. *)
LEMMA NobodyPromptLoses ==
    ASSUME LeaseInv, Claimable, NEW q \in Prompt, storages[q] # None
    PROVE  /\ ~storages[q].lost /\ storages[q].closing /\ storages[q].queue = <<>>
           /\ storages' = storages \/ storages'[q] = storages[q] => Keeps(storages[q])'
<1>1. Keeps(storages[q])
  BY DEF LeaseInv, PromptKeep
<1>2. ~Renewable(storages[q])
  BY DEF Claimable, Renewable, Owned
<1>3. ~storages[q].lost /\ storages[q].closing /\ storages[q].queue = <<>>
  <2>1. storages[q] \in StorageType
    BY PromptAssumption DEF LeaseInv, LeaseTypeOK
  <2> QED
    BY <1>1, <1>2, <2>1 DEF Keeps, StorageType
<1> QED
  BY <1>3 DEF Keeps

LEMMA OpenKeepsLease == ASSUME LeaseInv, NEW p \in Processes, Open(p) PROVE LeaseInv'
<1>1. LeaseTypeOK /\ OwnersDiffer /\ AuthorsAreEarlier /\ WritersDoNotInterleave /\ PromptKeep
  BY DEF LeaseInv
<1>2. /\ storages[p] = None /\ Claimable /\ lease' = Claimed /\ owners' = owners + 1
      /\ storages' = [storages EXCEPT ![p] = NewStorage] /\ authors' = authors
  BY DEF Open, tables
<1>3. /\ storages \in [Processes -> {None} \cup StorageType] /\ owners \in Nat
      /\ TTL \in Nat /\ Interval \in Nat /\ Interval > 0 /\ Interval < TTL
  BY <1>1, LeaseAssumption DEF LeaseTypeOK
<1>4. /\ Claimed \in LeaseType /\ Claimed.owner = owners + 1 /\ Claimed.left = TTL
      /\ Claimed # None
  <2> DEFINE fence == IF lease = None THEN 1 ELSE lease.fence + 1
  <2>1. fence \in Nat
    BY <1>1 DEF LeaseTypeOK, LeaseType
  <2>2. owners + 1 \in Nat
    BY <1>3
  <2>3. Claimed = [owner |-> owners + 1, fence |-> fence, left |-> TTL]
    BY DEF Claimed
  <2> HIDE DEF fence
  <2>4. Claimed \in LeaseType /\ Claimed.owner = owners + 1 /\ Claimed.left = TTL
    BY <1>3, <2>1, <2>2, <2>3 DEF LeaseType
  <2> QED
    BY <2>4, NoneAssumption DEF LeaseType
<1>5. PICK new \in StorageType : /\ new = NewStorage /\ new.owner = Claimed.owner
                                 /\ new.fence = Claimed.fence /\ ~new.lost /\ new.timer = Interval
  <2>1. /\ NewStorage \in StorageType /\ NewStorage.owner = Claimed.owner
        /\ NewStorage.fence = Claimed.fence /\ ~NewStorage.lost /\ NewStorage.timer = Interval
    <3>1. /\ Claimed.owner \in Nat /\ Claimed.fence \in Nat /\ Interval \in 0..Interval
          /\ <<>> \in Seq({Beat, Pending})
      BY <1>3, <1>4 DEF LeaseType
    <3> QED
      BY <3>1 DEF NewStorage, StorageType
  <2> QED
    BY <2>1
<1>6. storages' = [storages EXCEPT ![p] = new]
  BY <1>2, <1>5
<1>7. LeaseTypeOK'
  BY <1>1, <1>2, <1>3, <1>4, <1>6 DEF LeaseTypeOK
<1>8. OwnersDiffer'
  <2>1. \A q \in Processes : q # p /\ storages'[q] # None =>
           storages'[q] = storages[q] /\ storages[q].owner <= owners /\ storages[q].owner \in Nat
    BY <1>1, <1>3, <1>6 DEF OwnersDiffer, StorageType
  <2>2. storages'[p] = new /\ new.owner = owners + 1 /\ lease'.owner = owners + 1
    BY <1>2, <1>3, <1>4, <1>5, <1>6
  <2>3. \A q \in Processes : storages'[q] # None => storages'[q].owner <= owners'
    BY <1>2, <1>3, <2>1, <2>2
  <2>4. ASSUME NEW q \in Processes, NEW r \in Processes, storages'[q] # None, storages'[r] # None,
               storages'[q].owner = storages'[r].owner
        PROVE  q = r
    <3>1. q = p <=> r = p
      BY <1>3, <2>1, <2>2, <2>4
    <3> QED
      BY <1>1, <2>1, <2>4, <3>1 DEF OwnersDiffer
  <2> QED
    BY <1>2, <1>3, <2>2, <2>3, <2>4 DEF OwnersDiffer
<1>9. AuthorsAreEarlier' /\ WritersDoNotInterleave'
  <2>1. \A i \in 1..Len(authors) : authors[i] \in Nat /\ authors[i] <= owners
    BY <1>1 DEF AuthorsAreEarlier, LeaseTypeOK
  <2> QED
    BY <1>1, <1>2, <1>3, <1>4, <2>1 DEF AuthorsAreEarlier, WritersDoNotInterleave
<1>10. PromptKeep'
  <2> SUFFICES ASSUME NEW q \in Prompt, storages'[q] # None PROVE Keeps(storages[q])'
    BY DEF PromptKeep
  <2>1. q \in Processes
    BY PromptAssumption
  <2>2. CASE q = p
    <3>1. storages'[q] = new
      BY <1>3, <1>6, <2>2
    <3>2. Renewable(new)'
      BY <1>2, <1>3, <1>4, <1>5 DEF Renewable, Owned
    <3>3. BeatsInTime(new)'
      BY <1>2, <1>3, <1>4, <1>5, NoneAssumption DEF BeatsInTime
    <3> QED
      BY <1>5, <3>1, <3>2, <3>3 DEF Keeps
  <2>3. CASE q # p
    <3>1. storages'[q] = storages[q]
      BY <1>3, <1>6, <2>1, <2>3
    <3> QED
      BY <1>2, <3>1, NobodyPromptLoses DEF Keeps
  <2> QED
    BY <2>2, <2>3
<1> QED
  BY <1>7, <1>8, <1>9, <1>10 DEF LeaseInv

LEMMA RepairKeepsLease == ASSUME LeaseInv, NEW p \in Processes, RepairCache(p) PROVE LeaseInv'
<1>1. LeaseTypeOK /\ OwnersDiffer /\ AuthorsAreEarlier /\ WritersDoNotInterleave /\ PromptKeep
  BY DEF LeaseInv
<1>2. /\ Claimable /\ lease' = None /\ owners' = owners + 1
      /\ UNCHANGED <<storages, authors>>
  BY DEF RepairCache
<1>3. owners \in Nat /\ \A q \in Processes : storages[q] # None => storages[q].owner \in Nat
  BY <1>1 DEF LeaseTypeOK, StorageType
<1>4. LeaseTypeOK' /\ OwnersDiffer'
  BY <1>1, <1>2, <1>3 DEF LeaseTypeOK, OwnersDiffer
<1>5. AuthorsAreEarlier' /\ WritersDoNotInterleave'
  BY <1>1, <1>2, <1>3 DEF LeaseTypeOK, AuthorsAreEarlier, WritersDoNotInterleave
<1>6. PromptKeep'
  BY <1>2, NobodyPromptLoses DEF PromptKeep, Keeps
<1> QED
  BY <1>4, <1>5, <1>6 DEF LeaseInv

(* A process that releases the session, or dies, takes no lease but its own with it. *)
LEMMA LeavesKeepsLease == ASSUME LeaseInv, NEW p \in Processes, Release(p) \/ ProcessCrash(p) PROVE LeaseInv'
<1>1. LeaseTypeOK /\ OwnersDiffer /\ AuthorsAreEarlier /\ WritersDoNotInterleave /\ PromptKeep
  BY DEF LeaseInv
<1>2. /\ storages[p] # None /\ storages' = [storages EXCEPT ![p] = None]
      /\ lease' = lease \/ (lease' = None /\ Owned(storages[p]))
      /\ UNCHANGED <<owners, authors>>
  BY DEF Release, ProcessCrash, tables
<1>3. storages \in [Processes -> {None} \cup StorageType]
  BY <1>1 DEF LeaseTypeOK
<1>4. \A q \in Processes : storages'[q] # None => q # p /\ storages'[q] = storages[q]
  BY <1>2, <1>3
<1>5. LeaseTypeOK'
  BY <1>1, <1>2, <1>3 DEF LeaseTypeOK
<1>6. OwnersDiffer'
  BY <1>1, <1>2, <1>4 DEF OwnersDiffer
<1>7. AuthorsAreEarlier' /\ WritersDoNotInterleave'
  BY <1>1, <1>2 DEF AuthorsAreEarlier, WritersDoNotInterleave
<1>8. PromptKeep'
  <2> SUFFICES ASSUME NEW q \in Prompt, storages'[q] # None PROVE Keeps(storages[q])'
    BY DEF PromptKeep
  <2>1. q \in Processes /\ q # p /\ storages'[q] = storages[q] /\ storages[q] # None
    BY <1>4, PromptAssumption
  <2>2. Keeps(storages[q])
    BY <1>1, <2>1 DEF PromptKeep
  <2>3. Renewable(storages[q]) => lease' = lease
    BY <1>1, <1>2, <2>1 DEF Renewable, Owned, OwnersDiffer
  <2> QED
    BY <2>1, <2>2, <2>3 DEF Keeps, Renewable, Owned, BeatsInTime, BeatWaits
<1> QED
  BY <1>5, <1>6, <1>7, <1>8 DEF LeaseInv

(* Time passes when no prompt process has anything to do: its timer has some time left, and
   its lease more. *)
LEMMA TickKeepsLease == ASSUME LeaseInv, Tick PROVE LeaseInv'
<1>1. LeaseTypeOK /\ OwnersDiffer /\ AuthorsAreEarlier /\ WritersDoNotInterleave /\ PromptKeep
  BY DEF LeaseInv
<1> DEFINE left == Down(lease.left)
           later(s) == [s EXCEPT !.timer = IF s.timer = None THEN None ELSE Down(s.timer)]
<1>2. /\ storages \in [Processes -> {None} \cup StorageType]
      /\ storages' = [p \in Processes |-> IF storages[p] = None THEN None ELSE later(storages[p])]
      /\ UNCHANGED <<owners, authors>> /\ \A p \in Prompt : ~Due(p)
  BY <1>1 DEF Tick, tables, LeaseTypeOK
<1>3. ASSUME NEW s \in StorageType
      PROVE  /\ later(s) \in StorageType /\ later(s).owner = s.owner /\ later(s).fence = s.fence
             /\ later(s).lost = s.lost /\ later(s).closing = s.closing /\ later(s).queue = s.queue
             /\ later(s).timer = IF s.timer = None THEN None ELSE Down(s.timer)
  <2> DEFINE timer == IF s.timer = None THEN None ELSE Down(s.timer)
  <2>1. timer \in {None} \cup 0..Interval
    BY LeaseAssumption DEF StorageType, Down
  <2> HIDE DEF timer
  <2>2. later(s) = [s EXCEPT !.timer = timer]
    BY DEF timer
  <2>3. /\ later(s) \in StorageType /\ later(s).owner = s.owner /\ later(s).fence = s.fence
        /\ later(s).lost = s.lost /\ later(s).closing = s.closing /\ later(s).queue = s.queue
        /\ later(s).timer = timer
    BY <2>1, <2>2 DEF StorageType
  <2> QED
    BY <2>3 DEF timer
<1>4. /\ lease = None => lease' = None
      /\ lease # None => /\ lease \in LeaseType /\ lease' \in LeaseType /\ lease' # None
                         /\ lease'.owner = lease.owner /\ lease'.fence = lease.fence /\ lease'.left = left
  <2>1. CASE lease = None
    BY <2>1 DEF Tick
  <2>2. CASE lease # None
    <3>1. lease \in LeaseType /\ left \in Nat
      BY <1>1, <2>2 DEF LeaseTypeOK, LeaseType, Down
    <3>2. lease' = [lease EXCEPT !.left = left]
      BY <2>2, <3>1 DEF Tick, LeaseType
    <3> HIDE DEF left
    <3>3. lease' \in LeaseType /\ lease'.owner = lease.owner /\ lease'.fence = lease.fence /\ lease'.left = left
      BY <3>1, <3>2 DEF LeaseType
    <3> QED
      BY <2>2, <3>1, <3>3, NoneAssumption DEF LeaseType
  <2> QED
    BY <2>1, <2>2
<1> HIDE DEF later
<1>5. ASSUME NEW p \in Processes, storages'[p] # None
      PROVE  storages[p] # None /\ storages[p] \in StorageType /\ storages'[p] = later(storages[p])
  BY <1>2, <1>5
<1>6. LeaseTypeOK'
  <2>1. storages' \in [Processes -> {None} \cup StorageType]
    BY <1>2, <1>3
  <2>2. lease' \in {None} \cup LeaseType
    BY <1>4
  <2> QED
    BY <1>1, <1>2, <2>1, <2>2 DEF LeaseTypeOK
<1>7. OwnersDiffer'
  BY <1>1, <1>2, <1>3, <1>4, <1>5 DEF OwnersDiffer
<1>8. AuthorsAreEarlier' /\ WritersDoNotInterleave'
  BY <1>1, <1>2, <1>4 DEF AuthorsAreEarlier, WritersDoNotInterleave
<1>9. PromptKeep'
  <2> SUFFICES ASSUME NEW q \in Prompt, storages'[q] # None PROVE Keeps(storages[q])'
    BY DEF PromptKeep
  <2>1. /\ q \in Processes /\ storages[q] # None /\ storages[q] \in StorageType
        /\ storages'[q] = later(storages[q])
    BY <1>5, PromptAssumption
  <2>2. PICK new \in StorageType : new = later(storages[q])
    BY <1>3, <2>1
  <2>3. /\ Keeps(storages[q]) /\ storages[q].queue = <<>> /\ storages[q].timer # 0
    BY <1>1, <1>2, <2>1 DEF PromptKeep, Due
  <2>4. /\ ~new.lost /\ new.queue = <<>> /\ new.closing = storages[q].closing
        /\ new.owner = storages[q].owner /\ new.fence = storages[q].fence
    BY <1>3, <2>1, <2>2, <2>3 DEF Keeps
  <2>5. CASE storages[q].closing
    BY <2>1, <2>2, <2>4, <2>5 DEF Keeps
  <2>6. CASE ~storages[q].closing
    <3>1. Renewable(storages[q]) /\ BeatsInTime(storages[q]) /\ ~BeatWaits(storages[q])
      BY <2>3, <2>6 DEF Keeps, BeatWaits
    <3>2. storages[q].timer \in 1..Interval /\ storages[q].timer # None /\ lease.left > storages[q].timer
      BY <2>1, <2>3, <3>1 DEF BeatsInTime, StorageType
    <3>3. new.timer = storages[q].timer - 1
      BY <1>3, <2>1, <2>2, <3>2 DEF Down
    <3>4. lease # None /\ lease \in LeaseType /\ lease.left \in Nat
      BY <1>1, <3>1 DEF Renewable, Owned, LeaseTypeOK, LeaseType
    <3>5. lease'.left = lease.left - 1 /\ lease'.left > new.timer /\ new.timer # None /\ lease'.left > 0
      <4>1. Interval \in Nat
        BY LeaseAssumption
      <4>2. new.timer \in Nat
        BY <3>2, <3>3, <4>1
      <4> QED
        BY <1>4, <3>2, <3>3, <3>4, <4>1, <4>2, NoneAssumption DEF Down
    <3>6. Renewable(new)'
      BY <1>4, <2>4, <3>1, <3>4, <3>5 DEF Renewable, Owned
    <3>7. BeatsInTime(new)'
      BY <3>5 DEF BeatsInTime
    <3> QED
      BY <2>1, <2>2, <2>4, <3>6, <3>7 DEF Keeps
  <2> QED
    BY <2>5, <2>6
<1> QED
  BY <1>6, <1>7, <1>8, <1>9 DEF LeaseInv

-----------------------------------------------------------------------------
(* The specification *)

LEMMA InitKeepsLease == ASSUME SqliteInit PROVE LeaseInv
<1>1. LeaseTypeOK
  BY DEF SqliteInit, LeaseTypeOK
<1>2. OwnersDiffer /\ PromptKeep
  BY PromptAssumption DEF SqliteInit, OwnersDiffer, PromptKeep
<1>3. AuthorsAreEarlier /\ WritersDoNotInterleave
  BY DEF SqliteInit, AuthorsAreEarlier, WritersDoNotInterleave
<1> QED
  BY <1>1, <1>2, <1>3 DEF LeaseInv

LEMMA NextKeepsLease == ASSUME LeaseInv, [SqliteNext]_sqliteVars PROVE LeaseInv'
<1>1. CASE UNCHANGED <<authors, lease, owners, storages>>
  BY <1>1 DEF LeaseInv, LeaseTypeOK, OwnersDiffer, AuthorsAreEarlier, WritersDoNotInterleave, PromptKeep,
     Keeps, Renewable, Owned, BeatsInTime, BeatWaits
<1>2. CASE ForkEntries \/ ForkLanes \/ ForkWrites \/ UNCHANGED sqliteVars
  BY <1>1, <1>2 DEF ForkEntries, ForkLanes, ForkWrites, sqliteVars, tables
<1>3. ASSUME NEW p \in Processes,
             \/ Open(p) \/ EnqueueWrite(p) \/ Fire(p) \/ \E c \in Calls : Write(p, c)
             \/ RefuseWrite(p) \/ Lose(p) \/ Renew(p) \/ Close(p) \/ Release(p) \/ ProcessCrash(p) \/ RepairCache(p)
      PROVE  LeaseInv'
  BY <1>3, OpenKeepsLease, EnqueueWriteKeepsLease, FireKeepsLease, WriteKeepsLease, LoseKeepsLease, RenewKeepsLease, CloseKeepsLease, LeavesKeepsLease, RepairKeepsLease
<1> QED
  BY <1>2, <1>3, TickKeepsLease DEF SqliteNext

(* However many processes open, close, crash and sleep, and whenever they wake, the rows of
   one owner are never among those of a later one (renewWriterLease, storage/writer-leases.ts). *)
THEOREM TheFenceHolds == SqliteSpec => []WritersDoNotInterleave
<1>1. SqliteInit => LeaseInv
  BY InitKeepsLease
<1>2. LeaseInv /\ [SqliteNext]_sqliteVars => LeaseInv'
  BY NextKeepsLease
<1>3. LeaseInv => WritersDoNotInterleave
  BY DEF LeaseInv
<1> QED
  BY <1>1, <1>2, <1>3, PTL DEF SqliteSpec

(* A process whose timers fire in time keeps its lease, whatever the others do, for any
   interval of the heartbeat shorter than the lease (scheduleHeartbeat, sqlite/repo.ts). *)
THEOREM HeartbeatsKeepTheLease == SqliteSpec => []PromptWritersKeepTheirLease
<1>1. SqliteInit => LeaseInv
  BY InitKeepsLease
<1>2. LeaseInv /\ [SqliteNext]_sqliteVars => LeaseInv'
  BY NextKeepsLease
<1>3. LeaseInv => PromptWritersKeepTheirLease
  BY DEF LeaseInv, PromptKeep, Keeps, PromptWritersKeepTheirLease
<1> QED
  BY <1>1, <1>2, <1>3, PTL DEF SqliteSpec

-----------------------------------------------------------------------------
(* The lanes table and the log *)

LaneRows(table) ==
    \A l \in DOMAIN table : table[l] = [leaf |-> table[l].leaf, open |-> table[l].open]
OpenRows(table) ==
    {[lane |-> l, id |-> table[l].open] : l \in {k \in DOMAIN table : table[k].open # None}}

(* The table shows the lanes and the open operations of a state. *)
Shows(table, s) ==
    /\ LaneRows(table)
    /\ s.lanes = [l \in DOMAIN table |-> table[l].leaf]
    /\ s.open = OpenRows(table)

RowsInv ==
    /\ \E S : log \in Seq(S)
    /\ Sound(Replay(log)) /\ Shows(lanes, Replay(log))

(* What the checks of a call read is the replay of the log. *)
LEMMA RowsAreTheReplay == ASSUME RowsInv PROVE Rows = Replay(log)
<1> DEFINE s == Replay(log)
<1>1. /\ IsState(s) /\ s.lanes = [l \in DOMAIN lanes |-> lanes[l].leaf] /\ s.open = OpenRows(lanes)
  BY DEF RowsInv, Sound, Shows
<1>2. Rows = [s EXCEPT !.lanes = [l \in DOMAIN lanes |-> lanes[l].leaf], !.open = OpenRows(lanes)]
  BY DEF Rows, OpenRows
<1> HIDE DEF s
<1>3. Rows = [s EXCEPT !.lanes = s.lanes, !.open = s.open]
  BY <1>1, <1>2
<1>4. [s EXCEPT !.lanes = s.lanes, !.open = s.open] = s
  BY <1>1 DEF IsState
<1> QED
  BY <1>3, <1>4 DEF s

(* The table follows the log. *)
LEMMA TableFollows ==
    ASSUME NEW s, Sound(s), Shows(lanes, s), NEW c \in Calls, Admits(s, c)
    PROVE  Shows(LanesAfter(MutationOf(s, c)), Apply(s, MutationOf(s, c)))
<1> DEFINE m == MutationOf(s, c)
           t == Apply(s, m)
           after == LanesAfter(m)
<1> SUFFICES Shows(after, t)
  OBVIOUS
<1>1. WellFormed(c)
  BY CallsAssumption
<1>2. /\ m.seq = s.seq + 1
      /\ m.kind = IF c.kind \in {"create", "move"} THEN "lane" ELSE c.kind
      /\ c.kind \in {"entry", "record"} => m.id = c.id /\ m.lane = c.lane /\ m.type = c.type
      /\ c.kind = "entry" => m.parent = s.lanes[c.lane]
      /\ c.kind \in {"create", "move"} => m.lane = c.lane /\ m.leaf = c.leaf
      /\ c.kind = "label" => m.id = c.id
  BY <1>1, MutationFields
<1> HIDE DEF m
<1>3. /\ IsState(s) /\ OneOpen(s) /\ LaneRows(lanes)
      /\ s.lanes = [l \in DOMAIN lanes |-> lanes[l].leaf] /\ s.open = OpenRows(lanes)
  BY DEF Sound, Shows
<1>4. CASE c.kind = "entry"
  <2>1. t = ApplyEntry(s, m) /\ m.lane # NoLane /\ m.lane \in DOMAIN lanes
    BY <1>1, <1>2, <1>3, <1>4 DEF Apply, WellFormed, Admits, HasLane
  <2>2. t.open = s.open /\ t.lanes = [s.lanes EXCEPT ![m.lane] = m.id]
    BY <1>3, <2>1 DEF ApplyEntry, IsState
  <2>3. after = [lanes EXCEPT ![m.lane].leaf = m.id]
    BY <1>2, <1>4 DEF LanesAfter
  <2> HIDE DEF t, after
  <2>4. /\ DOMAIN after = DOMAIN lanes
        /\ \A l \in DOMAIN lanes : after[l] = [leaf |-> IF l = m.lane THEN m.id ELSE lanes[l].leaf,
                                               open |-> lanes[l].open]
    BY <1>3, <2>3 DEF LaneRows
  <2>5. LaneRows(after) /\ OpenRows(after) = OpenRows(lanes)
    BY <2>4 DEF LaneRows, OpenRows
  <2>6. t.lanes = [l \in DOMAIN after |-> after[l].leaf]
    BY <1>3, <2>2, <2>4
  <2> QED
    BY <1>3, <2>2, <2>5, <2>6 DEF Shows
<1>5. CASE c.kind \in {"create", "move"}
  <2>1. t = [s EXCEPT !.seq = m.seq, !.lanes = Put(@, m.lane, m.leaf)]
    BY <1>2, <1>5 DEF Apply
  <2>2. t.open = s.open /\ t.lanes = Put(s.lanes, m.lane, m.leaf)
    BY <1>3, <2>1 DEF IsState
  <2>3. after = Put(lanes, m.lane,
                    [leaf |-> m.leaf, open |-> IF m.lane \in DOMAIN lanes THEN lanes[m.lane].open ELSE None])
    BY <1>2, <1>5 DEF LanesAfter
  <2> HIDE DEF t, after
  <2>4. /\ DOMAIN after = DOMAIN lanes \cup {m.lane}
        /\ \A l \in DOMAIN after :
              after[l] = [leaf |-> IF l = m.lane THEN m.leaf ELSE lanes[l].leaf,
                          open |-> IF l \in DOMAIN lanes THEN lanes[l].open ELSE None]
    BY <1>3, <2>3 DEF LaneRows, Put
  <2>8. \A l \in DOMAIN after :
           /\ after[l] = [leaf |-> after[l].leaf, open |-> after[l].open]
           /\ after[l].leaf = IF l = m.lane THEN m.leaf ELSE lanes[l].leaf
           /\ after[l].open = IF l \in DOMAIN lanes THEN lanes[l].open ELSE None
    <3> SUFFICES ASSUME NEW l \in DOMAIN after
                 PROVE  /\ after[l] = [leaf |-> after[l].leaf, open |-> after[l].open]
                        /\ after[l].leaf = IF l = m.lane THEN m.leaf ELSE lanes[l].leaf
                        /\ after[l].open = IF l \in DOMAIN lanes THEN lanes[l].open ELSE None
      OBVIOUS
    <3> DEFINE x == IF l = m.lane THEN m.leaf ELSE lanes[l].leaf
               y == IF l \in DOMAIN lanes THEN lanes[l].open ELSE None
    <3>1. after[l] = [leaf |-> x, open |-> y]
      BY <2>4
    <3> HIDE DEF x, y
    <3>2. after[l] = [leaf |-> after[l].leaf, open |-> after[l].open] /\ after[l].leaf = x /\ after[l].open = y
      BY <3>1
    <3> QED
      BY <3>2 DEF x, y
  <2>5. LaneRows(after)
    BY <2>8 DEF LaneRows
  <2>6. OpenRows(after) = OpenRows(lanes)
    <3>1. {k \in DOMAIN after : after[k].open # None} = {k \in DOMAIN lanes : lanes[k].open # None}
      <4>1. \A k \in DOMAIN after : after[k].open # None => k \in DOMAIN lanes /\ lanes[k].open # None
        BY <2>8
      <4>2. \A k \in DOMAIN lanes : k \in DOMAIN after /\ after[k].open = lanes[k].open
        BY <2>4, <2>8
      <4> QED
        BY <4>1, <4>2
    <3>2. \A l \in DOMAIN lanes : after[l].open = lanes[l].open
      BY <2>4, <2>8
    <3> QED
      BY <3>1, <3>2 DEF OpenRows
  <2>7. t.lanes = [l \in DOMAIN after |-> after[l].leaf]
    <3>1. DOMAIN t.lanes = DOMAIN after
      BY <1>3, <2>2, <2>4 DEF Put
    <3>2. \A l \in DOMAIN after : t.lanes[l] = after[l].leaf
      <4> SUFFICES ASSUME NEW l \in DOMAIN after PROVE t.lanes[l] = after[l].leaf
        OBVIOUS
      <4>1. CASE l = m.lane
        BY <2>2, <2>8, <4>1 DEF Put
      <4>2. CASE l # m.lane
        <5>1. l \in DOMAIN lanes /\ l \in DOMAIN s.lanes /\ after[l].leaf = lanes[l].leaf
          BY <1>3, <2>4, <2>8, <4>2
        <5>2. t.lanes[l] = s.lanes[l]
          BY <2>2, <4>2, <5>1 DEF Put
        <5> QED
          BY <1>3, <5>1, <5>2
      <4> QED
        BY <4>1, <4>2
    <3>3. t.lanes = [l \in DOMAIN t.lanes |-> t.lanes[l]]
      BY <2>2 DEF Put
    <3> QED
      BY <3>1, <3>2, <3>3
  <2> QED
    BY <1>3, <2>2, <2>5, <2>6, <2>7 DEF Shows
<1>6. CASE c.kind = "record"
  <2>1. t = ApplyRecord(s, m) /\ m.lane \in DOMAIN lanes /\ m.id # None
    BY <1>2, <1>3, <1>6, IdsAssumption DEF Apply, Admits, HasLane
  <2>2. /\ t.lanes = s.lanes
        /\ t.open = CASE m.type = "operation_started" -> s.open \cup {[lane |-> m.lane, id |-> m.id]}
                      [] m.type = "operation_finished" -> s.open \ {[lane |-> m.lane, id |-> m.run]}
                      [] OTHER -> s.open
    BY <1>3, <2>1 DEF ApplyRecord, IsState
  <2>3. CASE m.type = "operation_started"
    <3>1. after = [lanes EXCEPT ![m.lane].open = m.id]
      BY <1>2, <1>6, <2>3 DEF LanesAfter
    <3>2. OpenOn(s, m.lane) = {}
      BY <1>2, <1>6, <2>3 DEF Admits
    <3>3. lanes[m.lane].open = None
      <4> SUFFICES ASSUME lanes[m.lane].open # None PROVE FALSE
        OBVIOUS
      <4> DEFINE o == [lane |-> m.lane, id |-> lanes[m.lane].open]
      <4>1. o \in OpenRows(lanes)
        BY <2>1 DEF OpenRows
      <4>2. o.lane = m.lane
        OBVIOUS
      <4> HIDE DEF o
      <4> QED
        BY <1>3, <3>2, <4>1, <4>2 DEF OpenOn
    <3> HIDE DEF t, after
    <3>4. /\ DOMAIN after = DOMAIN lanes
          /\ \A l \in DOMAIN lanes : after[l] = [leaf |-> lanes[l].leaf,
                                                 open |-> IF l = m.lane THEN m.id ELSE lanes[l].open]
      BY <1>3, <3>1 DEF LaneRows
    <3>5. LaneRows(after)
      BY <3>4 DEF LaneRows
    <3>6. OpenRows(after) = OpenRows(lanes) \cup {[lane |-> m.lane, id |-> m.id]}
      BY <2>1, <3>3, <3>4 DEF OpenRows
    <3>7. t.lanes = [l \in DOMAIN after |-> after[l].leaf]
      BY <1>3, <2>2, <3>4
    <3> QED
      BY <1>3, <2>2, <2>3, <3>5, <3>6, <3>7 DEF Shows
  <2>4. CASE m.type = "operation_finished"
    <3>1. after = IF lanes[m.lane].open = m.run THEN [lanes EXCEPT ![m.lane].open = None] ELSE lanes
      BY <1>2, <1>6, <2>4 DEF LanesAfter
    <3> HIDE DEF t, after
    <3>2. /\ DOMAIN after = DOMAIN lanes
          /\ \A l \in DOMAIN lanes :
                after[l] = [leaf |-> lanes[l].leaf,
                            open |-> IF l = m.lane /\ lanes[l].open = m.run THEN None ELSE lanes[l].open]
      BY <1>3, <3>1 DEF LaneRows
    <3>3. LaneRows(after)
      BY <3>2 DEF LaneRows
    <3>4. OpenRows(after) = OpenRows(lanes) \ {[lane |-> m.lane, id |-> m.run]}
      BY <2>1, <3>2 DEF OpenRows
    <3>5. t.lanes = [l \in DOMAIN after |-> after[l].leaf]
      BY <1>3, <2>2, <3>2
    <3> QED
      BY <1>3, <2>2, <2>4, <3>3, <3>4, <3>5 DEF Shows
  <2>5. CASE m.type \notin {"operation_started", "operation_finished"}
    <3>1. after = lanes
      BY <1>2, <1>6, <2>5 DEF LanesAfter
    <3> HIDE DEF t, after
    <3> QED
      BY <1>3, <2>2, <2>5, <3>1 DEF Shows
  <2> QED
    BY <2>3, <2>4, <2>5
<1>7. CASE c.kind \in {"label", "name"}
  <2>1. after = lanes
    BY <1>2, <1>7 DEF LanesAfter
  <2>2. t.lanes = s.lanes /\ t.open = s.open
    <3>1. c.kind = "label" => t = ApplyLabel(s, m)
      BY <1>2 DEF Apply
    <3>2. c.kind = "name" => t = [s EXCEPT !.seq = m.seq, !.name = m.label]
      BY <1>2 DEF Apply
    <3> QED
      BY <1>3, <1>7, <3>1, <3>2 DEF ApplyLabel, IsState
  <2> HIDE DEF t, after
  <2> QED
    BY <1>3, <2>1, <2>2 DEF Shows
<1> QED
  BY <1>1, <1>4, <1>5, <1>6, <1>7 DEF WellFormed

(* A write adds to the log the mutation of a call that passes its checks on the replay. *)
LEMMA WriteFacts ==
    ASSUME RowsInv, NEW p \in Processes, NEW c \in Calls, Write(p, c)
    PROVE  /\ Admits(Replay(log), c) /\ WellFormed(c)
           /\ log' = Append(log, MutationOf(Replay(log), c))
           /\ lanes' = LanesAfter(MutationOf(Replay(log), c))
  BY RowsAreTheReplay, CallsAssumption DEF Write

LEMMA WriteKeepsRows ==
    ASSUME RowsInv, NEW p \in Processes, NEW c \in Calls, Write(p, c)
    PROVE  RowsInv'
<1> DEFINE s == Replay(log)
           m == MutationOf(s, c)
<1>1. Admits(s, c) /\ WellFormed(c) /\ log' = Append(log, m) /\ lanes' = LanesAfter(m)
  BY WriteFacts
<1>2. Sound(s) /\ Shows(lanes, s)
  BY DEF RowsInv
<1>3. Sound(Apply(s, m)) /\ Shows(LanesAfter(m), Apply(s, m))
  BY <1>1, <1>2, AdmittedIsSound, TableFollows
<1>4. PICK S : log \in Seq(S)
  BY DEF RowsInv
<1>5. log \in Seq(S \cup {m}) /\ m \in S \cup {m}
  BY <1>4
<1>6. Replay(log') = Apply(s, m) /\ log' \in Seq(S \cup {m})
  BY <1>1, <1>5, ReplayAppend
<1> HIDE DEF s, m
<1>7. Sound(Replay(log')) /\ Shows(lanes', Replay(log'))
  BY <1>1, <1>3, <1>6
<1> QED
  BY <1>6, <1>7 DEF RowsInv, Shows, LaneRows, OpenRows

LEMMA OthersKeepLog ==
    ASSUME [SqliteNext]_sqliteVars, ~\E p \in Processes : \E c \in Calls : Write(p, c)
    PROVE  UNCHANGED <<log, lanes>>
  BY DEF SqliteNext, sqliteVars, tables, Open, EnqueueWrite, Fire, RefuseWrite, Lose, Renew, Close, Release,
     ProcessCrash, RepairCache, Tick, ForkEntries, ForkLanes, ForkWrites

LEMMA InitKeepsRows == ASSUME SqliteInit PROVE RowsInv
<1>1. log \in Seq({}) /\ Replay(log) = Empty
  BY ReplayEmpty DEF SqliteInit
<1>2. lanes = [lane \in {Main} |-> [leaf |-> Root, open |-> None]]
  BY DEF SqliteInit
<1>3. LaneRows(lanes) /\ OpenRows(lanes) = {}
  BY <1>2 DEF LaneRows, OpenRows
<1>4. Shows(lanes, Empty)
  BY <1>2, <1>3 DEF Shows, Empty
<1> QED
  BY <1>1, <1>4, EmptyIsSound DEF RowsInv

LEMMA NextKeepsRows == ASSUME RowsInv, [SqliteNext]_sqliteVars PROVE RowsInv'
<1>1. CASE \E p \in Processes : \E c \in Calls : Write(p, c)
  BY <1>1, WriteKeepsRows
<1>2. CASE ~\E p \in Processes : \E c \in Calls : Write(p, c)
  <2>1. UNCHANGED <<log, lanes>>
    BY <1>2, OthersKeepLog
  <2> QED
    BY <2>1 DEF RowsInv, Shows, LaneRows, OpenRows
<1> QED
  BY <1>1, <1>2

-----------------------------------------------------------------------------
(* The rows implement the session log. *)

LEMMA SameRowReplay == ASSUME NEW ms PROVE RowLog!Replay(ms) = Replay(ms)
  BY DEF RowLog!Replay, Replay, RowLog!Apply, Apply, RowLog!ApplyEntry, ApplyEntry,
         RowLog!ApplyRecord, ApplyRecord, RowLog!ApplyLabel, ApplyLabel, RowLog!Put, Put,
         RowLog!Empty, Empty, RowLog!FoldLeft, FoldLeft, RowLog!MapThenFoldSet, MapThenFoldSet,
         RowLog!Max, Max

LEMMA SameRowAccepts == ASSUME NEW s, NEW m PROVE RowLog!Accepts(s, m) <=> Accepts(s, m)
  BY DEF RowLog!Accepts, Accepts, RowLog!HasLane, HasLane, RowLog!HasTarget, HasTarget,
         RowLog!HasEntry, HasEntry

LEMMA RowCommits ==
    ASSUME NEW S, NEW m \in S, log \in Seq(S), log' = Append(log, m), Accepts(Replay(log), m)
    PROVE  RowLog!Commit
<1> DEFINE longer == Append(log, m)
<1>1. Len(log) \in Nat /\ Len(longer) = Len(log) + 1 /\ longer[Len(longer)] = m
  OBVIOUS
<1>2. log = SubSeq(longer, 1, Len(log))
  OBVIOUS
<1>3. ToSet(longer) = ToSet(log) \cup {m}
  BY DEF ToSet
<1> HIDE DEF longer
<1>4. log' = longer
  BY DEF longer
<1>5. longer[Len(longer)] = m /\ Last(longer) = m
  BY <1>1 DEF Last
<1>6. ToSet(log)' = ToSet(log) \cup {m}
  BY <1>3, <1>4 DEF ToSet
<1> QED
  BY <1>1, <1>2, <1>4, <1>5, <1>6, SameRowReplay, SameRowAccepts
     DEF RowLog!Commit, RowLog!Last, Last, RowLog!ToSet, ToSet

LEMMA RowStepCommits ==
    ASSUME RowsInv, [SqliteNext]_sqliteVars
    PROVE  RowLog!Commit \/ UNCHANGED RowLog!vars
<1>1. CASE \E p \in Processes : \E c \in Calls : Write(p, c)
  <2>1. PICK p \in Processes, c \in Calls : Write(p, c)
    BY <1>1
  <2> DEFINE m == MutationOf(Replay(log), c)
  <2>2. Admits(Replay(log), c) /\ WellFormed(c) /\ log' = Append(log, m)
    BY <2>1, WriteFacts
  <2>3. Accepts(Replay(log), m)
    BY <2>2, AdmittedIsAccepted DEF RowsInv
  <2>4. PICK S : log \in Seq(S)
    BY DEF RowsInv
  <2> HIDE DEF m
  <2>5. log \in Seq(S \cup {m}) /\ m \in S \cup {m}
    BY <2>4
  <2> QED
    BY <2>2, <2>3, <2>5, RowCommits
<1>2. CASE ~\E p \in Processes : \E c \in Calls : Write(p, c)
  <2>1. UNCHANGED log
    BY <1>2, OthersKeepLog
  <2> QED
    BY <2>1 DEF RowLog!vars, ToSet
<1> QED
  BY <1>1, <1>2

(* However many processes write, the rows are one session log: each mutation follows from
   those before it, and none that was answered is lost (every write renews the lease and
   makes its checks in the transaction that writes its row). *)
THEOREM RowsImplementLog == SqliteSpec => RowsImplementSessionLog
<1>1. SqliteInit => RowsInv
  BY InitKeepsRows
<1>2. RowsInv /\ [SqliteNext]_sqliteVars => RowsInv'
  BY NextKeepsRows
<1>3. SqliteInit => RowLog!Init
  BY DEF SqliteInit, RowLog!Init, ToSet
<1>4. RowsInv /\ [SqliteNext]_sqliteVars => [TRUE' => RowLog!Commit \/ RowLog!Answer]_(RowLog!vars)
  BY RowStepCommits
<1> QED
  BY <1>1, <1>2, <1>3, <1>4, PTL DEF SqliteSpec, RowsImplementSessionLog, RowLog!Spec


-----------------------------------------------------------------------------
(* The branch cache *)

(* Every branch is the path to a tip, every tip has a branch of its own, the tips are
   the entries with no children, and every entry is on a branch. *)
CacheOK(s, cached, ends) ==
    /\ \E S : cached \in Seq(S)
    /\ DOMAIN ends = Childless(s)
    /\ \A t \in DOMAIN ends : ends[t] \in DOMAIN cached /\ Path(s, t, cached[ends[t]])
    /\ \A b \in DOMAIN cached : \E t \in DOMAIN ends : ends[t] = b
    /\ \A e \in DOMAIN s.entries : \E b \in DOMAIN cached : e \in cached[b]

CacheInv == Ordered(Replay(log)) /\ CacheOK(Replay(log), branches, tips)

(* t is s with a new entry, after all others. *)
Adds(s, t, id, parent) ==
    /\ id \notin DOMAIN s.entries /\ DOMAIN t.entries = DOMAIN s.entries \cup {id}
    /\ t.entries[id].parent = parent /\ t.entries[id].seq = s.seq + 1
    /\ \A e \in DOMAIN s.entries : t.entries[e] = s.entries[e]
    /\ parent = Root \/ parent \in DOMAIN s.entries

LEMMA PathStays ==
    ASSUME NEW s, NEW t, NEW id, NEW parent, Adds(s, t, id, parent), NEW x, NEW P, Path(s, x, P)
    PROVE  Path(t, x, P) /\ id \notin P
<1>1. P \subseteq DOMAIN s.entries /\ x \in P
  BY DEF Path
<1>2. id \notin P /\ \A e \in P : t.entries[e] = s.entries[e]
  BY <1>1 DEF Adds
<1> QED
  BY <1>1, <1>2 DEF Path, Adds

LEMMA PathGrows ==
    ASSUME NEW s, NEW t, NEW id, NEW parent, Ordered(s), Ordered(t), Adds(s, t, id, parent),
           NEW P, Path(s, parent, P)
    PROVE  Path(t, id, P \cup {id})
<1>1. P \subseteq DOMAIN s.entries /\ parent \in P /\ id \notin P /\ id \in DOMAIN t.entries
  BY DEF Path, Adds
<1>2. \A e \in P : t.entries[e] = s.entries[e] /\ s.entries[e].seq \in 1..s.seq
  BY <1>1 DEF Adds, Ordered
<1>3. t.entries[id].parent = parent /\ t.entries[id].seq = s.seq + 1 /\ s.seq \in Nat
  BY DEF Adds, Ordered
<1> DEFINE Q == P \cup {id}
<1>4. \A e \in Q : t.entries[e].seq <= t.entries[id].seq
  BY <1>2, <1>3
<1>5. \A e \in Q : t.entries[e].parent # Root => t.entries[e].parent \in Q
  BY <1>1, <1>2, <1>3 DEF Path
<1>6. ASSUME NEW d \in Q, NEW e \in Q, t.entries[d].seq < t.entries[e].seq
      PROVE  t.entries[e].parent \in Q /\ t.entries[d].seq <= t.entries[t.entries[e].parent].seq
  <2>1. d \in P
    <3>1. t.entries[e].seq <= s.seq + 1
      BY <1>2, <1>3
    <3> QED
      BY <1>2, <1>3, <1>6, <3>1
  <2>2. CASE e = id
    BY <1>1, <1>2, <1>3, <2>1, <2>2 DEF Path
  <2>3. CASE e \in P
    <3>1. s.entries[d].seq < s.entries[e].seq
      BY <1>2, <1>6, <2>1, <2>3
    <3>2. s.entries[e].parent \in P /\ s.entries[d].seq <= s.entries[s.entries[e].parent].seq
      BY <2>1, <2>3, <3>1 DEF Path
    <3> QED
      BY <1>2, <2>1, <2>3, <3>2
  <2> QED
    BY <2>2, <2>3
<1> QED
  BY <1>1, <1>4, <1>5, <1>6 DEF Path, Adds

LEMMA FirstPath ==
    ASSUME NEW s, NEW t, NEW id, Ordered(t), Adds(s, t, id, Root)
    PROVE  Path(t, id, {id})
<1>1. id \in DOMAIN t.entries /\ t.entries[id].seq \in Nat /\ t.entries[id].parent = Root
  BY DEF Adds, Ordered
<1> QED
  BY <1>1 DEF Path

LEMMA ChildlessAfter ==
    ASSUME NEW s, NEW t, NEW id, NEW parent, Ordered(s), Ordered(t), Adds(s, t, id, parent)
    PROVE  Childless(t) = (Childless(s) \ {parent}) \cup {id}
<1>1. \A e \in DOMAIN t.entries : t.entries[e].parent # id
  <2>1. id # Root /\ parent # id
    BY DEF Adds, Ordered
  <2>2. \A e \in DOMAIN s.entries : s.entries[e].parent # id
    BY <2>1 DEF Adds, Ordered
  <2> QED
    BY <2>1, <2>2 DEF Adds
<1> QED
  BY <1>1 DEF Childless, Adds

(* The branch that ends at the parent is extended; or a new one is added. *)
ExtendedBranches(cached, ends, id, parent) == [cached EXCEPT ![ends[parent]] = @ \cup {id}]
MovedTip(ends, id, parent) == Put([x \in DOMAIN ends \ {parent} |-> ends[x]], id, ends[parent])
AddedTip(cached, ends, id) == Put(ends, id, Len(cached) + 1)

LEMMA BranchExtended ==
    ASSUME NEW s, NEW t, NEW id, NEW parent, Ordered(s), Ordered(t), Adds(s, t, id, parent),
           NEW cached, NEW ends, CacheOK(s, cached, ends), parent \in DOMAIN ends
    PROVE  CacheOK(t, ExtendedBranches(cached, ends, id, parent), MovedTip(ends, id, parent))
<1> DEFINE after == ExtendedBranches(cached, ends, id, parent)
           tipsAfter == MovedTip(ends, id, parent)
<1>1. /\ DOMAIN ends = Childless(s)
      /\ \A x \in DOMAIN ends : ends[x] \in DOMAIN cached /\ Path(s, x, cached[ends[x]])
      /\ \A b \in DOMAIN cached : \E x \in DOMAIN ends : ends[x] = b
      /\ \A e \in DOMAIN s.entries : \E b \in DOMAIN cached : e \in cached[b]
  BY DEF CacheOK
<1>2. /\ DOMAIN after = DOMAIN cached
      /\ after[ends[parent]] = cached[ends[parent]] \cup {id}
      /\ \A b \in DOMAIN cached : b # ends[parent] => after[b] = cached[b]
  BY <1>1 DEF ExtendedBranches
<1>3. /\ DOMAIN tipsAfter = (DOMAIN ends \ {parent}) \cup {id}
      /\ tipsAfter[id] = ends[parent]
      /\ \A x \in DOMAIN ends \ {parent} : x # id => tipsAfter[x] = ends[x]
  BY DEF Put, MovedTip
<1>4. id \notin DOMAIN ends
  BY <1>1 DEF Childless, Adds
<1>5. \E S : after \in Seq(S)
  <2>1. PICK S : cached \in Seq(S)
    BY DEF CacheOK
  <2> DEFINE U == S \cup {cached[ends[parent]] \cup {id}}
  <2>2. cached \in Seq(U) /\ cached[ends[parent]] \cup {id} \in U
    BY <2>1
  <2> HIDE DEF U
  <2>3. after \in Seq(U)
    BY <1>1, <2>2 DEF ExtendedBranches
  <2> QED
    BY <2>3
<1> HIDE DEF after, tipsAfter
<1>6. DOMAIN tipsAfter = Childless(t)
  BY <1>1, <1>3, ChildlessAfter
<1>7. ASSUME NEW x \in DOMAIN tipsAfter
      PROVE  tipsAfter[x] \in DOMAIN after /\ Path(t, x, after[tipsAfter[x]])
  <2>1. CASE x = id
    <3>1. Path(t, id, cached[ends[parent]] \cup {id})
      BY <1>1, PathGrows
    <3> QED
      BY <1>1, <1>2, <1>3, <2>1, <3>1
  <2>2. CASE x # id
    <3>1. x \in DOMAIN ends /\ x # parent /\ tipsAfter[x] = ends[x]
      BY <1>3, <2>2
    <3>2. ends[x] # ends[parent]
      <4> SUFFICES ASSUME ends[x] = ends[parent] PROVE FALSE
        OBVIOUS
      <4>1. Path(s, parent, cached[ends[parent]]) /\ x \in cached[ends[parent]]
        BY <1>1, <3>1 DEF Path
      <4>2. \E d \in cached[ends[parent]] : s.entries[d].parent = x
        BY <3>1, <4>1, PathGoesOn
      <4>3. cached[ends[parent]] \subseteq DOMAIN s.entries
        BY <4>1 DEF Path
      <4> QED
        BY <1>1, <3>1, <4>2, <4>3 DEF Childless
    <3>3. Path(t, x, cached[ends[x]])
      BY <1>1, <3>1, PathStays
    <3> QED
      BY <1>1, <1>2, <3>1, <3>2, <3>3
  <2> QED
    BY <2>1, <2>2
<1>8. ASSUME NEW b \in DOMAIN after
      PROVE  \E x \in DOMAIN tipsAfter : tipsAfter[x] = b
  <2>1. PICK x \in DOMAIN ends : ends[x] = b
    BY <1>1, <1>2
  <2> QED
    BY <1>3, <1>4, <2>1
<1>9. ASSUME NEW e \in DOMAIN t.entries
      PROVE  \E b \in DOMAIN after : e \in after[b]
  <2>1. CASE e = id
    BY <1>1, <1>2, <2>1
  <2>2. CASE e \in DOMAIN s.entries
    BY <1>1, <1>2, <2>2
  <2> QED
    BY <2>1, <2>2 DEF Adds
<1>10. CacheOK(t, after, tipsAfter)
  BY <1>5, <1>6, <1>7, <1>8, <1>9 DEF CacheOK
<1> QED
  BY <1>10 DEF after, tipsAfter

(* A new branch is added, with the path to the parent. *)
LEMMA BranchAdded ==
    ASSUME NEW s, NEW t, NEW id, NEW parent, Ordered(s), Ordered(t), Adds(s, t, id, parent),
           NEW cached, NEW ends, CacheOK(s, cached, ends), parent \notin DOMAIN ends,
           NEW P, Path(t, id, P), id \in P
    PROVE  CacheOK(t, Append(cached, P), AddedTip(cached, ends, id))
<1> DEFINE after == Append(cached, P)
           tipsAfter == AddedTip(cached, ends, id)
<1>1. /\ DOMAIN ends = Childless(s)
      /\ \A x \in DOMAIN ends : ends[x] \in DOMAIN cached /\ Path(s, x, cached[ends[x]])
      /\ \A b \in DOMAIN cached : \E x \in DOMAIN ends : ends[x] = b
      /\ \A e \in DOMAIN s.entries : \E b \in DOMAIN cached : e \in cached[b]
  BY DEF CacheOK
<1>2. PICK S : cached \in Seq(S)
  BY DEF CacheOK
<1>3. cached \in Seq(S \cup {P}) /\ P \in S \cup {P}
  BY <1>2
<1>4. /\ after \in Seq(S \cup {P}) /\ Len(cached) \in Nat
      /\ DOMAIN cached = 1..Len(cached) /\ DOMAIN after = 1..Len(cached) + 1
      /\ after[Len(cached) + 1] = P /\ \A b \in 1..Len(cached) : after[b] = cached[b]
  BY <1>3
<1>5. /\ DOMAIN tipsAfter = DOMAIN ends \cup {id}
      /\ tipsAfter[id] = Len(cached) + 1
      /\ \A x \in DOMAIN ends : x # id => tipsAfter[x] = ends[x]
  BY DEF Put, AddedTip
<1>6. id \notin DOMAIN ends
  BY <1>1 DEF Childless, Adds
<1> HIDE DEF after, tipsAfter
<1>7. DOMAIN tipsAfter = Childless(t)
  <2>1. Childless(t) = (Childless(s) \ {parent}) \cup {id}
    BY ChildlessAfter
  <2> QED
    BY <1>1, <1>5, <2>1
<1>8. ASSUME NEW x \in DOMAIN tipsAfter
      PROVE  tipsAfter[x] \in DOMAIN after /\ Path(t, x, after[tipsAfter[x]])
  <2>1. CASE x = id
    BY <1>4, <1>5, <2>1
  <2>2. CASE x # id
    <3>1. x \in DOMAIN ends /\ tipsAfter[x] = ends[x] /\ ends[x] \in 1..Len(cached)
      BY <1>1, <1>4, <1>5, <2>2
    <3>2. Path(t, x, cached[ends[x]])
      BY <1>1, <3>1, PathStays
    <3>3. after[ends[x]] = cached[ends[x]] /\ ends[x] \in DOMAIN after
      BY <1>4, <3>1
    <3> QED
      BY <3>1, <3>2, <3>3
  <2> QED
    BY <2>1, <2>2
<1>9. ASSUME NEW b \in DOMAIN after
      PROVE  \E x \in DOMAIN tipsAfter : tipsAfter[x] = b
  <2>1. CASE b = Len(cached) + 1
    BY <1>5, <2>1
  <2>2. CASE b # Len(cached) + 1
    <3>1. b \in DOMAIN cached
      BY <1>4, <2>2
    <3>2. PICK x \in DOMAIN ends : ends[x] = b
      BY <1>1, <3>1
    <3> QED
      BY <1>5, <1>6, <3>2
  <2> QED
    BY <2>1, <2>2
<1>10. ASSUME NEW e \in DOMAIN t.entries
       PROVE  \E b \in DOMAIN after : e \in after[b]
  <2>1. CASE e = id
    <3>1. Len(cached) + 1 \in DOMAIN after
      BY <1>4
    <3> QED
      BY <1>4, <2>1, <3>1
  <2>2. CASE e \in DOMAIN s.entries
    <3>1. PICK b \in DOMAIN cached : e \in cached[b]
      BY <1>1, <2>2
    <3>2. b \in DOMAIN after /\ after[b] = cached[b]
      BY <1>4
    <3> QED
      BY <3>1, <3>2
  <2> QED
    BY <2>1, <2>2 DEF Adds
<1>11. CacheOK(t, after, tipsAfter)
  BY <1>4, <1>7, <1>8, <1>9, <1>10 DEF CacheOK
<1> QED
  BY <1>11 DEF after, tipsAfter

-----------------------------------------------------------------------------
(* The branch that is taken for an entry has a path to the entry. *)
LEMMA ThroughIsPath ==
    ASSUME NEW s, Ordered(s), CacheOK(s, branches, tips), NEW id \in DOMAIN s.entries
    PROVE  /\ BranchWith(id) \in DOMAIN branches
           /\ Path(s, id, Through(BranchWith(id), id, s))
<1> DEFINE Having == {b \in DOMAIN branches : id \in branches[b]}
<1>1. PICK S : branches \in Seq(S)
  BY DEF CacheOK
<1>2. Having \in SUBSET Nat
  <2>1. DOMAIN branches = 1..Len(branches) /\ Len(branches) \in Nat
    BY <1>1
  <2> QED
    BY <2>1
<1>3. Having # {}
  BY DEF CacheOK
<1>4. \E x \in Having : \A y \in Having : x <= y
  BY <1>2, <1>3, LeastNumber
<1>5. BranchWith(id) = CHOOSE x \in Having : \A y \in Having : x <= y
  BY DEF BranchWith, Min
<1>6. BranchWith(id) \in Having
  BY <1>4, <1>5
<1> DEFINE b == BranchWith(id)
<1>7. b \in DOMAIN branches /\ id \in branches[b]
  BY <1>6
<1> HIDE DEF b, Having
<1>8. PICK t \in DOMAIN tips : tips[t] = b
  BY <1>7 DEF CacheOK
<1>9. Path(s, t, branches[b])
  BY <1>8 DEF CacheOK
<1>10. Path(s, id, {e \in branches[b] : s.entries[e].seq <= s.entries[id].seq})
  BY <1>7, <1>9, PathUpTo
<1> QED
  BY <1>7, <1>10 DEF b, Through

LEMMA WriteTouchesCache ==
    ASSUME RowsInv, NEW p \in Processes, NEW c \in Calls, Write(p, c)
    PROVE  IF c.kind = "entry"
           THEN CacheAppend(c.id, Replay(log).lanes[c.lane])
           ELSE UNCHANGED <<branches, tips>>
<1> DEFINE s == Replay(log)
           m == MutationOf(s, c)
<1>1. Rows = s /\ WellFormed(c)
  BY RowsAreTheReplay, CallsAssumption
<1>2. IF m.kind = "entry" THEN CacheAppend(m.id, m.parent) ELSE UNCHANGED <<branches, tips>>
  BY <1>1 DEF Write
<1>3. /\ m.kind = IF c.kind \in {"create", "move"} THEN "lane" ELSE c.kind
      /\ c.kind = "entry" => m.id = c.id /\ m.parent = s.lanes[c.lane]
  BY <1>1, MutationFields
<1> HIDE DEF m, s
<1>4. CASE c.kind = "entry"
  BY <1>2, <1>3, <1>4 DEF s
<1>5. CASE c.kind # "entry"
  <2>1. m.kind # "entry"
    BY <1>3, <1>5
  <2> QED
    BY <1>2, <1>5, <2>1
<1> QED
  BY <1>4, <1>5

(* The cache after an entry was appended. *)
LEMMA CacheFollows ==
    ASSUME RowsInv, CacheInv, NEW t, NEW id, NEW parent, Ordered(t),
           Adds(Replay(log), t, id, parent), CacheAppend(id, parent)
    PROVE  CacheOK(t, branches', tips')
<1> DEFINE s == Replay(log)
<1>1. Ordered(s) /\ CacheOK(s, branches, tips) /\ Rows = s
  BY RowsAreTheReplay DEF CacheInv
<1>2. Adds(s, t, id, parent)
  OBVIOUS
<1> HIDE DEF s
<1>3. CASE parent \in DOMAIN tips
  <2>1. /\ branches' = ExtendedBranches(branches, tips, id, parent)
        /\ tips' = MovedTip(tips, id, parent)
    BY <1>3 DEF CacheAppend, ExtendedBranches, MovedTip
  <2>2. CacheOK(t, ExtendedBranches(branches, tips, id, parent), MovedTip(tips, id, parent))
    BY <1>1, <1>2, <1>3, BranchExtended
  <2> QED
    BY <2>1, <2>2
<1>4. CASE parent \notin DOMAIN tips
  <2> DEFINE P == NewBranch(parent) \cup {id}
  <2>1. branches' = Append(branches, P) /\ tips' = AddedTip(branches, tips, id)
    BY <1>4 DEF CacheAppend, AddedTip
  <2>2. Path(t, id, P)
    <3>1. CASE parent = Root
      <4>1. P = {id}
        BY <3>1 DEF NewBranch
      <4>2. Path(t, id, {id})
        BY <1>2, <3>1, FirstPath
      <4> QED
        BY <4>1, <4>2
    <3>2. CASE parent # Root
      <4>1. parent \in DOMAIN s.entries
        BY <1>2, <3>2 DEF Adds
      <4>2. Path(s, parent, Through(BranchWith(parent), parent, s))
        BY <1>1, <4>1, ThroughIsPath
      <4>3. Path(t, id, Through(BranchWith(parent), parent, s) \cup {id})
        BY <1>1, <1>2, <4>2, PathGrows
      <4> QED
        BY <1>1, <3>2, <4>3 DEF NewBranch
    <3> QED
      BY <3>1, <3>2
  <2>3. id \in P
    OBVIOUS
  <2> HIDE DEF P
  <2>4. CacheOK(t, Append(branches, P), AddedTip(branches, tips, id))
    BY <1>1, <1>2, <1>4, <2>2, <2>3, BranchAdded
  <2> QED
    BY <2>1, <2>4
<1> QED
  BY <1>3, <1>4

(* What depends on the entries only. *)
LEMMA SameEntriesSameCache ==
    ASSUME NEW s, NEW t, s.entries = t.entries, NEW cached, NEW ends
    PROVE  CacheOK(s, cached, ends) <=> CacheOK(t, cached, ends)
  BY DEF CacheOK, Childless, Path

LEMMA WriteKeepsCache ==
    ASSUME RowsInv, CacheInv, NEW p \in Processes, NEW c \in Calls, Write(p, c)
    PROVE  CacheInv'
<1> DEFINE s == Replay(log)
           m == MutationOf(s, c)
           t == Apply(s, m)
<1>1. Admits(s, c) /\ WellFormed(c) /\ log' = Append(log, m) /\ Sound(s) /\ Ordered(s)
  BY WriteFacts DEF RowsInv, CacheInv
<1>2. Ordered(t)
  BY <1>1, AdmittedIsOrdered
<1>3. Replay(log') = t
  <2>1. PICK S : log \in Seq(S)
    BY DEF RowsInv
  <2> HIDE DEF m
  <2>2. log \in Seq(S \cup {m}) /\ m \in S \cup {m}
    BY <2>1
  <2> QED
    BY <1>1, <2>2, ReplayAppend
<1>4. CacheOK(t, branches', tips')
  <2>1. CASE c.kind = "entry"
    <3>1. CacheAppend(c.id, s.lanes[c.lane])
      BY <2>1, WriteTouchesCache
    <3>2. /\ t.entries = Put(s.entries, c.id, [parent |-> s.lanes[c.lane], type |-> c.type, seq |-> s.seq + 1])
          /\ c.id \notin s.used /\ HasTarget(s, s.lanes[c.lane])
      BY <1>1, <2>1, EntriesAfter
    <3> DEFINE parent == s.lanes[c.lane]
    <3>3. parent = Root \/ parent \in DOMAIN s.entries
      BY <3>2 DEF HasTarget, HasEntry
    <3> HIDE DEF t, s, parent
    <3>4. Adds(s, t, c.id, parent)
      <4>1. /\ c.id \notin DOMAIN s.entries
            /\ DOMAIN t.entries = DOMAIN s.entries \cup {c.id}
            /\ t.entries[c.id].parent = parent /\ t.entries[c.id].seq = s.seq + 1
            /\ \A e \in DOMAIN s.entries : t.entries[e] = s.entries[e]
        BY <1>1, <3>2 DEF parent, Ordered, Put
      <4> QED
        BY <3>3, <4>1 DEF Adds
    <3> QED
      BY <1>2, <3>1, <3>4, CacheFollows DEF s, parent
  <2>2. CASE c.kind # "entry"
    <3>1. branches' = branches /\ tips' = tips
      BY <2>2, WriteTouchesCache
    <3>2. t.entries = s.entries
      BY <1>1, <2>2, EntriesAfter
    <3>3. CacheOK(s, branches, tips)
      BY DEF CacheInv
    <3> HIDE DEF s, t
    <3> QED
      BY <3>1, <3>2, <3>3, SameEntriesSameCache
  <2> QED
    BY <2>1, <2>2
<1> HIDE DEF t, s, m
<1>5. Ordered(Replay(log'))
  BY <1>2, <1>3
<1>6. CacheOK(Replay(log'), branches', tips')
  BY <1>3, <1>4
<1> QED
  BY <1>5, <1>6 DEF CacheInv, CacheOK, Path, Childless, Ordered

(* The repaired cache is the one that was there, up to the numbers of the branches. *)
LEMMA RepairKeepsCache ==
    ASSUME RowsInv, CacheInv, NEW p \in Processes, RepairCache(p)
    PROVE  CacheInv'
<1> DEFINE s == Replay(log)
           leaves == InOrder(s, Childless(s))
           n == Cardinality(Childless(s))
<1>1. Ordered(s) /\ CacheOK(s, branches, tips) /\ Rows = s /\ log' = log
  BY RowsAreTheReplay DEF CacheInv, RepairCache
<1>2. /\ branches' = [i \in DOMAIN leaves |-> Ancestors(s, leaves[i])]
      /\ tips' = [e \in ToSet(leaves) |-> CHOOSE i \in DOMAIN leaves : leaves[i] = e]
  BY <1>1 DEF RepairCache
<1>3. Childless(s) \subseteq DOMAIN s.entries
  BY DEF Childless
<1>4. /\ n \in Nat /\ leaves \in [1..n -> Childless(s)]
      /\ \A e \in Childless(s) : \E i \in 1..n : leaves[i] = e
      /\ \A i, j \in 1..n : leaves[i] = leaves[j] => i = j
  BY <1>1, <1>3, InOrderLists
<1>5. s = Replay(log)
  OBVIOUS
<1> HIDE DEF s, leaves, n
<1>6. DOMAIN leaves = 1..n /\ ToSet(leaves) = Childless(s)
  BY <1>4 DEF ToSet
<1>7. ASSUME NEW e \in Childless(s)
      PROVE  /\ e \in DOMAIN tips /\ Path(s, e, branches[tips[e]])
             /\ Ancestors(s, e) = branches[tips[e]]
  <2>1. e \in DOMAIN tips /\ Path(s, e, branches[tips[e]])
    BY <1>1 DEF CacheOK
  <2> QED
    BY <1>1, <2>1, PathIsAncestors
<1>8. \A i \in 1..n : branches'[i] = Ancestors(s, leaves[i]) /\ leaves[i] \in Childless(s)
  BY <1>2, <1>4, <1>6
<1>9. DOMAIN branches' = 1..n /\ DOMAIN tips' = Childless(s)
  BY <1>2, <1>6
<1>10. ASSUME NEW e \in Childless(s)
       PROVE  tips'[e] \in 1..n /\ leaves[tips'[e]] = e
  <2>1. \E i \in DOMAIN leaves : leaves[i] = e
    BY <1>4, <1>6
  <2>2. tips'[e] = CHOOSE i \in DOMAIN leaves : leaves[i] = e
    BY <1>2, <1>6
  <2> QED
    BY <1>6, <2>1, <2>2
<1>11. \E S : branches' \in Seq(S)
  <2> DEFINE U == {Ancestors(s, leaves[i]) : i \in 1..n}
  <2>1. branches' = [i \in 1..n |-> Ancestors(s, leaves[i])]
    BY <1>2, <1>6
  <2>2. branches' \in [1..n -> U]
    BY <2>1
  <2> HIDE DEF U
  <2>3. branches' \in Seq(U)
    BY <1>4, <2>2
  <2> QED
    BY <2>3
<1>12. ASSUME NEW e \in DOMAIN tips'
       PROVE  tips'[e] \in DOMAIN branches' /\ Path(s, e, branches'[tips'[e]])
  BY <1>7, <1>8, <1>9, <1>10
<1>13. ASSUME NEW i \in DOMAIN branches'
       PROVE  \E e \in DOMAIN tips' : tips'[e] = i
  <2>1. i \in 1..n /\ leaves[i] \in Childless(s)
    BY <1>8, <1>9
  <2>2. tips'[leaves[i]] \in 1..n /\ leaves[tips'[leaves[i]]] = leaves[i]
    BY <1>10, <2>1
  <2>3. tips'[leaves[i]] = i
    BY <1>4, <1>9, <2>1, <2>2
  <2> QED
    BY <1>9, <2>1, <2>3
<1>14. ASSUME NEW e \in DOMAIN s.entries
       PROVE  \E i \in DOMAIN branches' : e \in branches'[i]
  <2>1. PICK b \in DOMAIN branches : e \in branches[b]
    BY <1>1 DEF CacheOK
  <2>2. PICK x \in DOMAIN tips : tips[x] = b
    BY <1>1, <2>1 DEF CacheOK
  <2>3. x \in Childless(s)
    BY <1>1, <2>2 DEF CacheOK
  <2>4. branches'[tips'[x]] = branches[b] /\ tips'[x] \in DOMAIN branches'
    BY <1>7, <1>8, <1>9, <1>10, <2>2, <2>3
  <2> QED
    BY <2>1, <2>4
<1>15. CacheOK(s, branches', tips')
  BY <1>9, <1>11, <1>12, <1>13, <1>14 DEF CacheOK
<1>16. Ordered(Replay(log')) /\ CacheOK(Replay(log'), branches', tips')
  BY <1>1, <1>5, <1>15
<1> QED
  BY <1>16 DEF CacheInv, CacheOK, Path, Childless, Ordered

-----------------------------------------------------------------------------
LEMMA OthersKeepCache ==
    ASSUME [SqliteNext]_sqliteVars,
           ~\E p \in Processes : (\E c \in Calls : Write(p, c)) \/ RepairCache(p)
    PROVE  UNCHANGED <<log, branches, tips>>
  BY DEF SqliteNext, sqliteVars, tables, Open, EnqueueWrite, Fire, RefuseWrite, Lose, Renew, Close, Release,
     ProcessCrash, Tick, ForkEntries, ForkLanes, ForkWrites

LEMMA InitBuildsCache == ASSUME SqliteInit PROVE CacheInv
<1>1. Replay(log) = Empty /\ branches = <<>> /\ tips = <<>>
  BY ReplayEmpty DEF SqliteInit
<1>2. Ordered(Replay(log))
  BY <1>1, EmptyIsOrdered
<1>3. CacheOK(Empty, <<>>, <<>>)
  <2>1. Empty.entries = <<>> /\ DOMAIN <<>> = {} /\ <<>> \in Seq({})
    BY DEF Empty
  <2> QED
    BY <2>1 DEF CacheOK, Childless
<1> QED
  BY <1>1, <1>2, <1>3 DEF CacheInv

LEMMA NextKeepsCache == ASSUME RowsInv, CacheInv, [SqliteNext]_sqliteVars PROVE CacheInv'
<1>1. CASE \E p \in Processes : \E c \in Calls : Write(p, c)
  BY <1>1, WriteKeepsCache
<1>2. CASE \E p \in Processes : RepairCache(p)
  BY <1>2, RepairKeepsCache
<1>3. CASE ~\E p \in Processes : (\E c \in Calls : Write(p, c)) \/ RepairCache(p)
  <2>1. UNCHANGED <<log, branches, tips>>
    BY <1>3, OthersKeepCache
  <2>2. Ordered(Replay(log')) /\ CacheOK(Replay(log'), branches', tips')
    BY <2>1 DEF CacheInv
  <2> QED
    BY <2>2 DEF CacheInv, CacheOK, Childless, Path, Ordered
<1> QED
  BY <1>1, <1>2, <1>3

LEMMA CacheMatches == ASSUME RowsInv, CacheInv PROVE TablesMatchTheLog
<1> DEFINE s == Replay(log)
<1>1. Rows = s /\ Ordered(s) /\ CacheOK(s, branches, tips)
  BY RowsAreTheReplay DEF CacheInv
<1> HIDE DEF s
<1>2. ASSUME NEW id \in DOMAIN s.entries
      PROVE  CachedPath(id, s) = Ancestors(s, id)
  <2>1. Path(s, id, Through(BranchWith(id), id, s))
    BY <1>1, ThroughIsPath
  <2>2. Ancestors(s, id) = Through(BranchWith(id), id, s)
    BY <1>1, <2>1, PathIsAncestors
  <2> QED
    BY <2>2 DEF CachedPath
<1>3. DOMAIN tips = Childless(s)
  BY <1>1 DEF CacheOK
<1> QED
  BY <1>1, <1>2, <1>3 DEF s, TablesMatchTheLog

(* What the store keeps beside the log agrees with it after any sequence of writes and
   repairs by any number of processes: the lanes table is what the rows say, and the
   cached path of every entry is its ancestors (appendEntryToBranchCache extends or
   copies a branch, repairBranchCache rebuilds them all). *)
THEOREM TablesFollowTheLog == SqliteSpec => []TablesMatchTheLog
<1>1. SqliteInit => RowsInv /\ CacheInv
  BY InitKeepsRows, InitBuildsCache
<1>2. RowsInv /\ CacheInv /\ [SqliteNext]_sqliteVars => RowsInv' /\ CacheInv'
  BY NextKeepsRows, NextKeepsCache
<1>3. RowsInv /\ CacheInv => TablesMatchTheLog
  BY CacheMatches
<1> QED
  BY <1>1, <1>2, <1>3, PTL DEF SqliteSpec

-----------------------------------------------------------------------------
(* Forks read while others write *)

(* What a fork has read of the entries: all that had a number when it read them. *)
Prefix(part, s) ==
    /\ DOMAIN part \subseteq DOMAIN s.entries
    /\ \A e \in DOMAIN part : part[e] = s.entries[e]
    /\ \A e \in DOMAIN s.entries \ DOMAIN part :
          \A d \in DOMAIN part : s.entries[d].seq < s.entries[e].seq

ForkOK(f, s) ==
    f # None =>
       /\ f = [step |-> f.step, entries |-> f.entries, lanes |-> f.lanes]
       /\ Prefix(f.entries, s)
       /\ f.step \in {"lanes", "tips"}
       /\ f.step = "tips" =>
             \A l \in DOMAIN f.lanes : f.lanes[l] = Root \/ f.lanes[l] \in DOMAIN s.entries

ForkInv == ForkOK(fork, Replay(log))

(* If every entry with no children is in the prefix, so is every entry. *)
LEMMA NewestIsChildless ==
    ASSUME NEW s, Ordered(s), NEW part, Prefix(part, s), Childless(s) \subseteq DOMAIN part
    PROVE  DOMAIN part = DOMAIN s.entries
<1> SUFFICES ASSUME NEW e \in DOMAIN s.entries, e \notin DOMAIN part PROVE FALSE
  BY DEF Prefix
<1> DEFINE Missing == {n \in Nat : \E d \in DOMAIN s.entries :
                                      d \notin DOMAIN part /\ n = s.seq - s.entries[d].seq}
<1>1. s.seq \in Nat /\ \A d \in DOMAIN s.entries : s.entries[d].seq \in 1..s.seq
  BY DEF Ordered
<1>2. \A d \in DOMAIN s.entries : d \notin DOMAIN part => s.seq - s.entries[d].seq \in Missing
  BY <1>1
<1>3. Missing \in SUBSET Nat /\ Missing # {}
  BY <1>2
<1>4. PICK n \in Missing : \A k \in Missing : n <= k
  BY <1>3, LeastNumber
<1>5. PICK d \in DOMAIN s.entries : d \notin DOMAIN part /\ n = s.seq - s.entries[d].seq
  BY <1>4
<1> HIDE DEF Missing
<1>6. PICK x \in DOMAIN s.entries : s.entries[x].parent = d
  BY <1>5 DEF Childless
<1>7. s.entries[d].seq < s.entries[x].seq
  BY <1>5, <1>6 DEF Ordered
<1>8. x \notin DOMAIN part
  <2>1. x \in DOMAIN part => s.entries[x].seq < s.entries[d].seq
    BY <1>5 DEF Prefix
  <2> QED
    BY <1>1, <1>5, <1>7, <2>1
<1>9. n <= s.seq - s.entries[x].seq
  BY <1>2, <1>4, <1>8
<1> QED
  BY <1>1, <1>5, <1>7, <1>9

(* What is written after the entries were read has later numbers. *)
LEMMA PrefixStays ==
    ASSUME NEW s, NEW t, Ordered(s), NEW part, Prefix(part, s), NEW id, NEW parent,
           t.entries = s.entries \/ Adds(s, t, id, parent)
    PROVE  Prefix(part, t)
<1>1. CASE t.entries = s.entries
  BY <1>1 DEF Prefix
<1>2. CASE Adds(s, t, id, parent)
  <2>1. \A d \in DOMAIN part : d \in DOMAIN s.entries /\ d # id /\ t.entries[d] = s.entries[d]
    BY <1>2 DEF Prefix, Adds
  <2>2. \A d \in DOMAIN s.entries : s.entries[d].seq \in 1..s.seq /\ t.entries[d] = s.entries[d]
    BY <1>2 DEF Ordered, Adds
  <2>3. t.entries[id].seq = s.seq + 1 /\ DOMAIN t.entries = DOMAIN s.entries \cup {id} /\ s.seq \in Nat
    BY <1>2 DEF Adds, Ordered
  <2>4. ASSUME NEW e \in DOMAIN t.entries \ DOMAIN part, NEW d \in DOMAIN part
        PROVE  t.entries[d].seq < t.entries[e].seq
    <3>1. CASE e = id
      BY <2>1, <2>2, <2>3, <3>1
    <3>2. CASE e # id
      <4>1. e \in DOMAIN s.entries \ DOMAIN part
        BY <2>3, <3>2
      <4>2. s.entries[d].seq < s.entries[e].seq
        BY <4>1 DEF Prefix
      <4> QED
        BY <2>1, <2>2, <4>1, <4>2
    <3> QED
      BY <3>1, <3>2
  <2>5. DOMAIN part \subseteq DOMAIN t.entries /\ \A e \in DOMAIN part : part[e] = t.entries[e]
    BY <2>1, <2>3 DEF Prefix
  <2> QED
    BY <2>4, <2>5 DEF Prefix
<1> QED
  BY <1>1, <1>2

LEMMA WriteKeepsFork ==
    ASSUME RowsInv, CacheInv, ForkInv, NEW p \in Processes, NEW c \in Calls, Write(p, c)
    PROVE  ForkInv'
<1> DEFINE s == Replay(log)
           m == MutationOf(s, c)
           t == Apply(s, m)
<1>1. /\ Admits(s, c) /\ WellFormed(c) /\ log' = Append(log, m) /\ Sound(s) /\ Ordered(s)
      /\ fork' = fork /\ ForkOK(fork, s)
  BY WriteFacts DEF RowsInv, CacheInv, ForkInv, Write
<1>2. Replay(log') = t
  <2>1. PICK S : log \in Seq(S)
    BY DEF RowsInv
  <2> HIDE DEF m
  <2>2. log \in Seq(S \cup {m}) /\ m \in S \cup {m}
    BY <2>1
  <2> QED
    BY <1>1, <2>2, ReplayAppend
<1>3. \E id, parent : t.entries = s.entries \/ Adds(s, t, id, parent)
  <2>1. CASE c.kind # "entry"
    BY <1>1, <2>1, EntriesAfter
  <2>2. CASE c.kind = "entry"
    <3>1. /\ t.entries = Put(s.entries, c.id, [parent |-> s.lanes[c.lane], type |-> c.type, seq |-> s.seq + 1])
          /\ c.id \notin s.used /\ HasTarget(s, s.lanes[c.lane])
      BY <1>1, <2>2, EntriesAfter
    <3> DEFINE parent == s.lanes[c.lane]
    <3> HIDE DEF t, s, parent
    <3>2. Adds(s, t, c.id, parent)
      BY <1>1, <3>1 DEF parent, Ordered, Put, Adds, HasTarget, HasEntry
    <3> QED
      BY <3>2
  <2> QED
    BY <2>1, <2>2
<1>4. PICK id, parent : t.entries = s.entries \/ Adds(s, t, id, parent)
  BY <1>3
<1>5. DOMAIN s.entries \subseteq DOMAIN t.entries
  BY <1>4 DEF Adds
<1> HIDE DEF t, s, m
<1>6. ForkOK(fork, t)
  <2> SUFFICES ASSUME fork # None
               PROVE  /\ fork = [step |-> fork.step, entries |-> fork.entries, lanes |-> fork.lanes]
                      /\ Prefix(fork.entries, t)
                      /\ fork.step \in {"lanes", "tips"}
                      /\ fork.step = "tips" =>
                            \A l \in DOMAIN fork.lanes : fork.lanes[l] = Root \/ fork.lanes[l] \in DOMAIN t.entries
    BY DEF ForkOK
  <2>1. Prefix(fork.entries, s)
    BY <1>1 DEF ForkOK
  <2>2. Prefix(fork.entries, t)
    BY <1>1, <1>4, <2>1, PrefixStays
  <2> QED
    BY <1>1, <1>5, <2>2 DEF ForkOK
<1>7. ForkOK(fork', Replay(log'))
  BY <1>1, <1>2, <1>6
<1> QED
  BY <1>7 DEF ForkInv, ForkOK, Prefix

LEMMA ForkEntriesKeepsFork ==
    ASSUME RowsInv, CacheInv, ForkEntries PROVE ForkInv'
<1> DEFINE s == Replay(log)
<1>1. /\ log' = log /\ Rows = s /\ Ordered(s)
      /\ fork' = [step |-> "lanes", entries |-> s.entries, lanes |-> <<>>]
  BY RowsAreTheReplay DEF ForkEntries, tables, CacheInv
<1> HIDE DEF s
<1>2. /\ fork'.entries = s.entries /\ fork'.step = "lanes"
      /\ fork' = [step |-> fork'.step, entries |-> fork'.entries, lanes |-> fork'.lanes]
  BY <1>1
<1>3. ForkOK(fork', s)
  BY <1>2 DEF ForkOK, Prefix
<1>4. ForkOK(fork', Replay(log'))
  BY <1>1, <1>3 DEF s
<1> QED
  BY <1>4 DEF ForkInv, ForkOK, Prefix

LEMMA ForkLanesKeepsFork ==
    ASSUME RowsInv, CacheInv, ForkInv, ForkLanes PROVE ForkInv'
<1> DEFINE s == Replay(log)
<1>1. /\ log' = log /\ Rows = s /\ Ordered(s) /\ ForkOK(fork, s) /\ fork # None
      /\ fork' = [fork EXCEPT !.step = "tips", !.lanes = s.lanes]
      /\ Sound(s)
  BY RowsAreTheReplay DEF ForkLanes, tables, CacheInv, ForkInv, RowsInv
<1> HIDE DEF s
<1>2. fork' = [step |-> "tips", entries |-> fork.entries, lanes |-> s.lanes]
  <2>1. fork = [step |-> fork.step, entries |-> fork.entries, lanes |-> fork.lanes]
    BY <1>1 DEF ForkOK
  <2> QED
    BY <1>1, <2>1
<1>3. fork'.entries = fork.entries /\ fork'.step = "tips" /\ fork'.lanes = s.lanes
  BY <1>2
<1>4. Prefix(fork.entries, s)
  BY <1>1 DEF ForkOK
<1>5. \A l \in DOMAIN s.lanes : s.lanes[l] = Root \/ s.lanes[l] \in DOMAIN s.entries
  BY <1>1 DEF Sound, LanesHaveTargets, HasTarget, HasEntry
<1>6. ForkOK(fork', s)
  BY <1>2, <1>3, <1>4, <1>5 DEF ForkOK
<1>7. ForkOK(fork', Replay(log'))
  BY <1>1, <1>6 DEF s
<1> QED
  BY <1>7 DEF ForkInv, ForkOK, Prefix

LEMMA NextKeepsFork ==
    ASSUME RowsInv, CacheInv, ForkInv, [SqliteNext]_sqliteVars PROVE ForkInv'
<1>1. CASE \E p \in Processes : \E c \in Calls : Write(p, c)
  BY <1>1, WriteKeepsFork
<1>2. CASE ForkEntries
  BY <1>2, ForkEntriesKeepsFork
<1>3. CASE ForkLanes
  BY <1>3, ForkLanesKeepsFork
<1>4. CASE ForkWrites
  <2>1. fork' = None
    BY <1>4 DEF ForkWrites
  <2> QED
    BY <2>1 DEF ForkInv, ForkOK
<1>5. CASE /\ ~\E p \in Processes : \E c \in Calls : Write(p, c)
           /\ ~ForkEntries /\ ~ForkLanes /\ ~ForkWrites
  <2>1. log' = log /\ fork' = fork
    BY <1>5 DEF SqliteNext, sqliteVars, tables, Open, EnqueueWrite, Fire, RefuseWrite, Lose, Renew,
       Close, Release, ProcessCrash, RepairCache, Tick
  <2>2. ForkOK(fork', Replay(log'))
    BY <2>1 DEF ForkInv
  <2> QED
    BY <2>2 DEF ForkInv, ForkOK, Prefix
<1> QED
  BY <1>1, <1>2, <1>3, <1>4, <1>5

LEMMA ForkIsWhole == ASSUME RowsInv, CacheInv, ForkInv PROVE ForksAreWhole
<1> DEFINE s == Replay(log)
<1> SUFFICES ASSUME fork # None, fork.step = "tips", ForkTips \subseteq DOMAIN fork.entries
             PROVE  /\ \A l \in DOMAIN fork.lanes : fork.lanes[l] \in DOMAIN fork.entries \cup {Root}
                    /\ \A e \in DOMAIN fork.entries :
                          e \in ForkTips \/ \E d \in DOMAIN fork.entries : fork.entries[d].parent = e
  BY DEF ForksAreWhole
<1>1. Ordered(s) /\ ForkTips = Childless(s) /\ ForkOK(fork, s)
  BY DEF CacheInv, CacheOK, ForkTips, ForkInv
<1> HIDE DEF s
<1>2. /\ Prefix(fork.entries, s)
      /\ \A l \in DOMAIN fork.lanes : fork.lanes[l] = Root \/ fork.lanes[l] \in DOMAIN s.entries
  BY <1>1 DEF ForkOK
<1>3. DOMAIN fork.entries = DOMAIN s.entries
  BY <1>1, <1>2, NewestIsChildless
<1>4. \A e \in DOMAIN fork.entries : fork.entries[e] = s.entries[e]
  BY <1>2 DEF Prefix
<1>5. ASSUME NEW e \in DOMAIN fork.entries, e \notin ForkTips
      PROVE  \E d \in DOMAIN fork.entries : fork.entries[d].parent = e
  BY <1>1, <1>3, <1>4, <1>5 DEF Childless
<1> QED
  BY <1>2, <1>3, <1>5

(* A fork reads the entries, the lanes and the branch tips one after the other, with writes
   and repairs in between and no transaction around them: the one that is not refused is
   whole all the same, because the newest entry it missed has no children, so that a tip
   that was read names it (fork, sqlite/repo.ts). *)
THEOREM ForksComeOutWhole == SqliteSpec => []ForksAreWhole
<1>1. SqliteInit => RowsInv /\ CacheInv /\ ForkInv
  BY InitKeepsRows, InitBuildsCache DEF SqliteInit, ForkInv, ForkOK
<1>2. RowsInv /\ CacheInv /\ ForkInv /\ [SqliteNext]_sqliteVars => RowsInv' /\ CacheInv' /\ ForkInv'
  BY NextKeepsRows, NextKeepsCache, NextKeepsFork
<1>3. RowsInv /\ CacheInv /\ ForkInv => ForksAreWhole
  BY ForkIsWhole
<1> QED
  BY <1>1, <1>2, <1>3, PTL DEF SqliteSpec
=============================================================================
