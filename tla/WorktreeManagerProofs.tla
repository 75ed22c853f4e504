----------------------- MODULE WorktreeManagerProofs -----------------------
(***************************************************************************)
(* Proofs about LeaseManager and the module that extends it,               *)
(* WorktreeManager, for any agents, roles, scopes, path tree and files.    *)
(*                                                                         *)
(* Leases: the inductive invariant is TypeOK /\ LeasesDisjoint. That at    *)
(* most one agent may write a path follows from it and from the shape of   *)
(* the tree, because two directories above one path lie one in the other.  *)
(*                                                                         *)
(* Worktrees: disjoint leases become disjoint branches, and disjoint       *)
(* branches merge, but for the files an agent releases after it has        *)
(* changed them. What an agent that may be merged has touched is covered   *)
(* by its leases or was given up (Covered), what the integration branch    *)
(* has gained during a merge was committed by another such agent           *)
(* (DriftIsMerged), so the two sides of a clash of which neither was given *)
(* up would be covered by two overlapping leases.                          *)
(***************************************************************************)
EXTENDS WorktreeManager, TLAPS

-----------------------------------------------------------------------------
(* Part one: the leases *)

(* Overlap does not depend on the order of its arguments: the three string
   comparisons of isClaimedByOther cover both directions. *)
LEMMA OverlapSymmetric ==
    ASSUME NEW p, NEW q
    PROVE  Overlap(p, q) <=> Overlap(q, p)
BY DEF Overlap

(* Two claims that both cover one path overlap. *)
LEMMA CoversOverlap ==
    ASSUME NEW p \in Paths, NEW c \in Paths, NEW d \in Paths,
           AtOrBelow(p, c), AtOrBelow(p, d)
    PROVE  Overlap(c, d)
BY PathTree DEF TreeAssumption, AtOrBelow, Overlap

-----------------------------------------------------------------------------
(* The inductive invariant *)

IInv == TypeOK /\ LeasesDisjoint

(* It holds at the start. *)
LEMMA InitIInv == Init => IInv
BY DEF Init, IInv, TypeOK, LeasesDisjoint, Stages

(* What a claim is granted overlaps no claim of another agent. *)
LEMMA ClaimKeepsIInv ==
    ASSUME IInv, NEW a \in Agents, NEW request \in SUBSET Paths,
           Claim(a, request)
    PROVE  IInv'
<1>1. leases' = [leases EXCEPT ![a] = @ \cup Granted(a, request)]
  BY DEF Claim
<1>2. Granted(a, request) \subseteq Paths
  BY DEF Granted
<1>3. TypeOK'
  BY <1>1, <1>2 DEF IInv, TypeOK, Claim, Granted, InScope
<1>4. ASSUME NEW b \in Agents, b # a,
             NEW p \in leases'[a], NEW q \in leases'[b]
      PROVE  ~ Overlap(p, q)
  <2>1. q \in leases[b]
    BY <1>1, <1>4 DEF IInv, TypeOK
  <2>2. CASE p \in leases[a]
    BY <1>4, <2>1, <2>2 DEF IInv, LeasesDisjoint
  <2>3. CASE p \in Granted(a, request)
    BY <1>4, <2>1, <2>3 DEF Granted, ClaimedByOther
  <2> QED
    BY <1>1, <2>2, <2>3 DEF IInv, TypeOK
<1>5. ASSUME NEW b \in Agents, NEW c \in Agents, b # a, c # a, b # c,
             NEW p \in leases'[b], NEW q \in leases'[c]
      PROVE  ~ Overlap(p, q)
  BY <1>1, <1>5 DEF IInv, TypeOK, LeasesDisjoint
<1>6. LeasesDisjoint'
  BY <1>4, <1>5, OverlapSymmetric DEF LeasesDisjoint
<1> QED
  BY <1>3, <1>6 DEF IInv

(* Every other action only takes paths out of leases. *)
LEMMA ShrinkingKeepsDisjoint ==
    ASSUME LeasesDisjoint, \A a \in Agents : leases'[a] \subseteq leases[a]
    PROVE  LeasesDisjoint'
BY DEF LeasesDisjoint

(* Every step of the lease manager keeps it. *)
LEMMA NextKeepsIInv == IInv /\ [Next]_leaseVars => IInv'
<1> SUFFICES ASSUME IInv, [Next]_leaseVars PROVE IInv'
  OBVIOUS
<1> USE DEF IInv
<1>1. ASSUME NEW a \in Agents, Start(a) PROVE IInv'
  <2>1. TypeOK'
    BY <1>1 DEF Start, TypeOK, Stages, InScope
  <2>2. LeasesDisjoint'
    BY <1>1, ShrinkingKeepsDisjoint DEF Start
  <2> QED
    BY <2>1, <2>2
<1>2. ASSUME NEW a \in Agents, End(a) PROVE IInv'
  <2>1. TypeOK'
    BY <1>2 DEF End, TypeOK, Stages, InScope
  <2>2. LeasesDisjoint'
    BY <1>2, ShrinkingKeepsDisjoint DEF End
  <2> QED
    BY <2>1, <2>2
<1>3. ASSUME NEW a \in Agents, Release(a) PROVE IInv'
  <2>1. TypeOK'
    BY <1>3 DEF Release, TypeOK, Stages, InScope
  <2>2. LeasesDisjoint'
    BY <1>3, ShrinkingKeepsDisjoint DEF Release, TypeOK
  <2> QED
    BY <2>1, <2>2
<1>4. ASSUME NEW a \in Agents, NEW request \in SUBSET Paths,
             ReleasePaths(a, request)
      PROVE  IInv'
  <2>1. TypeOK'
    BY <1>4 DEF ReleasePaths, TypeOK, InScope
  <2>2. LeasesDisjoint'
    BY <1>4, ShrinkingKeepsDisjoint DEF ReleasePaths, TypeOK
  <2> QED
    BY <2>1, <2>2
<1>5. ASSUME NEW a \in Agents, NEW request \in SUBSET Paths,
             Claim(a, request)
      PROVE  IInv'
  BY <1>5, ClaimKeepsIInv
<1>6. CASE UNCHANGED leaseVars
  <2>1. TypeOK'
    BY <1>6 DEF leaseVars, TypeOK, InScope
  <2>2. LeasesDisjoint'
    BY <1>6, ShrinkingKeepsDisjoint DEF leaseVars
  <2> QED
    BY <2>1, <2>2
<1> QED
  BY <1>1, <1>2, <1>3, <1>4, <1>5, <1>6 DEF Next

(* The inductive invariant holds in every state. *)
THEOREM InvariantHolds == Spec => []IInv
BY InitIInv, NextKeepsIInv, PTL DEF Spec

-----------------------------------------------------------------------------
(* What follows from it *)

(* Leases, stages and scopes keep their types, and no claim is out of the
   claimant's scope. *)
THEOREM TypeCorrect == Spec => []TypeOK
<1>1. IInv => TypeOK
  BY DEF IInv
<1> QED
  BY <1>1, InvariantHolds, PTL

(* Claims of different agents never overlap. *)
THEOREM ClaimsAreDisjoint == Spec => []LeasesDisjoint
<1>1. IInv => LeasesDisjoint
  BY DEF IInv
<1> QED
  BY <1>1, InvariantHolds, PTL

(* Disjoint claims leave room for one writer of a path. *)
LEMMA OneWriter == IInv => AtMostOneWriter
<1> SUFFICES ASSUME IInv, NEW p \in Paths, NEW a \in Agents, NEW b \in Agents,
                    CanWrite(a, p), CanWrite(b, p)
             PROVE  a = b
  BY DEF AtMostOneWriter, Holders
<1>1. PICK c \in leases[a] : AtOrBelow(p, c)
  BY DEF CanWrite
<1>2. PICK d \in leases[b] : AtOrBelow(p, d)
  BY DEF CanWrite
<1>3. Overlap(c, d)
  BY <1>1, <1>2, CoversOverlap DEF IInv, TypeOK
<1> QED
  BY <1>3 DEF IInv, LeasesDisjoint

(* The same after a step. *)
LEMMA OneWriterNext == IInv' => AtMostOneWriter'
BY OneWriter, PTL

(* At most one agent may write a path. *)
THEOREM WritersAreExclusive == Spec => []AtMostOneWriter
BY OneWriter, InvariantHolds, PTL

-----------------------------------------------------------------------------
(* The right to write changes hands only through nobody *)

(* Who may write a path after a step is whoever could write it before, if
   anybody could. *)
LEMMA WritersOfAStep ==
    ASSUME IInv, Next, NEW p \in Paths, NEW a \in Agents, NEW b \in Agents,
           CanWrite(a, p), CanWrite(b, p)'
    PROVE  a = b
<1>1. CASE leases'[b] \subseteq leases[b]
  <2>1. CanWrite(b, p)
    BY <1>1 DEF CanWrite
  <2> QED
    BY <2>1, OneWriter DEF AtMostOneWriter, Holders
<1>2. CASE \E request \in SUBSET Paths : Claim(b, request)
  <2>1. PICK request \in SUBSET Paths : Claim(b, request)
    BY <1>2
  <2>2. PICK c \in leases[a] : AtOrBelow(p, c)
    BY DEF CanWrite
  <2>3. PICK d \in leases'[b] : AtOrBelow(p, d)
    BY DEF CanWrite
  <2>4. leases'[b] = leases[b] \cup Granted(b, request)
    BY <2>1 DEF Claim, IInv, TypeOK
  <2>5. c \in Paths /\ d \in Paths
    BY <2>4 DEF IInv, TypeOK, Granted
  <2>6. Overlap(c, d) /\ Overlap(d, c)
    BY <2>2, <2>3, <2>5, CoversOverlap, OverlapSymmetric
  <2>7. CASE d \in leases[b]
    BY <2>6, <2>7 DEF IInv, LeasesDisjoint
  <2>8. CASE d \in Granted(b, request)
    BY <2>6, <2>8 DEF Granted, ClaimedByOther
  <2> QED
    BY <2>4, <2>7, <2>8
<1> QED
  BY <1>1, <1>2
     DEF Next, Start, End, Release, Claim, ReleasePaths, IInv, TypeOK

(* No step of the system hands a path from one writer to another. *)
THEOREM NoHandOver == Spec => NoDirectHandOver
<1>1. IInv /\ [Next]_leaseVars
        => [\A p \in Paths : \A a \in Holders(p), b \in Holders(p)' : a = b]_leaseVars
  BY WritersOfAStep DEF Holders
<1> QED
  BY <1>1, InvariantHolds, PTL DEF Spec, NoDirectHandOver

-----------------------------------------------------------------------------
(* LeaseManager implements FileOwnership *)

(* The owner of a path is the one agent that may write it. *)
LEMMA OwnerIsTheWriter ==
    ASSUME IInv, NEW p \in Paths, NEW a \in Agents
    PROVE  OwnerOf(p) = a <=> CanWrite(a, p)
<1>1. \A b \in Agents : CanWrite(a, p) /\ CanWrite(b, p) => a = b
  BY OneWriter DEF AtMostOneWriter, Holders
<1>2. CASE \E b \in Agents : CanWrite(b, p)
  <2>1. OwnerOf(p) \in Agents /\ CanWrite(OwnerOf(p), p)
    BY <1>2 DEF OwnerOf
  <2> QED
    BY <1>1, <2>1
<1>3. CASE ~ \E b \in Agents : CanWrite(b, p)
  BY <1>3, LeaseConstants DEF ConstantsAssumption, OwnerOf
<1> QED
  BY <1>2, <1>3

(* A path that no agent may write belongs to nobody. *)
LEMMA NoOwnerNoWriter ==
    ASSUME NEW p \in Paths, \A a \in Agents : ~ CanWrite(a, p)
    PROVE  OwnerOf(p) = Nobody
BY DEF OwnerOf

(* A path belongs to an agent or to nobody. *)
LEMMA OwnerRange ==
    ASSUME NEW p \in Paths
    PROVE  OwnerOf(p) \in Agents \cup {Nobody}
BY DEF OwnerOf

(* The owner map before and after a step in which only the leases of one agent
   change, and they grow. *)
LEMMA GrowingIsAcquiring ==
    ASSUME IInv, IInv', Next, NEW a \in Agents,
           leases[a] \subseteq leases'[a],
           \A b \in Agents \ {a} : leases'[b] = leases[b]
    PROVE  Ownership!Next
<1> DEFINE S == {p \in Paths : CanWrite(a, p)'}
           owner == [p \in Paths |-> OwnerOf(p)]
<1>1. ASSUME NEW p \in S PROVE owner[p] \in {Nobody, a}
  <2>1. CanWrite(a, p)'
    OBVIOUS
  <2>2. \A b \in Agents : CanWrite(b, p) => b = a
    BY <2>1, WritersOfAStep
  <2>3. OwnerOf(p) \in Agents => OwnerOf(p) = a
    BY <2>2, OwnerIsTheWriter
  <2> QED
    BY <2>3, OwnerRange
<1>2. ASSUME NEW p \in S PROVE OwnerOf(p)' = a
  <2>1. CanWrite(a, p)'
    OBVIOUS
  <2>2. \A b \in Agents : CanWrite(b, p)' => b = a
    BY <2>1, OneWriterNext DEF AtMostOneWriter, Holders
  <2> QED
    BY <2>1, <2>2 DEF OwnerOf
<1>3. ASSUME NEW p \in Paths \ S PROVE OwnerOf(p)' = OwnerOf(p)
  <2>1. \A b \in Agents : CanWrite(b, p)' <=> CanWrite(b, p)
    BY <1>3 DEF CanWrite
  <2> QED
    BY <2>1 DEF OwnerOf
<1>4. Ownership!Acquire(a, S)
  BY <1>1, <1>2, <1>3 DEF Ownership!Acquire
<1> QED
  BY <1>4 DEF Ownership!Next

(* The same when the leases of one agent shrink. *)
LEMMA ShrinkingIsYielding ==
    ASSUME IInv, NEW a \in Agents,
           leases'[a] \subseteq leases[a],
           \A b \in Agents \ {a} : leases'[b] = leases[b]
    PROVE  Ownership!Next
<1> DEFINE S == {p \in Paths : CanWrite(a, p) /\ ~ CanWrite(a, p)'}
<1>1. ASSUME NEW p \in S PROVE OwnerOf(p) = a
  BY OwnerIsTheWriter
<1>2. ASSUME NEW p \in S PROVE OwnerOf(p)' = Nobody
  <2>1. \A b \in Agents : CanWrite(b, p) => b = a
    BY OneWriter DEF AtMostOneWriter, Holders
  <2>2. \A b \in Agents : ~ CanWrite(b, p)'
    BY <2>1 DEF CanWrite
  <2> QED
    BY <2>2 DEF OwnerOf
<1>3. ASSUME NEW p \in Paths \ S PROVE OwnerOf(p)' = OwnerOf(p)
  <2>1. \A b \in Agents : CanWrite(b, p)' <=> CanWrite(b, p)
    BY <1>3 DEF CanWrite
  <2> QED
    BY <2>1 DEF OwnerOf
<1>4. Ownership!Yield(a, S)
  BY <1>1, <1>2, <1>3 DEF Ownership!Yield
<1> QED
  BY <1>4 DEF Ownership!Next

(* Owners depend on the leases only. *)
LEMMA StillnessIsStuttering ==
    ASSUME leases' = leases
    PROVE  UNCHANGED [p \in Paths |-> OwnerOf(p)]
BY DEF OwnerOf, CanWrite

(* Every step is an acquisition, a yield or no change of ownership. *)
LEMMA StepRefines ==
    ASSUME IInv, IInv', [Next]_leaseVars
    PROVE  Ownership!Next \/ UNCHANGED [p \in Paths |-> OwnerOf(p)]
<1>1. ASSUME NEW a \in Agents, Start(a) \/ End(a)
      PROVE  UNCHANGED [p \in Paths |-> OwnerOf(p)]
  BY <1>1, StillnessIsStuttering DEF Start, End
<1>2. ASSUME NEW a \in Agents, Release(a)
      PROVE  Ownership!Next
  <2>1. leases'[a] \subseteq leases[a] /\ \A b \in Agents \ {a} : leases'[b] = leases[b]
    BY <1>2 DEF Release, IInv, TypeOK
  <2> QED
    BY <2>1, ShrinkingIsYielding
<1>3. ASSUME NEW a \in Agents, NEW request \in SUBSET Paths,
             ReleasePaths(a, request)
      PROVE  Ownership!Next
  <2>1. leases'[a] \subseteq leases[a] /\ \A b \in Agents \ {a} : leases'[b] = leases[b]
    BY <1>3 DEF ReleasePaths, IInv, TypeOK
  <2> QED
    BY <2>1, ShrinkingIsYielding
<1>4. ASSUME NEW a \in Agents, NEW request \in SUBSET Paths,
             Claim(a, request)
      PROVE  Ownership!Next
  <2>1. leases[a] \subseteq leases'[a] /\ \A b \in Agents \ {a} : leases'[b] = leases[b]
    BY <1>4 DEF Claim, IInv, TypeOK
  <2>2. Next
    BY <1>4 DEF Next
  <2> QED
    BY <2>1, <2>2, GrowingIsAcquiring
<1>5. CASE UNCHANGED leaseVars
  BY <1>5, StillnessIsStuttering DEF leaseVars
<1> QED
  BY <1>1, <1>2, <1>3, <1>4, <1>5 DEF Next

(* Seen through the owner of each path, every behaviour of the lease manager
   is one of exclusive ownership. *)
THEOREM LeasesImplementOwnership == Spec => ImplementsOwnership
<1>1. Init => Ownership!Init
  <2> SUFFICES ASSUME Init PROVE Ownership!Init
    OBVIOUS
  <2>1. \A p \in Paths : \A a \in Agents : ~ CanWrite(a, p)
    BY DEF Init, CanWrite
  <2>2. \A p \in Paths : OwnerOf(p) = Nobody
    BY <2>1, NoOwnerNoWriter
  <2> QED
    BY <2>2 DEF Ownership!Init
<1>2. IInv /\ IInv' /\ [Next]_leaseVars
        => [Ownership!Next]_([p \in Paths |-> OwnerOf(p)])
  BY StepRefines
<1> QED
  BY <1>1, <1>2, InvariantHolds, PTL DEF Spec, ImplementsOwnership, Ownership!Spec

-----------------------------------------------------------------------------
(* Part two: the worktrees. The inductive invariant *)

Covered ==
    \A a \in Agents :
        stage[a] \in {"running", "ended"} /\ result[a] # "failed"
            => \A p \in Touched(a) \ freed[a] : CanWrite(a, p)

(* An agent not spawned has neither an outcome nor a branch, and one that is
   running has no outcome. *)
Unborn ==
    \A a \in Agents :
        /\ stage[a] \in {"unborn", "running"} => result[a] = "none"
        /\ stage[a] = "unborn" => Touched(a) = {}

(* Only an agent that ended well is ever put to a merge. *)
MergedIsOver ==
    \A a \in Agents :
        merge[a] # "none" => stage[a] = "ended" /\ result[a] = "done"

(* Agents run, and no merge is on, in the phase "work". *)
Settled ==
    IF phase = "work" THEN \A a \in Agents : merge[a] = "none"
    ELSE \A a \in Agents : stage[a] # "running"

DriftIsMerged ==
    \A a \in Agents : \A q \in drift[a] :
        \E b \in Agents \ {a} : merge[b] = "merged" /\ q \in commits[b]

WInv ==
    /\ WTypeOK
    /\ LeasesDisjoint
    /\ Covered
    /\ Unborn
    /\ MergedIsOver
    /\ Settled
    /\ DriftIsMerged
    /\ ConflictsWereReleased
-----------------------------------------------------------------------------
(* Trees and leases *)

(* AtOrBelow is transitive. *)
LEMMA BelowIsTransitive ==
    ASSUME NEW p \in Paths, NEW q \in Paths, NEW c \in Paths,
           AtOrBelow(p, q), AtOrBelow(q, c)
    PROVE  AtOrBelow(p, c)
BY PathTree DEF TreeAssumption, AtOrBelow

(* Two agents never hold the right to write overlapping paths. *)
LEMMA CoveredApart ==
    ASSUME TypeOK, LeasesDisjoint,
           NEW a \in Agents, NEW b \in Agents, a # b,
           NEW p \in Paths, NEW q \in Paths, CanWrite(a, p), CanWrite(b, q)
    PROVE  ~ Overlap(p, q)
<1>1. PICK c \in leases[a] : AtOrBelow(p, c)
  BY DEF CanWrite
<1>2. PICK d \in leases[b] : AtOrBelow(q, d)
  BY DEF CanWrite
<1>3. c \in Paths /\ d \in Paths
  BY DEF TypeOK
<1>4. ~ Overlap(c, d) /\ ~ Overlap(d, c)
  BY DEF LeasesDisjoint
<1>5. CASE AtOrBelow(p, q)
  <2>1. AtOrBelow(p, d)
    BY <1>2, <1>3, <1>5, BelowIsTransitive
  <2> QED
    BY <1>1, <1>3, <1>4, <2>1, CoversOverlap
<1>6. CASE AtOrBelow(q, p)
  <2>1. AtOrBelow(q, c)
    BY <1>1, <1>3, <1>6, BelowIsTransitive
  <2> QED
    BY <1>2, <1>3, <1>4, <2>1, CoversOverlap
<1> QED
  BY <1>5, <1>6 DEF Overlap

(* What agents that may be merged have touched overlaps only where one of them
   has given it up. *)
LEMMA TouchedApart ==
    ASSUME WTypeOK, LeasesDisjoint, Covered,
           NEW a \in Agents, NEW b \in Agents, a # b,
           stage[a] \in {"running", "ended"}, result[a] # "failed",
           stage[b] \in {"running", "ended"}, result[b] # "failed",
           NEW p \in Touched(a), NEW q \in Touched(b), ~ GivenUp(a, p, b, q)
    PROVE  ~ Overlap(p, q)
<1>1. p \in Paths /\ q \in Paths
  BY WorktreeAssumption DEF WTypeOK, Touched
<1>2. CanWrite(a, p) /\ CanWrite(b, q)
  BY DEF Covered, GivenUp
<1> QED
  BY <1>1, <1>2, CoveredApart DEF WTypeOK

(* A conflict stays explained while the branches and what was given up only
   grow. *)
LEMMA CommitsStay ==
    ASSUME ConflictsWereReleased, merge' = merge,
           \A a \in Agents : commits[a] \subseteq commits'[a],
           \A a \in Agents : freed[a] \subseteq freed'[a]
    PROVE  ConflictsWereReleased'
BY DEF ConflictsWereReleased, ConflictOver, GivenUp

(* A step of the lease manager keeps its own invariant. *)
LEMMA LeaseStep ==
    ASSUME WInv, [Next]_leaseVars
    PROVE  TypeOK' /\ LeasesDisjoint'
BY NextKeepsIInv DEF WInv, WTypeOK, IInv

-----------------------------------------------------------------------------
(* Each action keeps the invariant *)

(* An agent that is spawned has touched nothing yet. *)
LEMMA SpawnKeepsWInv ==
    ASSUME WInv, NEW a \in Agents, Spawn(a)
    PROVE  WInv'
<1>1. TypeOK' /\ LeasesDisjoint'
  BY LeaseStep DEF Spawn, Next
<1>2. WTypeOK'
  BY <1>1 DEF WInv, WTypeOK, Spawn
<1>3. Covered'
  BY DEF WInv, WTypeOK, TypeOK, Covered, Unborn, Spawn, Start, Touched, CanWrite
<1>4. Unborn' /\ MergedIsOver' /\ Settled'
  BY DEF WInv, WTypeOK, TypeOK, Unborn, MergedIsOver, Settled, Spawn, Start, Touched
<1>5. DriftIsMerged' /\ ConflictsWereReleased'
  BY DEF WInv, WTypeOK, DriftIsMerged, ConflictsWereReleased, ConflictOver, GivenUp, Spawn
<1> QED
  BY <1>1, <1>2, <1>3, <1>4, <1>5 DEF WInv

(* What changes only leases, and only so that what is touched stays covered,
   keeps the invariant. *)
LEMMA LeasesOnlyKeepWInv ==
    ASSUME WInv, [Next]_leaseVars, UNCHANGED <<stage, treeVars>>,
           \A a \in Agents : \A p \in Touched(a) : CanWrite(a, p) => CanWrite(a, p)'
    PROVE  WInv'
<1>1. TypeOK' /\ LeasesDisjoint'
  BY LeaseStep
<1>2. WTypeOK' /\ Unborn' /\ MergedIsOver' /\ Settled'
  BY <1>1 DEF WInv, WTypeOK, Unborn, MergedIsOver, Settled, treeVars, Touched
<1>3. Covered'
  BY DEF WInv, Covered, treeVars, Touched
<1>4. DriftIsMerged' /\ ConflictsWereReleased'
  BY DEF WInv, DriftIsMerged, ConflictsWereReleased, ConflictOver, GivenUp, treeVars
<1> QED
  BY <1>1, <1>2, <1>3, <1>4 DEF WInv

(* A claim only adds to the leases of the claimant. *)
LEMMA ClaimKeepsWInv ==
    ASSUME WInv, NEW a \in Agents, NEW request \in SUBSET Paths,
           ClaimPaths(a, request)
    PROVE  WInv'
<1>1. [Next]_leaseVars /\ UNCHANGED <<stage, treeVars>>
  BY DEF ClaimPaths, Claim, Next
<1>2. \A b \in Agents : leases[b] \subseteq leases'[b]
  BY DEF WInv, WTypeOK, TypeOK, ClaimPaths, Claim
<1>3. \A b \in Agents : \A p \in Touched(b) : CanWrite(b, p) => CanWrite(b, p)'
  BY <1>2 DEF CanWrite
<1> QED
  BY <1>1, <1>3, LeasesOnlyKeepWInv

(* A file the releaser has touched is then given up or still covered. *)
LEMMA GiveUpKeepsWInv ==
    ASSUME WInv, NEW a \in Agents, NEW request \in SUBSET Paths,
           GiveUpPaths(a, request)
    PROVE  WInv'
<1>1. TypeOK' /\ LeasesDisjoint'
  BY LeaseStep DEF GiveUpPaths, Next
<1>2. stage' = stage /\ \A b \in Agents : Touched(b)' = Touched(b)
  BY DEF GiveUpPaths, ReleasePaths, Touched
<1>3. Touched(a) \subseteq Files
  BY DEF WInv, WTypeOK, Touched
<1>4. WTypeOK'
  BY <1>1, <1>3 DEF WInv, WTypeOK, GiveUpPaths
<1>5. \A b \in Agents : freed[b] \subseteq freed'[b]
  BY DEF WInv, WTypeOK, GiveUpPaths
<1>6. Covered'
  <2> SUFFICES ASSUME NEW b \in Agents, stage[b] \in {"running", "ended"},
                      result[b] # "failed", NEW p \in Touched(b), p \notin freed'[b]
               PROVE  CanWrite(b, p)'
    BY <1>2 DEF Covered, GiveUpPaths
  <2>1. CASE b = a
    BY <2>1 DEF WInv, WTypeOK, GiveUpPaths
  <2>2. CASE b # a
    <3>1. CanWrite(b, p)
      BY <1>5 DEF WInv, Covered
    <3>2. leases'[b] = leases[b]
      BY <2>2 DEF WInv, WTypeOK, TypeOK, GiveUpPaths, ReleasePaths
    <3> QED
      BY <3>1, <3>2 DEF CanWrite
  <2> QED
    BY <2>1, <2>2
<1>7. Unborn' /\ MergedIsOver' /\ Settled'
  BY <1>2 DEF WInv, Unborn, MergedIsOver, Settled, GiveUpPaths
<1>8. DriftIsMerged'
  BY DEF WInv, DriftIsMerged, GiveUpPaths
<1>9. ConflictsWereReleased'
  BY <1>5, CommitsStay DEF WInv, GiveUpPaths
<1> QED
  BY <1>1, <1>4, <1>6, <1>7, <1>8, <1>9 DEF WInv

(* A write begins under a lease that covers it. *)
LEMMA BeginWriteKeepsWInv ==
    ASSUME WInv, NEW a \in Agents, NEW p \in Files, BeginWrite(a, p)
    PROVE  WInv'
<1>1. TypeOK' /\ LeasesDisjoint'
  BY LeaseStep DEF BeginWrite, Next, leaseVars
<1>2. WTypeOK'
  BY <1>1 DEF WInv, WTypeOK, BeginWrite
<1>3. Covered'
  BY DEF WInv, WTypeOK, Covered, BeginWrite, leaseVars, Touched, CanWrite
<1>4. Unborn' /\ MergedIsOver' /\ Settled'
  BY DEF WInv, WTypeOK, Unborn, MergedIsOver, Settled, BeginWrite, leaseVars, Touched
<1>5. DriftIsMerged' /\ ConflictsWereReleased'
  BY DEF WInv, DriftIsMerged, ConflictsWereReleased, ConflictOver, GivenUp, BeginWrite
<1> QED
  BY <1>1, <1>2, <1>3, <1>4, <1>5 DEF WInv

(* A write that ends was among what its agent touched. *)
LEMMA EndWriteKeepsWInv ==
    ASSUME WInv, NEW a \in Agents, NEW p \in Files, EndWrite(a, p)
    PROVE  WInv'
<1>1. TypeOK' /\ LeasesDisjoint'
  BY LeaseStep DEF EndWrite, Next, leaseVars
<1>2. WTypeOK'
  BY <1>1 DEF WInv, WTypeOK, EndWrite
<1>3. \A b \in Agents : Touched(b)' = Touched(b)
  BY DEF WInv, WTypeOK, EndWrite, Touched
<1>4. Covered'
  BY <1>3 DEF WInv, Covered, EndWrite, leaseVars, CanWrite
<1>5. Unborn' /\ MergedIsOver' /\ Settled'
  BY <1>3 DEF WInv, Unborn, MergedIsOver, Settled, EndWrite, leaseVars
<1>6. DriftIsMerged' /\ ConflictsWereReleased'
  BY DEF WInv, DriftIsMerged, ConflictsWereReleased, ConflictOver, GivenUp, EndWrite
<1> QED
  BY <1>1, <1>2, <1>4, <1>5, <1>6 DEF WInv

(* A commit moves edits to the branch; what has been merged is committed. *)
LEMMA CommitKeepsWInv ==
    ASSUME WInv, NEW a \in Agents, Commit(a)
    PROVE  WInv'
<1>1. TypeOK' /\ LeasesDisjoint'
  BY LeaseStep DEF Commit, Next, leaseVars
<1>2. WTypeOK'
  BY <1>1 DEF WInv, WTypeOK, Commit
<1>3. \A b \in Agents : Touched(b)' = Touched(b)
  BY DEF WInv, WTypeOK, Commit, Touched
<1>4. Covered'
  BY <1>3 DEF WInv, Covered, Commit, leaseVars, CanWrite
<1>5. Unborn' /\ MergedIsOver' /\ Settled'
  BY <1>3 DEF WInv, Unborn, MergedIsOver, Settled, Commit, leaseVars
<1>6. \A b \in Agents : commits[b] \subseteq commits'[b]
  BY DEF WInv, WTypeOK, Commit
<1>7. DriftIsMerged' /\ ConflictsWereReleased'
  BY <1>6 DEF WInv, DriftIsMerged, ConflictsWereReleased, ConflictOver, GivenUp, Commit
<1> QED
  BY <1>1, <1>2, <1>4, <1>5, <1>7 DEF WInv

(* An agent that ends keeps its leases. *)
LEMMA FinishKeepsWInv ==
    ASSUME WInv, NEW a \in Agents, NEW outcome \in {"done", "failed"},
           Finish(a, outcome)
    PROVE  WInv'
<1>1. TypeOK' /\ LeasesDisjoint'
  BY LeaseStep DEF Finish, Next
<1>2. WTypeOK'
  BY <1>1 DEF WInv, WTypeOK, Finish
<1>3. Covered'
  BY DEF WInv, WTypeOK, TypeOK, Covered, Unborn, Finish, End, Touched, CanWrite
<1>4. Unborn' /\ MergedIsOver' /\ Settled'
  BY DEF WInv, WTypeOK, TypeOK, Unborn, MergedIsOver, Settled, Finish, End, Touched
<1>5. DriftIsMerged' /\ ConflictsWereReleased'
  BY DEF WInv, DriftIsMerged, ConflictsWereReleased, ConflictOver, GivenUp, Finish
<1> QED
  BY <1>1, <1>2, <1>3, <1>4, <1>5 DEF WInv

(* The leases of an agent that failed cover nothing that will be merged. *)
LEMMA ReleaseFailedKeepsWInv ==
    ASSUME WInv, NEW a \in Agents, ReleaseFailed(a)
    PROVE  WInv'
<1>1. TypeOK' /\ LeasesDisjoint'
  BY LeaseStep DEF ReleaseFailed, Next
<1>2. WTypeOK'
  BY <1>1 DEF WInv, WTypeOK, ReleaseFailed, treeVars
<1>3. Covered'
  BY DEF WInv, WTypeOK, TypeOK, Covered, ReleaseFailed, Release, treeVars, Touched,
         CanWrite
<1>4. Unborn' /\ MergedIsOver' /\ Settled'
  BY DEF WInv, WTypeOK, TypeOK, Unborn, MergedIsOver, Settled, ReleaseFailed, Release,
         treeVars, Touched
<1>5. DriftIsMerged' /\ ConflictsWereReleased'
  BY DEF WInv, DriftIsMerged, ConflictsWereReleased, ConflictOver, GivenUp, ReleaseFailed, treeVars
<1> QED
  BY <1>1, <1>2, <1>3, <1>4, <1>5 DEF WInv

(* The merges begin when nobody runs. *)
LEMMA WaveOverKeepsWInv ==
    ASSUME WInv, WaveOver
    PROVE  WInv'
<1>1. TypeOK' /\ LeasesDisjoint'
  BY LeaseStep DEF WaveOver, leaseVars
<1>2. WTypeOK'
  BY <1>1 DEF WInv, WTypeOK, WaveOver
<1>3. Covered' /\ Unborn' /\ MergedIsOver' /\ Settled'
  BY DEF WInv, Covered, Unborn, MergedIsOver, Settled, WaveOver, leaseVars, Touched,
         CanWrite
<1>4. DriftIsMerged' /\ ConflictsWereReleased'
  BY DEF WInv, DriftIsMerged, ConflictsWereReleased, ConflictOver, GivenUp, WaveOver
<1> QED
  BY <1>1, <1>2, <1>3, <1>4 DEF WInv

(* A branch clashes with what was merged before it only over files given up: both
   sides would else be covered by leases, and leases do not overlap. *)
LEMMA ClashIsReleased ==
    ASSUME WInv, NEW a \in Agents, stage[a] = "ended", result[a] = "done", Clash(a)
    PROVE  \E b \in Agents \ {a} : merge[b] = "merged" /\ ConflictOver(a, b)
<1>1. PICK p \in commits[a], q \in drift[a] : Overlap(p, q)
  BY DEF Clash
<1>2. PICK b \in Agents \ {a} : merge[b] = "merged" /\ q \in commits[b]
  BY DEF WInv, DriftIsMerged
<1>3. stage[b] = "ended" /\ result[b] = "done"
  BY <1>2 DEF WInv, MergedIsOver
<1>4. p \in Touched(a) /\ q \in Touched(b)
  BY <1>2 DEF Touched
<1>5. GivenUp(a, p, b, q)
  BY <1>1, <1>3, <1>4, TouchedApart DEF WInv
<1> QED
  BY <1>1, <1>2, <1>5 DEF ConflictOver

(* A merge that succeeds adds what is committed to the drift of the others. *)
LEMMA MergeSucceedsKeepsWInv ==
    ASSUME WInv, NEW a \in Agents, Merge(a), MergeSucceeds(a)
    PROVE  WInv'
<1>1. TypeOK' /\ LeasesDisjoint'
  BY LeaseStep DEF Merge, leaseVars
<1>2. WTypeOK'
  BY <1>1 DEF WInv, WTypeOK, Merge, MergeSucceeds
<1>3. Covered' /\ Unborn'
  BY DEF WInv, Covered, Unborn, Merge, leaseVars, Touched, CanWrite
<1>4. MergedIsOver' /\ Settled'
  BY DEF WInv, WTypeOK, MergedIsOver, Settled, Merge, MergeSucceeds, leaseVars
<1>5. DriftIsMerged'
  <2> SUFFICES ASSUME NEW b \in Agents, NEW q \in drift'[b]
               PROVE  \E c \in Agents \ {b} : merge'[c] = "merged" /\ q \in commits'[c]
    BY DEF DriftIsMerged
  <2>1. CASE q \in drift[b]
    BY <2>1 DEF WInv, WTypeOK, DriftIsMerged, Merge, MergeSucceeds
  <2>2. CASE q \notin drift[b]
    BY <2>2 DEF WInv, WTypeOK, Merge, MergeSucceeds
  <2> QED
    BY <2>1, <2>2
<1>6. ConflictsWereReleased'
  BY DEF WInv, WTypeOK, ConflictsWereReleased, ConflictOver, GivenUp, Merge, MergeSucceeds
<1> QED
  BY <1>1, <1>2, <1>3, <1>4, <1>5, <1>6 DEF WInv

(* One that conflicts leaves the integration branch alone. *)
LEMMA MergeConflictsKeepsWInv ==
    ASSUME WInv, NEW a \in Agents, Merge(a), MergeConflicts(a)
    PROVE  WInv'
<1>1. TypeOK' /\ LeasesDisjoint'
  BY LeaseStep DEF Merge, leaseVars
<1>2. WTypeOK'
  BY <1>1 DEF WInv, WTypeOK, Merge, MergeConflicts
<1>3. Covered' /\ Unborn'
  BY DEF WInv, Covered, Unborn, Merge, leaseVars, Touched, CanWrite
<1>4. MergedIsOver' /\ Settled'
  BY DEF WInv, WTypeOK, MergedIsOver, Settled, Merge, MergeConflicts, leaseVars
<1>5. DriftIsMerged'
  BY DEF WInv, WTypeOK, DriftIsMerged, Merge, MergeConflicts
<1>6. ConflictsWereReleased'
  <2>1. \E b \in Agents \ {a} : merge[b] = "merged" /\ ConflictOver(a, b)
    BY ClashIsReleased DEF Merge, MergeConflicts
  <2>2. \A b, c \in Agents : ConflictOver(b, c)' <=> ConflictOver(b, c)
    BY DEF Merge, ConflictOver, GivenUp
  <2>3. merge' = [merge EXCEPT ![a] = "conflict"] /\ merge[a] = "none"
    BY DEF Merge, MergeConflicts
  <2> QED
    BY <2>1, <2>2, <2>3 DEF WInv, WTypeOK, ConflictsWereReleased
<1> QED
  BY <1>1, <1>2, <1>3, <1>4, <1>5, <1>6 DEF WInv

(* Cleaning up empties every branch and only takes leases away. *)
LEMMA CleanUpKeepsWInv ==
    ASSUME WInv, CleanUp
    PROVE  WInv'
<1>1. TypeOK'
  BY DEF WInv, WTypeOK, TypeOK, CleanUp, Stages, InScope
<1>2. LeasesDisjoint'
  BY ShrinkingKeepsDisjoint DEF WInv, WTypeOK, TypeOK, CleanUp
<1>3. WTypeOK'
  BY <1>1 DEF WInv, WTypeOK, CleanUp, None
<1>4. Covered' /\ Unborn'
  BY DEF WInv, WTypeOK, TypeOK, Covered, Unborn, Settled, CleanUp, None, Touched
<1>5. MergedIsOver' /\ Settled'
  BY DEF MergedIsOver, Settled, CleanUp
<1>6. DriftIsMerged' /\ ConflictsWereReleased'
  BY DEF DriftIsMerged, ConflictsWereReleased, ConflictOver, GivenUp, CleanUp, None
<1> QED
  BY <1>1, <1>2, <1>3, <1>4, <1>5, <1>6 DEF WInv

(* The invariant holds at the start. *)
LEMMA InitWInv == WInit => WInv
<1> SUFFICES ASSUME WInit PROVE WInv
  OBVIOUS
<1>1. TypeOK /\ LeasesDisjoint
  BY InitIInv DEF WInit, IInv
<1>2. WTypeOK
  BY <1>1 DEF WTypeOK, WInit, None
<1>3. Covered /\ Unborn
  BY DEF Covered, Unborn, WInit, Init, None, Touched
<1>4. MergedIsOver /\ Settled /\ DriftIsMerged /\ ConflictsWereReleased
  BY DEF MergedIsOver, Settled, DriftIsMerged, ConflictsWereReleased, ConflictOver, GivenUp, WInit, None
<1> QED
  BY <1>1, <1>2, <1>3, <1>4 DEF WInv

(* Every step keeps it. *)
LEMMA WNextKeepsWInv ==
    WInv /\ [WNext]_vars => WInv'
<1> SUFFICES ASSUME WInv, [WNext]_vars PROVE WInv'
  OBVIOUS
<1>1. ASSUME NEW a \in Agents, AgentStep(a) PROVE WInv'
  <2>1. CASE Spawn(a)
    BY <2>1, SpawnKeepsWInv
  <2>2. ASSUME NEW request \in SUBSET Paths, ClaimPaths(a, request) PROVE WInv'
    BY <2>2, ClaimKeepsWInv
  <2>3. ASSUME NEW request \in SUBSET Paths, GiveUpPaths(a, request) PROVE WInv'
    BY <2>3, GiveUpKeepsWInv
  <2>4. ASSUME NEW p \in Files, BeginWrite(a, p) PROVE WInv'
    BY <2>4, BeginWriteKeepsWInv
  <2>5. ASSUME NEW p \in Files, EndWrite(a, p) PROVE WInv'
    BY <2>5, EndWriteKeepsWInv
  <2>6. CASE Commit(a)
    BY <2>6, CommitKeepsWInv
  <2>7. ASSUME NEW outcome \in {"done", "failed"}, Finish(a, outcome) PROVE WInv'
    BY <2>7, FinishKeepsWInv
  <2> QED
    BY <1>1, <2>1, <2>2, <2>3, <2>4, <2>5, <2>6, <2>7 DEF AgentStep
<1>2. ASSUME NEW a \in Agents, ReleaseFailed(a) PROVE WInv'
  BY <1>2, ReleaseFailedKeepsWInv
<1>3. ASSUME NEW a \in Agents, Merge(a) PROVE WInv'
  BY <1>3, MergeSucceedsKeepsWInv, MergeConflictsKeepsWInv DEF Merge
<1>4. CASE WaveOver
  BY <1>4, WaveOverKeepsWInv
<1>5. CASE CleanUp
  BY <1>5, CleanUpKeepsWInv
<1>6. CASE UNCHANGED vars
  <2>1. [Next]_leaseVars /\ UNCHANGED <<stage, treeVars>> /\ leases' = leases
    BY <1>6 DEF vars, leaseVars
  <2>2. \A a \in Agents : \A p \in Touched(a) : CanWrite(a, p) => CanWrite(a, p)'
    BY <2>1 DEF CanWrite
  <2> QED
    BY <2>1, <2>2, LeasesOnlyKeepWInv
<1> QED
  BY <1>1, <1>2, <1>3, <1>4, <1>5, <1>6 DEF WNext

-----------------------------------------------------------------------------
(* The theorems *)

(* The inductive invariant holds in every state. *)
THEOREM WorktreeInvariantHolds ==
    WSpec => []WInv
<1>1. WInv /\ [WNext]_vars => WInv'
  BY WNextKeepsWInv
<1> QED
  BY <1>1, InitWInv, PTL DEF WSpec

(* Leases, files and branches keep their types. *)
THEOREM WorktreeTypeCorrect ==
    WSpec => []WTypeOK
<1>1. WInv => WTypeOK
  BY DEF WInv
<1> QED
  BY <1>1, WorktreeInvariantHolds, PTL

(* Agents that may both be merged have changed disjoint sets of files, but for
   what one of them has released after changing it, though the lease is checked
   only before a write. *)
THEOREM OverlapsAreOfReleasedFiles ==
    WSpec => []OverlapsWereReleased
<1>1. WInv => OverlapsWereReleased
  BY TouchedApart DEF WInv, OverlapsWereReleased, Mergeable
<1> QED
  BY <1>1, WorktreeInvariantHolds, PTL

(* A merge conflicts, in whatever order the branches are merged, only over a file
   that was released after it had been changed. *)
THEOREM ConflictsAreOverReleasedFiles ==
    WSpec => []ConflictsWereReleased
<1>1. WInv => ConflictsWereReleased
  BY DEF WInv
<1> QED
  BY <1>1, WorktreeInvariantHolds, PTL
=============================================================================
