------------------------- MODULE CoordinationProofs -------------------------
(***************************************************************************)
(* Proofs about RoomManager, for any number of agents, rooms, budgets and  *)
(* decisions, and about Watchdog, for any number of agents and any graph   *)
(* of waits.                                                               *)
(*                                                                         *)
(* Rooms: a decision is final because every record is about a room that    *)
(* stays resolved, and a resolved room takes no members or turns; and an   *)
(* arbitration decides every expired room because only finitely many rooms *)
(* were opened.                                                            *)
(*                                                                         *)
(* Waits: no agent has two of them (WaitsOK), which is all the invariant   *)
(* there is.  The rest is about what detectDeadlocks returns: a walk meets *)
(* nobody twice and can go no further than the graph is long (Walk,        *)
(* AtItsEnd); it ends in a loop or reaches no cycle that is not known; so  *)
(* after each waiter the cycles among the visited nodes are those found    *)
(* (Detected).                                                             *)
(***************************************************************************)
EXTENDS RoomManager, Watchdog, FiniteSetTheorems, FunctionTheorems, SequenceTheorems,
        WellFoundedInduction, TLAPS

Status == {"none", "open", "resolved", "expired"}
Decision == [room : RoomIds, author : Agents \cup {Orchestrator}, participants : SUBSET Agents]
Opened == {r \in RoomIds : status[r] # "none"}

TypeOK ==
    /\ status \in [RoomIds -> Status]
    /\ members \in [RoomIds -> SUBSET Agents]
    /\ budget \in [RoomIds -> Int]
    /\ used \in [RoomIds -> Nat]
    /\ decisions \in Seq(Decision)
    /\ current \in [RoomIds -> 0..Len(decisions)]
    /\ running \subseteq Agents
    /\ ended \subseteq Agents
    /\ heard \in [Agents -> SUBSET Nat]

DecidedIsResolved == \A k \in DOMAIN decisions : status[decisions[k].room] = "resolved"
UnopenedIsUnused == \A r \in RoomIds : status[r] = "none" => used[r] = 0
FewAreOpened == IsFiniteSet(Opened)

IInv ==
    /\ TypeOK
    /\ DecidedIsResolved
    /\ UnopenedIsUnused
    /\ FewAreOpened
    /\ RecordsStayTrue
    /\ TurnsWithinBudget
    /\ MembersKnowTheDecisions
-----------------------------------------------------------------------------
(* The maximum of a budget and one *)

(* The maximum of a budget and one is an integer and bounds both. *)
LEMMA MaxOfTwo ==
    ASSUME NEW b \in Int
    PROVE  Max({b, 1}) \in Int /\ Max({b, 1}) >= b /\ Max({b, 1}) >= 1
<1>1. \E x \in {b, 1} : \A y \in {b, 1} : x >= y
  <2>1. CASE b >= 1
    BY <2>1
  <2>2. CASE 1 >= b
    BY <2>2
  <2> QED
    BY <2>1, <2>2
<1>2. Max({b, 1}) \in {b, 1} /\ \A y \in {b, 1} : Max({b, 1}) >= y
  BY <1>1 DEF Max
<1> QED
  BY <1>2

(* The expired rooms can be put into an order, and in each order the orchestrator
   may take, every one of them has a place. *)
LEMMA EveryExpiredRoomHasAPlace ==
    ASSUME FewAreOpened, NEW order \in SetToSeqs(Expired)
    PROVE  /\ Cardinality(Expired) \in Nat
           /\ order \in [1..Cardinality(Expired) -> Expired]
           /\ \A i, j \in 1..Cardinality(Expired) : i # j => order[i] # order[j]
           /\ \A r \in Expired : \E k \in 1..Cardinality(Expired) : order[k] = r
<1>1. Expired \in SUBSET Opened
  BY DEF Expired, Opened
<1>2. IsFiniteSet(Expired)
  BY <1>1, FS_Subset DEF FewAreOpened
<1>3. Cardinality(Expired) \in Nat
  BY <1>2, FS_CardinalityType
<1> DEFINE n == Cardinality(Expired)
<1>4. order \in [1..n -> Expired] /\ \A i, j \in 1..n : i # j => order[i] # order[j]
  BY DEF SetToSeqs
<1>5. order \in Injection(1..n, Expired)
  BY <1>4, Fun_IsInj
<1>6. Cardinality(1..n) = n
  BY <1>3, FS_Interval
<1>7. order \in Surjection(1..n, Expired)
  BY <1>2, <1>5, <1>6, FS_Injection
<1>8. \A r \in Expired : \E k \in 1..n : order[k] = r
  BY <1>7 DEF Surjection
<1> QED
  BY <1>3, <1>4, <1>8

(* What a record says of the room, its author and its participants. *)
LEMMA RecordTypes ==
    ASSUME TypeOK
    PROVE  /\ DOMAIN decisions = 1..Len(decisions) /\ Len(decisions) \in Nat
           /\ \A k \in DOMAIN decisions :
                 /\ decisions[k] \in Decision
                 /\ decisions[k].room \in RoomIds
                 /\ decisions[k].author \in Agents \cup {Orchestrator}
                 /\ decisions[k].participants \subseteq Agents
<1>1. DOMAIN decisions = 1..Len(decisions) /\ Len(decisions) \in Nat
  BY DEF TypeOK
<1>2. \A k \in DOMAIN decisions : decisions[k] \in Decision
  BY DEF TypeOK
<1> QED
  BY <1>1, <1>2 DEF Decision

-----------------------------------------------------------------------------
(* The invariant is inductive *)

(* The invariant holds before an agent is spawned. *)
LEMMA InitInv == RoomConstants /\ Init => IInv
<1> SUFFICES ASSUME RoomConstants, Init PROVE IInv
  OBVIOUS
<1> USE DEF Init
<1>1. TypeOK
  BY DEF TypeOK, Status
<1>2. Opened = {}
  BY DEF Opened
<1>3. FewAreOpened
  BY <1>2, FS_EmptySet DEF FewAreOpened
<1>4. \A r \in RoomIds : 0 <= Max({budget[r], 1})
  BY MaxOfTwo
<1> QED
  BY <1>1, <1>3, <1>4 DEF IInv, DecidedIsResolved, UnopenedIsUnused, RecordsStayTrue,
     TurnsWithinBudget, MembersKnowTheDecisions

(* The invariant is preserved when an agent comes or goes: one that comes is told of every
   decision. *)
LEMMA AgentsInv ==
    ASSUME IInv, NEW a \in Agents, Spawn(a) \/ EndRun(a)
    PROVE  IInv'
<1>1. UNCHANGED <<status, members, budget, used, current, decisions>>
  BY DEF Spawn, EndRun, roomVars
<1>2. heard' \in [Agents -> SUBSET Nat] /\ running' \subseteq Agents /\ ended' \subseteq Agents
  <2>1. DOMAIN decisions \in SUBSET Nat
    BY DEF IInv, TypeOK
  <2> QED
    BY <2>1 DEF IInv, TypeOK, Spawn, EndRun
<1>3. TypeOK'
  BY <1>1, <1>2 DEF IInv, TypeOK
<1>4. MembersKnowTheDecisions'
  <2> SUFFICES ASSUME NEW x \in running', NEW k \in DOMAIN decisions, x \in decisions[k].participants
               PROVE  decisions[k].author = x \/ k \in heard'[x]
    BY <1>1 DEF MembersKnowTheDecisions
  <2>1. CASE Spawn(a)
    BY <2>1 DEF IInv, TypeOK, Spawn, MembersKnowTheDecisions
  <2>2. CASE EndRun(a)
    BY <2>2 DEF IInv, TypeOK, EndRun, MembersKnowTheDecisions
  <2> QED
    BY <2>1, <2>2
<1>5. (DecidedIsResolved /\ UnopenedIsUnused /\ FewAreOpened /\ RecordsStayTrue /\ TurnsWithinBudget)'
  BY <1>1 DEF IInv, DecidedIsResolved, UnopenedIsUnused, FewAreOpened, Opened, RecordsStayTrue,
     TurnsWithinBudget
<1> QED
  BY <1>3, <1>4, <1>5 DEF IInv

(* The invariant is preserved when a room is opened: no decision is about it yet. *)
LEMMA OpenInv ==
    ASSUME RoomConstants, IInv, NEW a \in Agents, NEW r \in RoomIds, NEW invite \in SUBSET Agents,
           NEW b \in Budgets, Open(a, r, invite, b)
    PROVE  IInv'
<1> USE DEF IInv, TypeOK, Status
<1>1. TypeOK'
  BY DEF Open, RoomConstants
<1>2. \A k \in DOMAIN decisions : decisions[k].room \in RoomIds /\ decisions[k].room # r
  BY RecordTypes DEF Open, DecidedIsResolved
<1>3. DecidedIsResolved' /\ RecordsStayTrue'
  BY <1>2 DEF Open, DecidedIsResolved, RecordsStayTrue
<1>4. UnopenedIsUnused'
  BY DEF Open, UnopenedIsUnused
<1>5. FewAreOpened'
  <2>1. Opened' = Opened \cup {r}
    BY DEF Open, Opened
  <2> QED
    BY <2>1, FS_AddElement DEF FewAreOpened
<1>6. TurnsWithinBudget'
  <2>1. used'[r] = 0 /\ budget' \in [RoomIds -> Int]
    BY <1>1 DEF Open, UnopenedIsUnused
  <2>2. used'[r] <= Max({budget'[r], 1})
    <3>1. RoomIds = DOMAIN budget' /\ budget'[r] \in Int
      BY <2>1
    <3>2. Max({budget'[r], 1}) \in Int /\ Max({budget'[r], 1}) >= 1
      BY <3>1, MaxOfTwo
    <3> QED
      BY <2>1, <3>2
  <2>3. \A q \in RoomIds : q # r =>
          used'[q] = used[q] /\ budget'[q] = budget[q] /\ status'[q] = status[q]
    BY DEF Open
  <2>4. status'[r] = "open" /\ decisions' = decisions
    BY DEF Open
  <2> QED
    BY <1>2, <2>1, <2>2, <2>3, <2>4 DEF TurnsWithinBudget
<1>7. MembersKnowTheDecisions'
  BY DEF Open, MembersKnowTheDecisions
<1> QED
  BY <1>1, <1>3, <1>4, <1>5, <1>6, <1>7 DEF IInv

(* The invariant is preserved when a turn is taken: the room was open, so no decision
   is about it. *)
LEMMA SendInv ==
    ASSUME IInv, NEW a \in Agents, NEW r \in RoomIds, SendToRoom(a, r)
    PROVE  IInv'
<1> USE DEF IInv, TypeOK, Status
<1>1. TypeOK'
  BY DEF SendToRoom
<1>2. \A k \in DOMAIN decisions : decisions[k].room \in RoomIds /\ decisions[k].room # r
  BY RecordTypes DEF SendToRoom, DecidedIsResolved
<1>3. DecidedIsResolved' /\ RecordsStayTrue' /\ UnopenedIsUnused'
  BY <1>2 DEF SendToRoom, DecidedIsResolved, RecordsStayTrue, UnopenedIsUnused
<1>4. FewAreOpened'
  <2>1. Opened' = Opened
    BY DEF SendToRoom, Opened
  <2> QED
    BY <2>1 DEF FewAreOpened
<1>5. TurnsWithinBudget'
  <2>1. used'[r] = used[r] + 1 /\ budget' = budget /\ decisions' = decisions
    BY DEF SendToRoom
  <2>2. budget[r] \in Int /\ used[r] \in Nat /\ (used[r] = 0 \/ used[r] < budget[r])
    BY DEF SendToRoom, TurnsWithinBudget
  <2>3. used'[r] <= Max({budget'[r], 1})
    <3>1. /\ Max({budget[r], 1}) \in Int
          /\ Max({budget[r], 1}) >= 1 /\ Max({budget[r], 1}) >= budget[r]
      BY <2>2, MaxOfTwo
    <3>2. used[r] + 1 <= Max({budget[r], 1})
      BY <2>2, <3>1
    <3> QED
      BY <2>1, <3>2
  <2>4. \A q \in RoomIds : q # r => used'[q] = used[q] /\ status'[q] = status[q]
    BY DEF SendToRoom
  <2>5. /\ status'[r] = "open" => used'[r] < budget'[r]
        /\ status'[r] = "expired" => used'[r] >= budget'[r]
    BY <2>1, <2>2 DEF SendToRoom
  <2> QED
    BY <1>2, <2>1, <2>2, <2>3, <2>4, <2>5 DEF TurnsWithinBudget
<1>6. MembersKnowTheDecisions'
  BY DEF SendToRoom, MembersKnowTheDecisions
<1> QED
  BY <1>1, <1>3, <1>4, <1>5, <1>6 DEF IInv

(* The invariant is preserved when an agent is invited, for the same reason. *)
LEMMA InviteInv ==
    ASSUME IInv, NEW a \in Agents, NEW r \in RoomIds, Invite(r, a)
    PROVE  IInv'
<1> USE DEF IInv, TypeOK, Status
<1>1. TypeOK'
  BY DEF Invite
<1>2. \A k \in DOMAIN decisions : decisions[k].room \in RoomIds /\ decisions[k].room # r
  BY RecordTypes DEF Invite, DecidedIsResolved
<1> QED
  BY <1>1, <1>2 DEF Invite, DecidedIsResolved, RecordsStayTrue, UnopenedIsUnused, FewAreOpened,
     Opened, TurnsWithinBudget, MembersKnowTheDecisions

(* The invariant is preserved when an agent decides a room: the record is the last one, and
   who takes part in it and is at work is its author or told of it. *)
LEMMA ResolveInv ==
    ASSUME IInv, NEW a \in Agents, NEW r \in RoomIds, Resolve(a, r)
    PROVE  IInv'
<1> DEFINE n == Len(decisions) + 1
<1>1. TypeOK /\ RecordsStayTrue /\ DecidedIsResolved /\ MembersKnowTheDecisions
  BY DEF IInv
<1>2. /\ DOMAIN decisions = 1..Len(decisions) /\ Len(decisions) \in Nat
      /\ Record(r, a) = [room |-> r, author |-> a, participants |-> members[r]]
      /\ Record(r, a) \in Decision
  BY <1>1, RecordTypes DEF TypeOK, Record, Decision
<1>3. /\ decisions' \in Seq(Decision) /\ Len(decisions') = n /\ DOMAIN decisions' = 1..n
      /\ decisions'[n] = Record(r, a)
      /\ \A k \in DOMAIN decisions : decisions'[k] = decisions[k]
  BY <1>1, <1>2 DEF Resolve, TypeOK
<1>4. TypeOK'
  <2>1. status' \in [RoomIds -> Status] /\ current' \in [RoomIds -> 0..Len(decisions')]
    BY <1>1, <1>2, <1>3 DEF Resolve, TypeOK, Status
  <2>2. heard' \in [Agents -> SUBSET Nat]
    BY <1>1, <1>2 DEF Resolve, TypeOK, Tell
  <2> QED
    BY <1>1, <1>3, <2>1, <2>2 DEF Resolve, TypeOK
<1>5. \A k \in DOMAIN decisions' : k = n \/ k \in DOMAIN decisions
  BY <1>2, <1>3
<1>6. DecidedIsResolved' /\ UnopenedIsUnused' /\ FewAreOpened'
  <2>1. Opened' = Opened
    BY <1>1 DEF Resolve, Opened, TypeOK
  <2>2. \A q \in RoomIds : status'[q] = IF q = r THEN "resolved" ELSE status[q]
    BY <1>1 DEF Resolve, TypeOK
  <2>3. DecidedIsResolved'
    BY <1>1, <1>2, <1>3, <1>5, <2>2, RecordTypes DEF DecidedIsResolved
  <2>4. UnopenedIsUnused'
    BY <2>2 DEF UnopenedIsUnused, Resolve, IInv
  <2> QED
    BY <2>1, <2>3, <2>4 DEF FewAreOpened, IInv
<1>7. RecordsStayTrue'
  <2>1. \A q \in RoomIds : /\ status'[q] = IF q = r THEN "resolved" ELSE status[q]
                           /\ current'[q] = IF q = r THEN n ELSE current[q]
    BY <1>1 DEF Resolve, TypeOK
  <2>2. \A q \in RoomIds : current[q] \in 0..Len(decisions)
    BY <1>1 DEF TypeOK
  <2>3. ASSUME NEW q \in RoomIds
        PROVE  /\ status'[q] = "resolved" <=> current'[q] # 0
               /\ current'[q] # 0 =>
                    /\ decisions'[current'[q]].room = q
                    /\ \A k \in current'[q] + 1 .. Len(decisions') : decisions'[k].room # q
    <3>1. CASE q = r
      BY <1>2, <1>3, <2>1, <3>1
    <3>2. CASE q # r
      <4>1. status'[q] = status[q] /\ current'[q] = current[q] /\ current[q] \in 0..Len(decisions)
        BY <2>1, <2>2, <3>2
      <4>2. status[q] = "resolved" <=> current[q] # 0
        BY <1>1 DEF RecordsStayTrue
      <4>3. ASSUME current[q] # 0
            PROVE  decisions'[current[q]].room = q
        BY <1>1, <1>2, <1>3, <4>1, <4>3 DEF RecordsStayTrue
      <4>4. ASSUME current[q] # 0, NEW k \in current[q] + 1 .. n
            PROVE  decisions'[k].room # q
        <5>1. CASE k = n
          BY <1>2, <1>3, <3>2, <5>1
        <5>2. CASE k # n
          <6>1. k \in DOMAIN decisions /\ k \in current[q] + 1 .. Len(decisions)
            BY <1>2, <4>1, <4>4, <5>2
          <6> QED
            BY <1>1, <1>3, <4>4, <6>1 DEF RecordsStayTrue
        <5> QED
          BY <5>1, <5>2
      <4> QED
        BY <1>3, <4>1, <4>2, <4>3, <4>4
    <3> QED
      BY <3>1, <3>2
  <2>4. \A k \in DOMAIN decisions' : members'[decisions'[k].room] = decisions'[k].participants
    <3>1. members' = members
      BY DEF Resolve
    <3> QED
      BY <1>1, <1>2, <1>3, <1>5, <3>1 DEF RecordsStayTrue
  <2> QED
    BY <2>3, <2>4 DEF RecordsStayTrue
<1>8. TurnsWithinBudget'
  <2>1. used' = used /\ budget' = budget
    BY DEF Resolve
  <2>2. \A q \in RoomIds : status'[q] = status[q] \/ status'[q] = "resolved"
    BY <1>1 DEF Resolve, TypeOK
  <2>3. decisions'[n].author # Orchestrator
    BY <1>2, <1>3, RoomAssumption DEF RoomConstants
  <2> QED
    BY <1>3, <1>5, <2>1, <2>2, <2>3 DEF TurnsWithinBudget, IInv
<1>9. MembersKnowTheDecisions'
  <2> SUFFICES ASSUME NEW x \in running, NEW k \in DOMAIN decisions',
                      x \in decisions'[k].participants
               PROVE  decisions'[k].author = x \/ k \in heard'[x]
    BY DEF MembersKnowTheDecisions, Resolve
  <2>1. x \in Agents /\ heard[x] \subseteq heard'[x]
    BY <1>1 DEF Resolve, Tell, TypeOK
  <2>2. CASE k \in DOMAIN decisions
    BY <1>1, <1>3, <2>1, <2>2 DEF MembersKnowTheDecisions
  <2>3. CASE k = n /\ x # a
    <3>1. x \in (members[r] \ {a}) \cap running
      BY <1>2, <1>3, <2>3
    <3> QED
      BY <2>1, <2>3, <3>1 DEF Resolve, Tell
  <2>4. CASE k = n /\ x = a
    BY <1>2, <1>3, <2>4
  <2> QED
    BY <1>5, <2>2, <2>3, <2>4
<1> QED
  BY <1>4, <1>6, <1>7, <1>8, <1>9 DEF IInv

(* The invariant is preserved when the orchestrator arbitrates: the new records are one for
   each expired room, and nobody is at work. *)
LEMMA ArbitrateInv == ASSUME IInv, Arbitrate PROVE IInv'
<1>1. TypeOK /\ RecordsStayTrue /\ DecidedIsResolved /\ FewAreOpened /\ TurnsWithinBudget
  BY DEF IInv
<1> DEFINE n == Len(decisions)
           c == Cardinality(Expired)
<1>2. PICK order \in SetToSeqs(Expired) :
        /\ decisions' = decisions \o [k \in DOMAIN order |-> Record(order[k], Orchestrator)]
        /\ current' = [r \in RoomIds |->
               IF r \in Expired THEN n + (CHOOSE k \in DOMAIN order : order[k] = r)
               ELSE current[r]]
  BY DEF Arbitrate
<1>3. /\ c \in Nat /\ n \in Nat /\ DOMAIN order = 1..c /\ DOMAIN decisions = 1..n
      /\ \A k \in 1..c : order[k] \in Expired
      /\ \A i, j \in 1..c : i # j => order[i] # order[j]
      /\ \A r \in Expired : \E k \in 1..c : order[k] = r
  BY <1>1, EveryExpiredRoomHasAPlace, RecordTypes
<1> DEFINE new == [k \in 1..c |-> Record(order[k], Orchestrator)]
           Place(r) == CHOOSE k \in 1..c : order[k] = r
<1>4. /\ Expired \subseteq RoomIds
      /\ \A k \in 1..c : /\ order[k] \in RoomIds /\ new[k] \in Decision /\ new[k].room = order[k]
                         /\ new[k].author = Orchestrator
                         /\ new[k].participants = members[order[k]]
  <2>1. Expired \subseteq RoomIds
    BY DEF Expired
  <2>2. \A k \in 1..c : order[k] \in RoomIds /\ members[order[k]] \in SUBSET Agents
    BY <1>1, <1>3, <2>1 DEF TypeOK
  <2>3. \A k \in 1..c : new[k] = [room |-> order[k], author |-> Orchestrator,
                                 participants |-> members[order[k]]]
    BY DEF Record
  <2>4. ASSUME NEW k \in 1..c
        PROVE  /\ new[k] \in Decision /\ new[k].room = order[k]
               /\ new[k].author = Orchestrator /\ new[k].participants = members[order[k]]
    <3>1. new[k] = [room |-> order[k], author |-> Orchestrator,
                    participants |-> members[order[k]]]
      BY <2>3
    <3>2. order[k] \in RoomIds /\ members[order[k]] \in SUBSET Agents
      BY <2>2
    <3> HIDE DEF new
    <3> QED
      BY <3>1, <3>2 DEF Decision
  <2> HIDE DEF new
  <2> QED
    BY <2>1, <2>2, <2>4
<1>5. /\ new \in Seq(Decision) /\ Len(new) = c
      /\ decisions' = decisions \o new
  <2>1. new \in [1..c -> Decision]
    BY <1>4
  <2>2. new \in Seq(Decision) /\ Len(new) = c
    BY <1>3, <2>1
  <2> QED
    BY <1>2, <1>3, <2>2
<1>6. /\ decisions' \in Seq(Decision) /\ Len(decisions') = n + c /\ DOMAIN decisions' = 1..(n + c)
      /\ \A k \in 1..n : decisions'[k] = decisions[k]
      /\ \A k \in 1..c : decisions'[n + k] = new[k]
  <2> HIDE DEF new
  <2> QED
    BY <1>1, <1>3, <1>5 DEF TypeOK
<1>7. \A k \in DOMAIN decisions' : k \in 1..n \/ \E i \in 1..c : k = n + i
  <2> SUFFICES ASSUME NEW k \in 1..(n + c), k > n PROVE \E i \in 1..c : k = n + i
    BY <1>3, <1>6
  <2>1. k - n \in 1..c /\ k = n + (k - n)
    BY <1>3
  <2> QED
    BY <2>1
<1>8. /\ \A r \in RoomIds : r \in Expired <=> status[r] = "expired"
      /\ \A r \in RoomIds : status'[r] = IF r \in Expired THEN "resolved" ELSE status[r]
      /\ \A r \in Expired : /\ Place(r) \in 1..c /\ order[Place(r)] = r
                            /\ current'[r] = n + Place(r)
      /\ \A r \in RoomIds : r \notin Expired => current'[r] = current[r]
      /\ status' \in [RoomIds -> Status]
      /\ running = {} /\ UNCHANGED <<members, budget, used, running, ended, heard>>
  <2>1. \A r \in RoomIds : r \in Expired <=> status[r] = "expired"
    BY DEF Expired
  <2>2. \A r \in Expired : Place(r) \in 1..c /\ order[Place(r)] = r
    BY <1>3
  <2>3. \A r \in Expired : current'[r] = n + Place(r)
    BY <1>2, <1>3, <1>4
  <2>4. \A r \in RoomIds : r \notin Expired => current'[r] = current[r]
    BY <1>2
  <2>5. status' = [r \in RoomIds |-> IF r \in Expired THEN "resolved" ELSE status[r]]
    BY DEF Arbitrate
  <2>6. status' \in [RoomIds -> Status]
    BY <1>1, <2>5 DEF TypeOK, Status
  <2>7. \A r \in RoomIds : status'[r] = IF r \in Expired THEN "resolved" ELSE status[r]
    BY <2>5
  <2>8. running = {} /\ UNCHANGED <<members, budget, used, running, ended, heard>>
    BY DEF Arbitrate
  <2> HIDE DEF Place
  <2> QED
    BY <2>1, <2>2, <2>3, <2>4, <2>6, <2>7, <2>8
<1> HIDE DEF Place, new
<1>9. TypeOK'
  <2>1. \A r \in RoomIds : current'[r] \in 0..(n + c)
    <3> SUFFICES ASSUME NEW r \in RoomIds PROVE current'[r] \in 0..(n + c)
      OBVIOUS
    <3>1. current[r] \in 0..n
      BY <1>1 DEF TypeOK
    <3> QED
      BY <1>3, <1>8, <3>1
  <2>2. current' \in [RoomIds -> 0..Len(decisions')]
    BY <1>2, <1>6, <2>1
  <2> QED
    BY <1>1, <1>6, <1>8, <2>2 DEF TypeOK
<1>10. DecidedIsResolved'
  <2> SUFFICES ASSUME NEW k \in DOMAIN decisions' PROVE status'[decisions'[k].room] = "resolved"
    BY DEF DecidedIsResolved
  <2>1. CASE k \in 1..n
    BY <1>1, <1>3, <1>6, <1>8, <2>1, RecordTypes DEF DecidedIsResolved
  <2>2. ASSUME NEW i \in 1..c, k = n + i PROVE status'[decisions'[k].room] = "resolved"
    BY <1>3, <1>4, <1>6, <1>8, <2>2
  <2> QED
    BY <1>7, <2>1, <2>2
<1>11. UnopenedIsUnused' /\ FewAreOpened'
  <2>1. UnopenedIsUnused'
    BY <1>8 DEF UnopenedIsUnused, IInv
  <2>2. Opened' = Opened
    BY <1>8 DEF Opened
  <2> QED
    BY <1>1, <2>1, <2>2 DEF FewAreOpened
<1>12. RecordsStayTrue'
  <2>1. ASSUME NEW r \in RoomIds
        PROVE  /\ status'[r] = "resolved" <=> current'[r] # 0
               /\ current'[r] # 0 =>
                    /\ decisions'[current'[r]].room = r
                    /\ \A k \in current'[r] + 1 .. Len(decisions') : decisions'[k].room # r
    <3>1. CASE r \in Expired
      <4>1. /\ status'[r] = "resolved" /\ Place(r) \in 1..c /\ current'[r] = n + Place(r)
            /\ current'[r] # 0 /\ order[Place(r)] = r
        BY <1>3, <1>8, <3>1
      <4>2. decisions'[current'[r]].room = r
        BY <1>4, <1>6, <4>1
      <4>3. ASSUME NEW k \in current'[r] + 1 .. n + c PROVE decisions'[k].room # r
        <5>1. k - n \in 1..c /\ k - n # Place(r) /\ k = n + (k - n)
          BY <1>3, <4>1
        <5>2. decisions'[k] = new[k - n] /\ order[k - n] # r
          BY <1>3, <1>6, <4>1, <5>1
        <5> QED
          BY <1>4, <5>1, <5>2
      <4> QED
        BY <1>6, <4>1, <4>2, <4>3
    <3>2. CASE r \notin Expired
      <4>1. status'[r] = status[r] /\ current'[r] = current[r] /\ current[r] \in 0..n
        BY <1>1, <1>8, <3>2 DEF TypeOK
      <4>2. status[r] = "resolved" <=> current[r] # 0
        BY <1>1 DEF RecordsStayTrue
      <4>3. ASSUME current[r] # 0 PROVE decisions'[current[r]].room = r
        BY <1>1, <1>3, <1>6, <4>1, <4>3 DEF RecordsStayTrue
      <4>4. ASSUME current[r] # 0, NEW k \in current[r] + 1 .. n + c
            PROVE  decisions'[k].room # r
        <5>0. k \in DOMAIN decisions'
          BY <1>3, <1>6, <4>1, <4>4
        <5>1. CASE k \in 1..n
          BY <1>1, <1>3, <1>6, <4>1, <4>4, <5>1 DEF RecordsStayTrue
        <5>2. ASSUME NEW i \in 1..c, k = n + i PROVE decisions'[k].room # r
          BY <1>3, <1>4, <1>6, <3>2, <5>2
        <5> QED
          BY <1>7, <5>0, <5>1, <5>2
      <4> QED
        BY <1>6, <4>1, <4>2, <4>3, <4>4
    <3> QED
      BY <3>1, <3>2
  <2>2. ASSUME NEW k \in DOMAIN decisions'
        PROVE  members'[decisions'[k].room] = decisions'[k].participants
    <3>1. CASE k \in 1..n
      BY <1>1, <1>3, <1>6, <1>8, <3>1 DEF RecordsStayTrue
    <3>2. ASSUME NEW i \in 1..c, k = n + i
          PROVE  members'[decisions'[k].room] = decisions'[k].participants
      BY <1>4, <1>6, <1>8, <3>2
    <3> QED
      BY <1>7, <3>1, <3>2
  <2> QED
    BY <2>1, <2>2 DEF RecordsStayTrue
<1>13. TurnsWithinBudget'
  <2>1. \A r \in RoomIds : status'[r] = status[r] \/ status'[r] = "resolved"
    BY <1>8
  <2>2. ASSUME NEW k \in DOMAIN decisions', decisions'[k].author = Orchestrator
        PROVE  used[decisions'[k].room] >= budget[decisions'[k].room]
    <3>1. CASE k \in 1..n
      BY <1>1, <1>3, <1>6, <2>2, <3>1 DEF TurnsWithinBudget
    <3>2. ASSUME NEW i \in 1..c, k = n + i
          PROVE  used[decisions'[k].room] >= budget[decisions'[k].room]
      <4>1. order[i] \in RoomIds /\ status[order[i]] = "expired"
        BY <1>3, <1>4, <1>8
      <4>2. decisions'[k].room = order[i]
        BY <1>4, <1>6, <3>2
      <4>3. used[order[i]] >= budget[order[i]]
        BY <1>1, <4>1 DEF TurnsWithinBudget
      <4> QED
        BY <4>2, <4>3
    <3> QED
      BY <1>7, <3>1, <3>2
  <2> QED
    BY <1>1, <1>8, <2>1, <2>2 DEF TurnsWithinBudget
<1>14. MembersKnowTheDecisions'
  BY <1>8 DEF MembersKnowTheDecisions
<1> QED
  BY <1>9, <1>10, <1>11, <1>12, <1>13, <1>14 DEF IInv

(* The invariant is preserved by every step. *)
LEMMA NextInv == RoomConstants /\ IInv /\ [Next]_vars => IInv'
<1> SUFFICES ASSUME RoomConstants, IInv, [Next]_vars PROVE IInv'
  OBVIOUS
<1>1. ASSUME NEW a \in Agents, Spawn(a) \/ EndRun(a) PROVE IInv'
  BY <1>1, AgentsInv
<1>2. ASSUME NEW a \in Agents, NEW r \in RoomIds, SendToRoom(a, r) PROVE IInv'
  BY <1>2, SendInv
<1>3. ASSUME NEW a \in Agents, NEW r \in RoomIds, Resolve(a, r) PROVE IInv'
  BY <1>3, ResolveInv
<1>4. ASSUME NEW a \in Agents, NEW r \in RoomIds, Invite(r, a) PROVE IInv'
  BY <1>4, InviteInv
<1>5. ASSUME NEW a \in Agents, NEW r \in RoomIds, NEW invite \in SUBSET Agents,
             NEW b \in Budgets, Open(a, r, invite, b)
      PROVE  IInv'
  BY <1>5, OpenInv
<1>6. CASE Arbitrate
  BY <1>6, ArbitrateInv
<1>7. CASE UNCHANGED vars
  BY <1>7 DEF vars, roomVars, IInv, TypeOK, DecidedIsResolved, UnopenedIsUnused, FewAreOpened,
     Opened, RecordsStayTrue, TurnsWithinBudget, MembersKnowTheDecisions
<1> QED
  BY <1>1, <1>2, <1>3, <1>4, <1>5, <1>6, <1>7 DEF Next

-----------------------------------------------------------------------------
(* Results *)

(* A room that is decided or out of turns is frozen by every step. *)
LEMMA ClosedRoomsAreFrozen ==
    ASSUME TypeOK, [Next]_vars, NEW r \in RoomIds, status[r] \in {"expired", "resolved"}
    PROVE  /\ status'[r] \in {"expired", "resolved"}
           /\ used'[r] = used[r]
           /\ members'[r] = members[r]
<1>1. ASSUME NEW a \in Agents, Spawn(a) \/ EndRun(a)
      PROVE  UNCHANGED <<status, used, members>>
  BY <1>1 DEF Spawn, EndRun, roomVars
<1>2. ASSUME NEW a \in Agents, NEW q \in RoomIds, SendToRoom(a, q)
      PROVE  status'[r] = status[r] /\ used'[r] = used[r] /\ members' = members
  BY <1>2 DEF SendToRoom, TypeOK
<1>3. ASSUME NEW a \in Agents, NEW q \in RoomIds, Resolve(a, q)
      PROVE  status'[r] \in {status[r], "resolved"} /\ UNCHANGED <<used, members>>
  BY <1>3 DEF Resolve, TypeOK
<1>4. ASSUME NEW a \in Agents, NEW q \in RoomIds, Invite(q, a)
      PROVE  members'[r] = members[r] /\ UNCHANGED <<status, used>>
  BY <1>4 DEF Invite, TypeOK
<1>5. ASSUME NEW a \in Agents, NEW q \in RoomIds, NEW invite \in SUBSET Agents,
             NEW b \in Budgets, Open(a, q, invite, b)
      PROVE  status'[r] = status[r] /\ members'[r] = members[r] /\ used' = used
  BY <1>5 DEF Open, TypeOK
<1>6. CASE Arbitrate
  BY <1>6 DEF Arbitrate
<1>7. CASE UNCHANGED vars
  BY <1>7 DEF vars, roomVars
<1> QED
  BY <1>1, <1>2, <1>3, <1>4, <1>5, <1>6, <1>7 DEF Next

(* For any agents, rooms and budgets: an agent at work knows every decision it has a part
   in, whenever it was spawned and however often the room was decided. *)
THEOREM AgentsAtWorkKnow == Spec => []MembersKnowTheDecisions
<1>1. IInv => MembersKnowTheDecisions
  BY DEF IInv
<1>2. RoomConstants
  BY RoomAssumption
<1> QED
  BY <1>1, <1>2, InitInv, NextInv, PTL DEF Spec

(* For any agents, rooms and budgets: no negotiation takes more turns than its budget, and
   the orchestrator decides only rooms that have used up theirs. *)
THEOREM TurnsStayWithinBudget == Spec => []TurnsWithinBudget
<1>1. IInv => TurnsWithinBudget
  BY DEF IInv
<1>2. RoomConstants
  BY RoomAssumption
<1> QED
  BY <1>1, <1>2, InitInv, NextInv, PTL DEF Spec

(* For any agents, rooms and budgets: a decision stays what it was when it was made; the
   room it is about takes no more turns or members, never opens again, and shows the last
   decision made about it. *)
THEOREM DecisionsNeverChange == Spec => DecisionsAreFinal
<1> DEFINE Frozen == \A r \in RoomIds :
          status[r] \in {"expired", "resolved"} =>
              /\ status'[r] \in {"expired", "resolved"}
              /\ used'[r] = used[r]
              /\ members'[r] = members[r]
<1>1. IInv => RecordsStayTrue
  BY DEF IInv
<1>2. IInv /\ [Next]_vars => Frozen
  BY ClosedRoomsAreFrozen DEF IInv
<1>3. RoomConstants
  BY RoomAssumption
<1> HIDE DEF Frozen
<1>4. Spec => []RecordsStayTrue /\ [][Frozen]_vars
  BY <1>1, <1>2, <1>3, InitInv, NextInv, PTL DEF Spec
<1> QED
  BY <1>4 DEF DecisionsAreFinal, Frozen

-----------------------------------------------------------------------------
(* Induction over sets of numbers *)

NatOrder == {ss \in Nat \X Nat : ss[1] < ss[2]}

LEMMA NatOrderWellFounded == IsWellFoundedOn(NatOrder, Nat)
<1>1. OpToRel(<, Nat) = NatOrder
  BY DEF OpToRel, NatOrder
<1> QED
  BY <1>1, NatLessThanWellFounded

(* A set of numbers that is not empty has a least one. *)
LEMMA LeastNumber ==
    ASSUME NEW T \in SUBSET Nat, T # {}
    PROVE  \E x \in T : \A y \in T : x <= y
<1>1. PICK x \in T : \A y \in T : ~(<<y, x>> \in NatOrder)
  BY NatOrderWellFounded, WFMin
<1>2. \A m, n \in Nat : m < n => <<m, n>> \in NatOrder
  BY DEF NatOrder
<1>3. ASSUME NEW y \in T
      PROVE  x <= y
  <2>1. x \in Nat /\ y \in Nat /\ ~(y < x)
    BY <1>1, <1>2
  <2> QED
    BY <2>1
<1> QED
  BY <1>1, <1>3

(* A set with 0 and with the successor of each of its numbers has all of them. *)
LEMMA SetInduction ==
    ASSUME NEW T, 0 \in T, \A n \in Nat : n \in T => n + 1 \in T
    PROVE  Nat \subseteq T
<1> DEFINE B == Nat \ T
<1> SUFFICES ASSUME B # {} PROVE FALSE
  OBVIOUS
<1>1. PICK x \in B : \A y \in B : x <= y
  BY LeastNumber
<1>2. x - 1 \in Nat /\ x - 1 \notin B /\ x - 1 + 1 = x
  BY <1>1
<1> QED
  BY <1>2

-----------------------------------------------------------------------------
(* The folds of the watchdog satisfy their recursion *)

LEMMA MaxOfPrefix ==
    ASSUME NEW n \in Nat, NEW s \in SUBSET (1..n + 1), n + 1 \in s
    PROVE  Max(s) = n + 1
<1> DEFINE P(x) == x \in s /\ \A y \in s : x >= y
           top == Max(s)
<1>1. P(n + 1)
  OBVIOUS
<1>2. P(CHOOSE x : P(x))
  BY <1>1, Zenon
<1>3. Max(s) = CHOOSE x : P(x)
  BY Zenon DEF Max
<1>4. top \in 1..n + 1 /\ top >= n + 1
  BY <1>2, <1>3
<1> HIDE DEF top
<1>5. top = n + 1
  BY <1>4
<1> QED
  BY <1>5 DEF top

(* One step of each of its folds: of a walk past visited nodes (arg), of the
   detection, of the search for the youngest, of the removal of an agent (arg). *)
Apply(op, arg, x, m) ==
    CASE op = "walk"  -> Further(x, arg)
      [] op = "visit" -> Visit(x, m)
      [] op = "young" -> Younger(x, m)
      [] op = "keep"  -> IF m[2] = arg THEN x ELSE Append(x, m)

(* The function that FoldLeft takes its result from, for n elements. *)
Step(f, op, arg, base, ms, s) == IF s = {} THEN base ELSE Apply(op, arg, f[s \ {Max(s)}], ms[Max(s)])
Iterates(f, op, arg, base, ms, n) == f = [s \in SUBSET (1..n) |-> Step(f, op, arg, base, ms, s)]

(* There is such a function, for any number of events. *)
LEMMA IterationExists ==
    ASSUME NEW op, NEW arg, NEW base, NEW ms, NEW n \in Nat
    PROVE  \E f : Iterates(f, op, arg, base, ms, n)
<1> DEFINE T == {k \in Nat : \E f : Iterates(f, op, arg, base, ms, k)}
<1>1. 0 \in T
  <2> DEFINE f == [s \in {{}} |-> base]
  <2>1. SUBSET (1..0) = {{}}
    OBVIOUS
  <2>2. Iterates(f, op, arg, base, ms, 0)
    BY <2>1 DEF Iterates, Step
  <2> QED
    BY <2>2
<1>2. ASSUME NEW k \in Nat, k \in T PROVE k + 1 \in T
  <2>1. PICK f : Iterates(f, op, arg, base, ms, k)
    BY <1>2
  <2> DEFINE h == [s \in SUBSET (1..k + 1) |-> IF s \in SUBSET (1..k) THEN f[s] ELSE Apply(op, arg, f[s \ {k + 1}], ms[k + 1])]
  <2>2. ASSUME NEW s \in SUBSET (1..k + 1) PROVE h[s] = Step(h, op, arg, base, ms, s)
    <3>1. CASE s \in SUBSET (1..k)
      <4>1. h[s] = f[s] /\ f[s] = Step(f, op, arg, base, ms, s)
        BY <2>1, <3>1 DEF Iterates
      <4>2. s \ {Max(s)} \in SUBSET (1..k) /\ s \ {Max(s)} \in SUBSET (1..k + 1)
        BY <3>1
      <4>3. h[s \ {Max(s)}] = f[s \ {Max(s)}]
        BY <4>2
      <4> HIDE DEF h
      <4> QED
        BY <4>1, <4>3 DEF Step
    <3>2. CASE s \notin SUBSET (1..k)
      <4>1. k + 1 \in s
        BY <3>2
      <4>2. Max(s) = k + 1
        BY <4>1, MaxOfPrefix
      <4>3. s \ {k + 1} \in SUBSET (1..k) /\ s \ {k + 1} \in SUBSET (1..k + 1)
        OBVIOUS
      <4>4. h[s] = Apply(op, arg, f[s \ {k + 1}], ms[k + 1]) /\ h[s \ {k + 1}] = f[s \ {k + 1}]
        BY <3>2, <4>3
      <4> HIDE DEF h
      <4>5. s # {}
        BY <4>1
      <4> QED
        BY <4>2, <4>4, <4>5 DEF Step
    <3> QED
      BY <3>1, <3>2
  <2>3. h = [s \in SUBSET (1..k + 1) |-> h[s]]
    OBVIOUS
  <2> HIDE DEF h
  <2>4. Iterates(h, op, arg, base, ms, k + 1)
    BY <2>2, <2>3 DEF Iterates
  <2>5. k + 1 \in Nat
    OBVIOUS
  <2> QED
    BY <2>4, <2>5
<1> HIDE DEF T
<1>3. n \in T
  BY <1>1, <1>2, SetInduction
<1> QED
  BY <1>3 DEF T


FoldValue(op, arg, base, ms, n) == (CHOOSE f : Iterates(f, op, arg, base, ms, n))[1..n]

(* A fold and its values on the prefixes. *)
Folds(g, op, arg, base, ms, n) ==
    g[0] = base /\ \A k \in Nat : k < n => g[k + 1] = Apply(op, arg, g[k], ms[k + 1])

LEMMA FoldHasValues ==
    ASSUME NEW op, NEW arg, NEW base, NEW ms, NEW n \in Nat
    PROVE  \E g : Folds(g, op, arg, base, ms, n)
                   /\ FoldValue(op, arg, base, ms, n) = g[n]
<1> DEFINE f == CHOOSE f : Iterates(f, op, arg, base, ms, n)
           g == [k \in Nat |-> f[1..k]]
<1>1. Iterates(f, op, arg, base, ms, n)
  BY IterationExists, Zenon
<1> HIDE DEF f
<1>2. g[0] = base
  <2>1. 1..0 = {} /\ {} \in SUBSET (1..n)
    OBVIOUS
  <2> QED
    BY <1>1, <2>1 DEF Iterates, Step
<1>3. ASSUME NEW k \in Nat, k < n PROVE g[k + 1] = Apply(op, arg, g[k], ms[k + 1])
  <2>1. 1..k + 1 \in SUBSET (1..n) /\ (1..k + 1) \ {k + 1} = 1..k /\ 1..k + 1 # {}
    BY <1>3
  <2>2. Max(1..k + 1) = k + 1
    BY MaxOfPrefix
  <2>3. f[1..k + 1] = Step(f, op, arg, base, ms, 1..k + 1)
    BY <1>1, <2>1 DEF Iterates
  <2>4. f[1..k + 1] = Apply(op, arg, f[1..k], ms[k + 1])
    BY <2>1, <2>2, <2>3 DEF Step
  <2> QED
    BY <2>4
<1>4. g[n] = f[1..n]
  OBVIOUS
<1> HIDE DEF g
<1>5. Folds(g, op, arg, base, ms, n)
  BY <1>2, <1>3 DEF Folds
<1> QED
  BY <1>4, <1>5 DEF f, FoldValue

LEMMA WalkFolds ==
    ASSUME NEW start, NEW visited, NEW n \in Nat, DOMAIN waitEdges = 1..n
    PROVE  \E g : Folds(g, "walk", visited, <<start>>, waitEdges, n) /\ Path(start, visited) = g[n]
<1>1. Path(start, visited) = (CHOOSE f : f = [s \in SUBSET DOMAIN waitEdges |-> IF s = {} THEN <<start>>
                                ELSE Further(f[s \ {Max(s)}], visited)])[DOMAIN waitEdges]
  BY DEF Path, FoldLeft, MapThenFoldSet
<1>2. Path(start, visited) = FoldValue("walk", visited, <<start>>, waitEdges, n)
  BY <1>1 DEF FoldValue, Iterates, Step, Apply
<1>3. \E g : Folds(g, "walk", visited, <<start>>, waitEdges, n) /\ FoldValue("walk", visited, <<start>>, waitEdges, n) = g[n]
  BY FoldHasValues
<1> QED
  BY <1>2, <1>3

LEMMA DetectionFolds ==
    ASSUME NEW n \in Nat, DOMAIN waitEdges = 1..n
    PROVE  \E g : Folds(g, "visit", 0, [visited |-> {}, found |-> <<>>], waitEdges, n) /\ DetectDeadlocks = g[n].found
<1> DEFINE base == [visited |-> {}, found |-> <<>>]
<1> HIDE DEF base
<1>1. FoldLeft(Visit, base, waitEdges) = (CHOOSE f : f = [s \in SUBSET DOMAIN waitEdges |-> IF s = {} THEN base
                                ELSE Visit(f[s \ {Max(s)}], waitEdges[Max(s)])])[DOMAIN waitEdges]
  BY DEF FoldLeft, MapThenFoldSet
<1>2. FoldLeft(Visit, base, waitEdges) = FoldValue("visit", 0, base, waitEdges, n)
  BY <1>1 DEF FoldValue, Iterates, Step, Apply
<1>3. \E g : Folds(g, "visit", 0, base, waitEdges, n) /\ FoldValue("visit", 0, base, waitEdges, n) = g[n]
  BY FoldHasValues
<1>4. \E g : Folds(g, "visit", 0, base, waitEdges, n) /\ FoldLeft(Visit, base, waitEdges) = g[n]
  BY <1>2, <1>3
<1> QED
  BY <1>4 DEF base, DetectDeadlocks

LEMMA YoungestFolds ==
    ASSUME NEW c, NEW n \in Nat, DOMAIN c = 1..n
    PROVE  \E g : Folds(g, "young", 0, c[1], c, n) /\ FindYoungest(c) = g[n]
<1>1. FindYoungest(c) = (CHOOSE f : f = [s \in SUBSET DOMAIN c |-> IF s = {} THEN c[1]
                                ELSE Younger(f[s \ {Max(s)}], c[Max(s)])])[DOMAIN c]
  BY DEF FindYoungest, FoldLeft, MapThenFoldSet
<1>2. FindYoungest(c) = FoldValue("young", 0, c[1], c, n)
  BY <1>1 DEF FoldValue, Iterates, Step, Apply
<1>3. \E g : Folds(g, "young", 0, c[1], c, n) /\ FoldValue("young", 0, c[1], c, n) = g[n]
  BY FoldHasValues
<1> QED
  BY <1>2, <1>3

LEMMA RemovalFolds ==
    ASSUME NEW a, NEW edges, NEW n \in Nat, DOMAIN edges = 1..n
    PROVE  \E g : Folds(g, "keep", a, <<>>, edges, n) /\ NotFor(a, edges) = g[n]
<1>1. NotFor(a, edges) = (CHOOSE f : f = [s \in SUBSET DOMAIN edges |-> IF s = {} THEN <<>>
                                ELSE IF edges[Max(s)][2] = a THEN f[s \ {Max(s)}]
                                     ELSE Append(f[s \ {Max(s)}], edges[Max(s)])])[DOMAIN edges]
  BY DEF NotFor, FoldLeft, MapThenFoldSet
<1>2. NotFor(a, edges) = FoldValue("keep", a, <<>>, edges, n)
  BY <1>1 DEF FoldValue, Iterates, Step, Apply
<1>3. \E g : Folds(g, "keep", a, <<>>, edges, n) /\ FoldValue("keep", a, <<>>, edges, n) = g[n]
  BY FoldHasValues
<1> QED
  BY <1>2, <1>3


-----------------------------------------------------------------------------
(* The waits: at most one of every agent *)

Edge == Nodes \X Nodes
OneEach(s) == \A j, k \in DOMAIN s : s[j][1] = s[k][1] => j = k
WaitsOK == waitEdges \in Seq(Edge) /\ OneEach(waitEdges)

LEMMA MinOfOne ==
    ASSUME NEW i \in Nat
    PROVE  Min({i}) = i
<1> DEFINE P(x) == x \in {i} /\ \A y \in {i} : x <= y
<1>1. P(i)
  OBVIOUS
<1>2. P(CHOOSE x : P(x))
  BY <1>1, Zenon
<1>3. Min({i}) = CHOOSE x : P(x)
  BY Zenon DEF Min
<1> QED
  BY <1>2, <1>3

(* Removing the first wait of an agent removes all there is of it. *)
LEMMA WithoutFirstFacts ==
    ASSUME WaitsOK, NEW a
    PROVE  /\ WithoutFirst(a) \in Seq(Edge) /\ OneEach(WithoutFirst(a))
           /\ ToSet(WithoutFirst(a)) = {e \in ToSet(waitEdges) : e[1] # a}
<1> DEFINE s == waitEdges
           n == Len(waitEdges)
           mine == {k \in DOMAIN waitEdges : waitEdges[k][1] = a}
<1>1. s \in Seq(Edge) /\ n \in Nat /\ DOMAIN s = 1..n /\ OneEach(s)
  BY DEF WaitsOK
<1>2. CASE mine = {}
  <2>1. WithoutFirst(a) = s
    BY <1>2 DEF WithoutFirst
  <2>2. \A e \in ToSet(s) : e[1] # a
    BY <1>2 DEF ToSet
  <2> QED
    BY <1>1, <2>1, <2>2
<1>3. CASE mine # {}
  <2>1. PICK i \in mine : TRUE
    BY <1>3
  <2>2. i \in 1..n /\ s[i][1] = a /\ \A k \in 1..n : s[k][1] = a => k = i
    BY <1>1, <2>1 DEF OneEach
  <2>3. mine = {i}
    BY <1>1, <2>2
  <2>4. WithoutFirst(a) = SubSeq(s, 1, i - 1) \o SubSeq(s, i + 1, n)
    <3>1. i \in Nat /\ Min(mine) = i
      BY <2>2, <2>3, MinOfOne
    <3>2. WithoutFirst(a) = RemoveAt(waitEdges, Min(mine))
      BY <1>3 DEF WithoutFirst
    <3> QED
      BY <3>1, <3>2 DEF RemoveAt
  <2> DEFINE t == SubSeq(s, 1, i - 1) \o SubSeq(s, i + 1, n)
  <2>5. /\ t \in Seq(Edge) /\ Len(t) = n - 1 /\ DOMAIN t = 1..n - 1
        /\ \A k \in 1..n - 1 : t[k] = IF k < i THEN s[k] ELSE s[k + 1]
    <3> HIDE DEF mine, s, n
    <3> DEFINE left == SubSeq(s, 1, i - 1)
               right == SubSeq(s, i + 1, n)
    <3>1. /\ left \in Seq(Edge) /\ Len(left) = i - 1
          /\ \A k \in 1..i - 1 : left[k] = s[k]
      BY <1>1, <2>2
    <3>2. /\ right \in Seq(Edge) /\ Len(right) = n - i
          /\ \A k \in 1..n - i : right[k] = s[k + i]
      BY <1>1, <2>2
    <3>3. t = left \o right
      OBVIOUS
    <3> HIDE DEF left, right, t
    <3>4. /\ t \in Seq(Edge) /\ Len(t) = n - 1 /\ DOMAIN t = 1..n - 1
          /\ \A k \in 1..n - 1 : t[k] = IF k <= i - 1 THEN left[k] ELSE right[k - (i - 1)]
      BY <1>1, <2>2, <3>1, <3>2, <3>3, SMTT(30)
    <3>5. ASSUME NEW k \in 1..n - 1, k < i PROVE t[k] = s[k]
      BY <1>1, <2>2, <3>1, <3>4, <3>5
    <3>6. ASSUME NEW k \in 1..n - 1, ~(k < i) PROVE t[k] = s[k + 1]
      <4>1. k - (i - 1) \in 1..n - i /\ k - (i - 1) + i = k + 1 /\ ~(k <= i - 1)
        BY <1>1, <2>2, <3>6
      <4> QED
        BY <3>2, <3>4, <4>1
    <3> QED
      BY <3>4, <3>5, <3>6
  <2> HIDE DEF t, mine, s, n
  <2>6. OneEach(t)
    <3> SUFFICES ASSUME NEW j \in 1..n - 1, NEW k \in 1..n - 1, t[j][1] = t[k][1] PROVE j = k
      BY <2>5 DEF OneEach
    <3>1. \A x, y \in 1..n : s[x][1] = s[y][1] => x = y
      BY <1>1 DEF OneEach
    <3> DEFINE at(x) == IF x < i THEN x ELSE x + 1
    <3>2. at(j) \in 1..n /\ at(k) \in 1..n /\ t[j] = s[at(j)] /\ t[k] = s[at(k)]
      BY <1>1, <2>2, <2>5
    <3>3. at(j) = at(k)
      BY <3>1, <3>2
    <3> QED
      BY <1>1, <2>2, <3>3
  <2>7. ToSet(t) = {e \in ToSet(s) : e[1] # a}
    <3>1. ASSUME NEW k \in 1..n - 1 PROVE t[k] \in ToSet(s) /\ t[k][1] # a
      <4>1. CASE k < i
        <5>1. t[k] = s[k] /\ k \in 1..n /\ k # i
          BY <1>1, <2>2, <2>5, <4>1
        <5> QED
          BY <1>1, <2>2, <5>1 DEF ToSet
      <4>2. CASE ~(k < i)
        <5>1. t[k] = s[k + 1] /\ k + 1 \in 1..n /\ k + 1 # i
          BY <1>1, <2>2, <2>5, <4>2
        <5> QED
          BY <1>1, <2>2, <5>1 DEF ToSet
      <4> QED
        BY <4>1, <4>2
    <3>2. ASSUME NEW k \in 1..n, s[k][1] # a PROVE s[k] \in ToSet(t)
      <4>1. CASE k < i
        <5>1. t[k] = s[k] /\ k \in 1..n - 1
          BY <1>1, <2>2, <2>5, <4>1
        <5> QED
          BY <2>5, <5>1 DEF ToSet
      <4>2. CASE ~(k < i)
        <5>1. k # i
          BY <2>2, <3>2
        <5>2. t[k - 1] = s[k] /\ k - 1 \in 1..n - 1
          BY <1>1, <2>2, <2>5, <4>2, <5>1
        <5> QED
          BY <2>5, <5>2 DEF ToSet
      <4> QED
        BY <4>1, <4>2
    <3>3. \A e \in ToSet(t) : e \in ToSet(s) /\ e[1] # a
      BY <2>5, <3>1 DEF ToSet
    <3>4. \A e \in ToSet(s) : e[1] # a => e \in ToSet(t)
      BY <1>1, <3>2 DEF ToSet
    <3> QED
      BY <3>3, <3>4
  <2> QED
    BY <2>4, <2>5, <2>6, <2>7 DEF t, s
<1> QED
  BY <1>2, <1>3

(* What is kept of the waits when an agent is removed. *)
LEMMA NotForFacts ==
    ASSUME NEW s \in Seq(Edge), OneEach(s), NEW a
    PROVE  /\ NotFor(a, s) \in Seq(Edge) /\ OneEach(NotFor(a, s))
           /\ ToSet(NotFor(a, s)) = {e \in ToSet(s) : e[2] # a}
<1> DEFINE n == Len(s)
           Kept(k) == {s[i] : i \in {j \in 1..k : s[j][2] # a}}
<1>1. n \in Nat /\ DOMAIN s = 1..n /\ \A i \in 1..n : s[i] \in Edge
  OBVIOUS
<1> HIDE DEF n
<1>2. PICK g : Folds(g, "keep", a, <<>>, s, n) /\ NotFor(a, s) = g[n]
  BY <1>1, RemovalFolds
<1> DEFINE T == {k \in Nat : k <= n => g[k] \in Seq(Edge) /\ OneEach(g[k]) /\ ToSet(g[k]) = Kept(k)}
<1>3. 0 \in T
  <2>1. g[0] = <<>> /\ Kept(0) = {}
    BY <1>2 DEF Folds
  <2>2. <<>> \in Seq(Edge) /\ OneEach(<<>>) /\ ToSet(<<>>) = {}
    BY DEF OneEach, ToSet
  <2> QED
    BY <2>1, <2>2
<1>4. ASSUME NEW k \in Nat, k \in T PROVE k + 1 \in T
  <2> SUFFICES ASSUME k + 1 <= n
               PROVE  g[k + 1] \in Seq(Edge) /\ OneEach(g[k + 1]) /\ ToSet(g[k + 1]) = Kept(k + 1)
    OBVIOUS
  <2>1. g[k] \in Seq(Edge) /\ OneEach(g[k]) /\ ToSet(g[k]) = Kept(k) /\ k < n /\ k + 1 \in 1..n
    BY <1>1, <1>4
  <2>2. g[k + 1] = IF s[k + 1][2] = a THEN g[k] ELSE Append(g[k], s[k + 1])
    BY <1>2, <2>1 DEF Folds, Apply
  <2>3. CASE s[k + 1][2] = a
    <3>1. Kept(k + 1) = Kept(k)
      <4>1. {j \in 1..k + 1 : s[j][2] # a} = {j \in 1..k : s[j][2] # a}
        BY <2>3
      <4> QED
        BY <4>1
    <3> QED
      BY <2>1, <2>2, <2>3, <3>1
  <2>4. CASE s[k + 1][2] # a
    <3> DEFINE e == s[k + 1]
               p == g[k]
               m == Len(g[k])
               q == Append(g[k], s[k + 1])
    <3>1. /\ e \in Edge /\ p \in Seq(Edge) /\ m \in Nat /\ DOMAIN p = 1..m /\ DOMAIN q = 1..m + 1
          /\ q \in Seq(Edge) /\ q[m + 1] = e /\ \A i \in 1..m : q[i] = p[i]
      BY <1>1, <2>1
    <3>2. ToSet(q) = ToSet(p) \cup {e}
      <4> HIDE DEF e, p, q, m
      <4>1. \A x \in ToSet(q) : x \in ToSet(p) \cup {e}
        BY <3>1 DEF ToSet
      <4>2. \A x \in ToSet(p) \cup {e} : x \in ToSet(q)
        BY <3>1 DEF ToSet
      <4> QED
        BY <4>1, <4>2
    <3>3. {j \in 1..k + 1 : s[j][2] # a} = {j \in 1..k : s[j][2] # a} \cup {k + 1}
      BY <2>4
    <3>4. Kept(k + 1) = Kept(k) \cup {e}
      BY <3>3
    <3>5. \A i \in 1..m : p[i][1] # e[1]
      <4> SUFFICES ASSUME NEW i \in 1..m, p[i][1] = e[1] PROVE FALSE
        OBVIOUS
      <4>1. p[i] \in Kept(k)
        BY <2>1, <3>1 DEF ToSet
      <4>2. PICK j \in 1..k : p[i] = s[j]
        BY <4>1
      <4>3. j \in DOMAIN s /\ k + 1 \in DOMAIN s /\ s[j][1] = s[k + 1][1]
        BY <1>1, <2>1, <4>2
      <4> QED
        BY <4>3 DEF OneEach
    <3>6. OneEach(q)
      <4> HIDE DEF e, p, q, m
      <4> SUFFICES ASSUME NEW i \in 1..m + 1, NEW j \in 1..m + 1, q[i][1] = q[j][1] PROVE i = j
        BY <3>1 DEF OneEach
      <4>1. \A x, y \in 1..m : p[x][1] = p[y][1] => x = y
        BY <2>1, <3>1 DEF OneEach, p
      <4> QED
        BY <3>1, <3>5, <4>1, SMTT(30)
    <3> QED
      BY <2>1, <2>2, <2>4, <3>1, <3>2, <3>4, <3>6
  <2> QED
    BY <2>3, <2>4
<1> HIDE DEF T
<1>5. n \in T
  BY <1>1, <1>3, <1>4, SetInduction
<1>6. g[n] \in Seq(Edge) /\ OneEach(g[n]) /\ ToSet(g[n]) = Kept(n)
  BY <1>1, <1>5 DEF T
<1>7. Kept(n) = {e \in ToSet(s) : e[2] # a}
  <2>1. \A e \in Kept(n) : e \in ToSet(s) /\ e[2] # a
    BY <1>1 DEF ToSet
  <2>2. \A e \in ToSet(s) : e[2] # a => e \in Kept(n)
    BY <1>1 DEF ToSet
  <2> QED
    BY <2>1, <2>2
<1> QED
  BY <1>2, <1>6, <1>7

LEMMA InitWaits == WatchdogInit => WaitsOK
  BY DEF WatchdogInit, WaitsOK, OneEach

LEMMA AddWaitWaits ==
    ASSUME WaitsOK, NEW a \in Nodes, NEW b \in Nodes, AddWait(a, b)
    PROVE  WaitsOK'
<1> DEFINE t == WithoutFirst(a)
           m == Len(t)
           e == <<a, b>>
           q == Append(t, e)
<1>1. t \in Seq(Edge) /\ OneEach(t) /\ ToSet(t) = {x \in ToSet(waitEdges) : x[1] # a}
  BY WithoutFirstFacts
<1>2. waitEdges' = q
  BY DEF AddWait
<1>3. e \in Edge /\ e[1] = a
  BY DEF Edge
<1> HIDE DEF t, e
<1>4. /\ m \in Nat /\ DOMAIN t = 1..m /\ DOMAIN q = 1..m + 1 /\ q \in Seq(Edge)
      /\ q[m + 1] = e /\ \A i \in 1..m : q[i] = t[i]
  BY <1>1, <1>3
<1>5. \A i \in 1..m : t[i][1] # a
  BY <1>1, <1>4 DEF ToSet
<1> HIDE DEF m, q
<1>6. OneEach(q)
  <2> SUFFICES ASSUME NEW i \in 1..m + 1, NEW j \in 1..m + 1, q[i][1] = q[j][1] PROVE i = j
    BY <1>4 DEF OneEach
  <2>1. \A x, y \in 1..m : t[x][1] = t[y][1] => x = y
    BY <1>1, <1>4 DEF OneEach
  <2> QED
    BY <1>3, <1>4, <1>5, <2>1
<1> QED
  BY <1>2, <1>4, <1>6 DEF WaitsOK

LEMMA NextWaits == WaitsOK /\ [WatchdogNext]_waitEdges => WaitsOK'
<1> SUFFICES ASSUME WaitsOK, [WatchdogNext]_waitEdges PROVE WaitsOK'
  OBVIOUS
<1>1. ASSUME NEW a \in Nodes, NEW b \in Nodes, AddWait(a, b) PROVE WaitsOK'
  BY <1>1, AddWaitWaits
<1>2. ASSUME NEW a \in Nodes, RemoveWait(a) PROVE WaitsOK'
  BY <1>2, WithoutFirstFacts DEF RemoveWait, WaitsOK
<1>3. ASSUME NEW a \in Nodes, RemoveAgent(a) PROVE WaitsOK'
  <2>1. WithoutFirst(a) \in Seq(Edge) /\ OneEach(WithoutFirst(a))
    BY WithoutFirstFacts
  <2>2. NotFor(a, WithoutFirst(a)) \in Seq(Edge) /\ OneEach(NotFor(a, WithoutFirst(a)))
    BY <2>1, NotForFacts
  <2> QED
    BY <1>3, <2>2 DEF RemoveAgent, WaitsOK
<1>4. CASE UNCHANGED waitEdges
  BY <1>4 DEF WaitsOK
<1> QED
  BY <1>1, <1>2, <1>3, <1>4 DEF WatchdogNext

LEMMA WaitsInvariant == WatchdogSpec => []WaitsOK
  BY InitWaits, NextWaits, PTL DEF WatchdogSpec

(* Removing an agent removes its wait and every wait for it, and no other, however
   many agents wait for it. *)
THEOREM NobodyWaitsForTheRemoved == WatchdogSpec => RemovalIsComplete
<1>1. ASSUME WaitsOK, NEW a \in Nodes, RemoveAgent(a)
      PROVE  ToSet(waitEdges') = {e \in ToSet(waitEdges) : a \notin {e[1], e[2]}}
  <2> DEFINE t == WithoutFirst(a)
  <2>1. t \in Seq(Edge) /\ OneEach(t) /\ ToSet(t) = {e \in ToSet(waitEdges) : e[1] # a}
    BY <1>1, WithoutFirstFacts
  <2>2. waitEdges' = NotFor(a, t)
    BY <1>1 DEF RemoveAgent
  <2> HIDE DEF t
  <2>3. ToSet(NotFor(a, t)) = {e \in ToSet(t) : e[2] # a}
    BY <2>1, NotForFacts
  <2> QED
    BY <2>1, <2>2, <2>3
<1>2. WaitsOK /\ [WatchdogNext]_waitEdges =>
        [\A a \in Nodes : RemoveAgent(a) =>
              ToSet(waitEdges') = {e \in ToSet(waitEdges) : a \notin {e[1], e[2]}}]_waitEdges
  BY <1>1
<1> QED
  BY <1>2, WaitsInvariant, PTL DEF WatchdogSpec, RemovalIsComplete


-----------------------------------------------------------------------------
(* The graph of the waits *)

LEMMA MaxOfOne ==
    ASSUME NEW i \in Nat
    PROVE  Max({i}) = i
<1> DEFINE P(x) == x \in {i} /\ \A y \in {i} : x >= y
<1>1. P(i)
  OBVIOUS
<1>2. P(CHOOSE x : P(x))
  BY <1>1, Zenon
<1>3. Max({i}) = CHOOSE x : P(x)
  BY Zenon DEF Max
<1> QED
  BY <1>2, <1>3

LEMMA EdgeFacts ==
    ASSUME WaitsOK
    PROVE  /\ Len(waitEdges) \in Nat /\ DOMAIN waitEdges = 1..Len(waitEdges)
           /\ \A k \in DOMAIN waitEdges :
                /\ waitEdges[k][1] \in Nodes /\ waitEdges[k][2] \in Nodes
                /\ waitEdges[k][1] \in Waiters
                /\ WaitsFor(waitEdges[k][1]) = waitEdges[k][2]
<1>1. Len(waitEdges) \in Nat /\ DOMAIN waitEdges = 1..Len(waitEdges)
      /\ \A k \in DOMAIN waitEdges : waitEdges[k] \in Edge
  BY DEF WaitsOK
<1>2. ASSUME NEW k \in DOMAIN waitEdges
      PROVE  WaitsFor(waitEdges[k][1]) = waitEdges[k][2]
  <2>1. {j \in DOMAIN waitEdges : waitEdges[j][1] = waitEdges[k][1]} = {k}
    BY DEF WaitsOK, OneEach
  <2>2. Max({k}) = k
    BY <1>1, MaxOfOne
  <2> QED
    BY <2>1, <2>2 DEF WaitsFor
<1>3. \A k \in DOMAIN waitEdges : waitEdges[k][1] \in Nodes /\ waitEdges[k][2] \in Nodes
  BY <1>1 DEF Edge
<1> QED
  BY <1>1, <1>2, <1>3 DEF Waiters

LEMMA WaiterFacts ==
    ASSUME WaitsOK, NEW a \in Waiters
    PROVE  a \in Nodes /\ WaitsFor(a) \in Nodes
<1>1. PICK k \in DOMAIN waitEdges : a = waitEdges[k][1]
  BY DEF Waiters
<1> QED
  BY <1>1, EdgeFacts

(* Whom the agents of a closed set wait for is in it. *)
LEMMA ClosedFacts ==
    ASSUME WaitsOK, NEW C
    PROVE  Closed(C) <=> \A a \in Waiters : a \in C => WaitsFor(a) \in C
<1>1. ASSUME Closed(C), NEW a \in Waiters, a \in C PROVE WaitsFor(a) \in C
  <2>1. PICK k \in DOMAIN waitEdges : a = waitEdges[k][1]
    BY DEF Waiters
  <2>2. WaitsFor(a) = waitEdges[k][2]
    BY <2>1, EdgeFacts
  <2> QED
    BY <1>1, <2>1, <2>2 DEF Closed
<1>2. ASSUME \A a \in Waiters : a \in C => WaitsFor(a) \in C PROVE Closed(C)
  <2> SUFFICES ASSUME NEW k \in DOMAIN waitEdges, waitEdges[k][1] \in C PROVE waitEdges[k][2] \in C
    BY DEF Closed
  <2>1. waitEdges[k][1] \in Waiters /\ WaitsFor(waitEdges[k][1]) = waitEdges[k][2]
    BY EdgeFacts
  <2> QED
    BY <1>2, <2>1
<1> QED
  BY <1>1, <1>2

-----------------------------------------------------------------------------
(* A walk meets nobody twice and no visited node, and ends where it must *)

Walk(p, visited) ==
    /\ p \in Seq(Nodes) /\ Len(p) >= 1
    /\ \A i, j \in 1..Len(p) : p[i] = p[j] => i = j
    /\ \A i \in 1..Len(p) - 1 : p[i] \in Waiters /\ p[i + 1] = WaitsFor(p[i])
    /\ \A i \in 1..Len(p) : p[i] \notin visited

AtItsEnd(p, visited) ==
    p[Len(p)] \in Waiters => WaitsFor(p[Len(p)]) \in visited \cup ToSet(p)

LEMMA WalkType ==
    ASSUME NEW p, NEW visited, Walk(p, visited)
    PROVE  /\ Len(p) \in Nat /\ Len(p) >= 1 /\ DOMAIN p = 1..Len(p)
           /\ ToSet(p) = {p[i] : i \in 1..Len(p)}
           /\ \A i \in 1..Len(p) : p[i] \in Nodes
  BY DEF Walk, ToSet

LEMMA FurtherWalks ==
    ASSUME WaitsOK, NEW visited, NEW p, Walk(p, visited), NEW q, q = Further(p, visited)
    PROVE  /\ Walk(q, visited) /\ q[1] = p[1]
           /\ (AtItsEnd(p, visited) /\ q = p) \/ Len(q) = Len(p) + 1
<1> DEFINE m == Len(p)
           last == p[m]
<1>1. m \in Nat /\ m >= 1 /\ DOMAIN p = 1..m /\ ToSet(p) = {p[i] : i \in 1..m} /\ last \in Nodes
  BY WalkType
<1>2. CASE ~(last \in Waiters /\ WaitsFor(last) \notin visited \cup ToSet(p))
  <2>1. q = p
    BY <1>2 DEF Further
  <2> QED
    BY <1>2, <2>1 DEF AtItsEnd
<1>3. CASE last \in Waiters /\ WaitsFor(last) \notin visited \cup ToSet(p)
  <2> DEFINE next == WaitsFor(last)
  <2>1. q = Append(p, next) /\ next \in Nodes
    BY <1>3, WaiterFacts DEF Further
  <2> HIDE DEF next
  <2>2. /\ q \in Seq(Nodes) /\ Len(q) = m + 1 /\ q[m + 1] = next
        /\ \A i \in 1..m : q[i] = p[i]
    BY <1>1, <2>1 DEF Walk
  <2>3. next \notin visited /\ \A i \in 1..m : p[i] # next
    BY <1>1, <1>3 DEF next
  <2>4. \A i, j \in 1..m + 1 : q[i] = q[j] => i = j
    <3>1. \A i, j \in 1..m : p[i] = p[j] => i = j
      BY DEF Walk
    <3> HIDE DEF m
    <3> QED
      BY <1>1, <2>2, <2>3, <3>1
  <2>5. ASSUME NEW i \in 1..m PROVE q[i] \in Waiters /\ q[i + 1] = WaitsFor(q[i])
    <3>1. CASE i = m
      BY <1>1, <1>3, <2>2, <3>1 DEF next
    <3>2. CASE i # m
      <4>1. i \in 1..m - 1 /\ i + 1 \in 1..m
        <5> HIDE DEF m
        <5> QED
          BY <1>1, <3>2
      <4> QED
        BY <1>1, <2>2, <4>1 DEF Walk
    <3> QED
      BY <3>1, <3>2
  <2>6. \A i \in 1..m + 1 : q[i] \notin visited
    <3>1. \A i \in 1..m : p[i] \notin visited
      BY DEF Walk
    <3> HIDE DEF m
    <3> QED
      BY <1>1, <2>2, <2>3, <3>1
  <2>7. q[1] = p[1] /\ Len(q) - 1 = m
    BY <1>1, <2>2
  <2> HIDE DEF m
  <2> QED
    BY <1>1, <2>2, <2>4, <2>5, <2>6, <2>7 DEF Walk, m
<1> QED
  BY <1>2, <1>3

(* There are not more waiters than waits. *)
LEMMA WalkIsShort ==
    ASSUME WaitsOK, NEW visited, NEW p, Walk(p, visited), p[Len(p)] \in Waiters
    PROVE  Len(p) <= Len(waitEdges)
<1> DEFINE m == Len(p)
           n == Len(waitEdges)
           f == [i \in 1..m |-> CHOOSE k \in 1..n : waitEdges[k][1] = p[i]]
<1>1. m \in Nat /\ n \in Nat /\ DOMAIN waitEdges = 1..n
  BY WalkType, EdgeFacts
<1>2. \A i \in 1..m : p[i] \in Waiters
  <2> SUFFICES ASSUME NEW i \in 1..m PROVE p[i] \in Waiters
    OBVIOUS
  <2>1. i = m \/ i \in 1..m - 1
    BY <1>1
  <2> QED
    BY <2>1 DEF Walk
<1>3. \A i \in 1..m : \E k \in 1..n : waitEdges[k][1] = p[i]
  BY <1>1, <1>2 DEF Waiters
<1>4. \A i \in 1..m : f[i] \in 1..n /\ waitEdges[f[i]][1] = p[i]
  BY <1>3
<1>5. f \in [1..m -> 1..n]
  BY <1>3
<1>6. \A i, j \in 1..m : p[i] = p[j] => i = j
  BY DEF Walk
<1>7. DOMAIN f = 1..m
  OBVIOUS
<1> HIDE DEF f, m, n
<1>8. \A i, j \in 1..m : f[i] = f[j] => i = j
  BY <1>4, <1>6
<1>9. f \in Injection(1..m, 1..n)
  BY <1>5, <1>7, <1>8 DEF Injection, IsInjective
<1>10. ExistsInjection(1..m, 1..n)
  BY <1>9 DEF ExistsInjection
<1> QED
  BY <1>1, <1>10, Fun_NatInjLeq DEF m, n

LEMMA PathWalks ==
    ASSUME WaitsOK, NEW visited, NEW start \in Nodes, start \notin visited
    PROVE  /\ Walk(Path(start, visited), visited) /\ AtItsEnd(Path(start, visited), visited)
           /\ Path(start, visited)[1] = start
<1> DEFINE n == Len(waitEdges)
<1>1. n \in Nat /\ DOMAIN waitEdges = 1..n
  BY EdgeFacts
<1>2. PICK g : Folds(g, "walk", visited, <<start>>, waitEdges, n) /\ Path(start, visited) = g[n]
  BY <1>1, WalkFolds
<1> HIDE DEF n
<1> DEFINE T == {k \in Nat : k <= n => /\ Walk(g[k], visited) /\ g[k][1] = start
                                       /\ AtItsEnd(g[k], visited) \/ Len(g[k]) = k + 1}
<1>3. 0 \in T
  <2>1. g[0] = <<start>>
    BY <1>2 DEF Folds
  <2>2. <<start>> \in Seq(Nodes) /\ Len(<<start>>) = 1 /\ <<start>>[1] = start
    OBVIOUS
  <2>3. Walk(<<start>>, visited)
    BY <2>2 DEF Walk
  <2> QED
    BY <2>1, <2>2, <2>3
<1>4. ASSUME NEW k \in Nat, k \in T PROVE k + 1 \in T
  <2> SUFFICES ASSUME k + 1 <= n
               PROVE  /\ Walk(g[k + 1], visited) /\ g[k + 1][1] = start
                      /\ AtItsEnd(g[k + 1], visited) \/ Len(g[k + 1]) = k + 1 + 1
    OBVIOUS
  <2>1. k < n /\ Walk(g[k], visited) /\ g[k][1] = start /\ (AtItsEnd(g[k], visited) \/ Len(g[k]) = k + 1)
    BY <1>1, <1>4
  <2>2. g[k + 1] = Further(g[k], visited)
    BY <1>2, <2>1 DEF Folds, Apply
  <2>3. /\ Walk(g[k + 1], visited) /\ g[k + 1][1] = g[k][1]
        /\ (AtItsEnd(g[k], visited) /\ g[k + 1] = g[k]) \/ Len(g[k + 1]) = Len(g[k]) + 1
    BY <2>1, <2>2, FurtherWalks
  <2>4. ASSUME AtItsEnd(g[k], visited) PROVE g[k + 1] = g[k]
    BY <2>2, <2>4 DEF AtItsEnd, Further
  <2> QED
    BY <2>1, <2>3, <2>4
<1> HIDE DEF T
<1>5. n \in T
  BY <1>1, <1>3, <1>4, SetInduction
<1>6. /\ Walk(g[n], visited) /\ g[n][1] = start
      /\ AtItsEnd(g[n], visited) \/ Len(g[n]) = n + 1
  BY <1>1, <1>5 DEF T
<1>7. ASSUME Len(g[n]) = n + 1 PROVE g[n][Len(g[n])] \notin Waiters
  BY <1>1, <1>6, <1>7, WalkIsShort DEF n
<1> QED
  BY <1>2, <1>6, <1>7 DEF AtItsEnd


-----------------------------------------------------------------------------
(* The cycle a walk ends in *)

(* The last agent of a walk waits for its k-th. *)
Loop(p, k) == k \in 1..Len(p) /\ p[Len(p)] \in Waiters /\ WaitsFor(p[Len(p)]) = p[k]
From(p, k) == {p[i] : i \in k..Len(p)}

LEMMA CycleIsLoop ==
    ASSUME WaitsOK, NEW visited, NEW p, Walk(p, visited), NEW k, Loop(p, k)
    PROVE  CycleOf(p) = Append(SubSeq(p, k, Len(p)), p[k])
<1> DEFINE last == p[Len(p)]
           back == {j \in DOMAIN p : last \in Waiters /\ p[j] = WaitsFor(last)}
<1>1. k \in Nat /\ k \in DOMAIN p /\ DOMAIN p = 1..Len(p) /\ last \in Waiters /\ WaitsFor(last) = p[k]
  BY WalkType DEF Loop
<1>2. back = {k}
  BY <1>1 DEF Walk
<1>3. Min(back) = k /\ back # {}
  BY <1>1, <1>2, MinOfOne
<1>4. CycleOf(p) = IF back = {} THEN <<>> ELSE Append(SubSeq(p, Min(back), Len(p)), WaitsFor(last))
  BY DEF CycleOf
<1> HIDE DEF back
<1> QED
  BY <1>1, <1>3, <1>4

LEMMA NoLoopNoCycle ==
    ASSUME WaitsOK, NEW visited, NEW p, Walk(p, visited), \A k \in 1..Len(p) : ~Loop(p, k)
    PROVE  CycleOf(p) = <<>>
<1> DEFINE last == p[Len(p)]
           back == {j \in DOMAIN p : last \in Waiters /\ p[j] = WaitsFor(last)}
<1>1. DOMAIN p = 1..Len(p)
  BY WalkType
<1>2. back = {}
  BY <1>1 DEF Loop
<1>3. CycleOf(p) = IF back = {} THEN <<>> ELSE Append(SubSeq(p, Min(back), Len(p)), WaitsFor(last))
  BY DEF CycleOf
<1> HIDE DEF back
<1> QED
  BY <1>2, <1>3

(* What a report is to be: a closed tour that follows the waits and meets nobody twice. *)
Tour(c) ==
    /\ c \in Seq(Nodes) /\ Len(c) >= 2
    /\ c[1] = c[Len(c)]
    /\ IsInjective(Tail(c))
    /\ \A n \in 1..Len(c) - 1 : WaitsFor(c[n]) = c[n + 1]

LEMMA LoopIsTour ==
    ASSUME WaitsOK, NEW visited, NEW p, Walk(p, visited), NEW k, Loop(p, k)
    PROVE  Tour(CycleOf(p)) /\ ToSet(CycleOf(p)) = From(p, k)
<1> DEFINE m == Len(p)
           part == SubSeq(p, k, m)
           c == Append(part, p[k])
           n == m - k + 1
<1>1. CycleOf(p) = c
  BY CycleIsLoop
<1>2. /\ m \in Nat /\ k \in 1..m /\ p \in Seq(Nodes) /\ \A i \in 1..m : p[i] \in Nodes
      /\ p[m] \in Waiters /\ WaitsFor(p[m]) = p[k]
      /\ \A i, j \in 1..m : p[i] = p[j] => i = j
      /\ \A i \in 1..m - 1 : p[i + 1] = WaitsFor(p[i])
  BY WalkType DEF Loop, Walk
<1> HIDE DEF m
<1>3. part \in Seq(Nodes) /\ Len(part) = n /\ n \in Nat /\ n >= 1 /\ \A i \in 1..n : part[i] = p[k + i - 1]
  BY <1>2, SubSeqProperties
<1> HIDE DEF part
<1>4. /\ c \in Seq(Nodes) /\ Len(c) = n + 1 /\ DOMAIN c = 1..n + 1 /\ c[n + 1] = p[k]
      /\ \A i \in 1..n : c[i] = part[i]
  <2> HIDE DEF n
  <2>1. p[k] \in Nodes
    BY <1>2
  <2> QED
    BY <1>3, <2>1, AppendProperties
<1>5. \A i \in 1..n : c[i] = p[k + i - 1] /\ k + i - 1 \in 1..m
  BY <1>2, <1>3, <1>4
<1> HIDE DEF c
<1>6. c[1] = p[k] /\ c[n] = p[m]
  <2>1. k \in Nat /\ m \in Nat /\ n \in Nat /\ n >= 1 /\ n = m - k + 1
    BY <1>2, <1>3
  <2> HIDE DEF n
  <2>2. 1 \in 1..n /\ n \in 1..n /\ k + 1 - 1 = k /\ k + n - 1 = m
    BY <2>1
  <2> QED
    BY <1>5, <2>2
<1>7. ASSUME NEW i \in 1..n PROVE WaitsFor(c[i]) = c[i + 1]
  <2>1. CASE i = n
    BY <1>2, <1>4, <1>6, <2>1
  <2>2. CASE i # n
    <3>1. i + 1 \in 1..n /\ k + i - 1 \in 1..m - 1 /\ k + (i + 1) - 1 = (k + i - 1) + 1
      BY <1>2, <1>3, <2>2
    <3>2. c[i] = p[k + i - 1] /\ c[i + 1] = p[(k + i - 1) + 1]
      BY <1>5, <3>1
    <3> QED
      BY <1>2, <3>1, <3>2
  <2> QED
    BY <2>1, <2>2
<1>8. IsInjective(Tail(c))
  <2> DEFINE t == Tail(c)
  <2>1. Len(t) = n /\ DOMAIN t = 1..n /\ \A i \in 1..n : t[i] = c[i + 1]
    BY <1>3, <1>4
  <2> HIDE DEF t
  <2>2. \A i \in 1..n : t[i] = p[IF i = n THEN k ELSE k + i]
    <3> SUFFICES ASSUME NEW i \in 1..n PROVE t[i] = p[IF i = n THEN k ELSE k + i]
      OBVIOUS
    <3>1. CASE i = n
      BY <1>4, <2>1, <3>1
    <3>2. CASE i # n
      <4>1. i + 1 \in 1..n /\ k + (i + 1) - 1 = k + i
        BY <1>2, <1>3, <3>2
      <4>2. t[i] = p[k + (i + 1) - 1]
        BY <1>5, <2>1, <4>1
      <4> QED
        BY <3>2, <4>1, <4>2
    <3> QED
      BY <3>1, <3>2
  <2>3. ASSUME NEW i \in 1..n, NEW j \in 1..n, t[i] = t[j] PROVE i = j
    <3> DEFINE at(x) == IF x = n THEN k ELSE k + x
    <3>1. at(i) \in 1..m /\ at(j) \in 1..m
      BY <1>2, <1>3, SMTT(30) DEF n
    <3>2. t[i] = p[at(i)] /\ t[j] = p[at(j)]
      BY <2>2
    <3> HIDE DEF at
    <3>3. at(i) = at(j)
      BY <1>2, <2>3, <3>1, <3>2
    <3> HIDE DEF n
    <3>4. k \in Nat /\ i \in Nat /\ j \in Nat /\ i >= 1 /\ j >= 1
      BY <1>2, <1>3
    <3> QED
      BY <3>3, <3>4 DEF at
  <2>4. IsInjective(t)
    BY <2>1, <2>3 DEF IsInjective
  <2> QED
    BY <2>4 DEF t
<1>9. ToSet(c) = From(p, k)
  <2>1. ASSUME NEW i \in 1..n + 1 PROVE c[i] \in From(p, k)
    <3>1. CASE i = n + 1
      BY <1>2, <1>4, <3>1 DEF From, m
    <3>2. CASE i # n + 1
      <4>1. i \in 1..n /\ k + i - 1 \in k..m
        BY <1>2, <1>3, <3>2
      <4> QED
        BY <1>5, <4>1 DEF From, m
    <3> QED
      BY <3>1, <3>2
  <2>2. ASSUME NEW j \in k..m PROVE p[j] \in ToSet(c)
    <3>1. j - k + 1 \in 1..n /\ k + (j - k + 1) - 1 = j /\ j - k + 1 \in 1..n + 1
      BY <1>2, <1>3
    <3>2. c[j - k + 1] = p[k + (j - k + 1) - 1]
      BY <1>5, <3>1
    <3> QED
      BY <1>4, <3>1, <3>2 DEF ToSet
  <2>3. \A x \in ToSet(c) : x \in From(p, k)
    BY <1>4, <2>1 DEF ToSet
  <2>4. \A x \in From(p, k) : x \in ToSet(c)
    BY <2>2 DEF From, m
  <2> QED
    BY <2>3, <2>4
<1>10. Tour(c)
  BY <1>3, <1>4, <1>6, <1>7, <1>8 DEF Tour
<1> QED
  BY <1>1, <1>9, <1>10

(* A closed set that a walk enters has the rest of the walk. *)
LEMMA FollowTheWalk ==
    ASSUME WaitsOK, NEW visited, NEW p, Walk(p, visited), NEW C, Closed(C),
           NEW i \in 1..Len(p), p[i] \in C
    PROVE  From(p, i) \subseteq C
<1> DEFINE T == {k \in Nat : i + k <= Len(p) => p[i + k] \in C}
<1>1. Len(p) \in Nat /\ i \in Nat
  BY WalkType
<1>2. 0 \in T
  BY <1>1
<1>3. ASSUME NEW k \in Nat, k \in T PROVE k + 1 \in T
  <2> SUFFICES ASSUME i + (k + 1) <= Len(p) PROVE p[i + (k + 1)] \in C
    OBVIOUS
  <2>1. i + k \in 1..Len(p) - 1 /\ i + (k + 1) = (i + k) + 1 /\ p[i + k] \in C
    BY <1>1, <1>3
  <2>2. p[i + k] \in Waiters /\ p[(i + k) + 1] = WaitsFor(p[i + k])
    BY <2>1 DEF Walk
  <2> QED
    BY <2>1, <2>2, ClosedFacts
<1> HIDE DEF T
<1>4. Nat \subseteq T
  BY <1>2, <1>3, SetInduction
<1>5. ASSUME NEW j \in i..Len(p) PROVE p[j] \in C
  <2>1. j - i \in Nat /\ i + (j - i) = j /\ i + (j - i) <= Len(p)
    BY <1>1
  <2> QED
    BY <1>4, <2>1 DEF T
<1> QED
  BY <1>5 DEF From

LEMMA LoopIsClosed ==
    ASSUME WaitsOK, NEW visited, NEW p, Walk(p, visited), NEW k, Loop(p, k)
    PROVE  Closed(From(p, k)) /\ From(p, k) \subseteq Waiters /\ From(p, k) # {}
<1>1. Len(p) \in Nat /\ k \in 1..Len(p)
  BY WalkType DEF Loop
<1>2. ASSUME NEW i \in k..Len(p) PROVE p[i] \in Waiters /\ WaitsFor(p[i]) \in From(p, k)
  <2>1. CASE i = Len(p)
    <3>1. k \in k..Len(p)
      BY <1>1
    <3> QED
      BY <2>1, <3>1 DEF Loop, From
  <2>2. CASE i # Len(p)
    <3>1. i \in 1..Len(p) - 1 /\ i + 1 \in k..Len(p)
      BY <1>1, <2>2
    <3>2. p[i] \in Waiters /\ p[i + 1] = WaitsFor(p[i])
      BY <3>1 DEF Walk
    <3> QED
      BY <3>1, <3>2 DEF From
  <2> QED
    BY <2>1, <2>2
<1>3. \A a \in From(p, k) : a \in Waiters /\ WaitsFor(a) \in From(p, k)
  BY <1>2 DEF From
<1>4. p[k] \in From(p, k)
  BY <1>1 DEF From
<1> QED
  BY <1>3, <1>4, ClosedFacts

LEMMA LoopIsCycle ==
    ASSUME WaitsOK, NEW visited, NEW p, Walk(p, visited), NEW k, Loop(p, k)
    PROVE  From(p, k) \in Cycles
<1>1. Closed(From(p, k)) /\ From(p, k) \subseteq Waiters /\ From(p, k) # {}
  BY LoopIsClosed
<1>2. Len(p) \in Nat /\ k \in 1..Len(p)
  BY WalkType DEF Loop
<1>3. ASSUME NEW D \in SUBSET From(p, k), D # {}, Closed(D) PROVE D = From(p, k)
  <2>1. PICK i \in k..Len(p) : p[i] \in D
    BY <1>3 DEF From
  <2>2. i \in 1..Len(p) /\ Len(p) \in i..Len(p)
    BY <1>2
  <2>3. From(p, i) \subseteq D
    BY <1>3, <2>1, <2>2, FollowTheWalk
  <2>4. p[Len(p)] \in D
    BY <2>2, <2>3 DEF From
  <2>5. p[k] \in D
    BY <1>3, <2>4, ClosedFacts DEF Loop
  <2>6. From(p, k) \subseteq D
    BY <1>2, <1>3, <2>5, FollowTheWalk
  <2> QED
    BY <2>6
<1> QED
  BY <1>1, <1>3 DEF Cycles

(* A cycle that a walk enters, past what was visited, is the loop it ends in. *)
LEMMA WalkFindsTheCycle ==
    ASSUME WaitsOK, NEW visited, NEW p, Walk(p, visited), AtItsEnd(p, visited),
           NEW C \in Cycles, C \cap visited = {}, NEW i \in 1..Len(p), p[i] \in C
    PROVE  \E k \in 1..Len(p) : Loop(p, k) /\ C = From(p, k)
<1>1. Closed(C) /\ C \subseteq Waiters /\ \A D \in SUBSET C : D # {} /\ Closed(D) => D = C
  BY DEF Cycles
<1>2. Len(p) \in Nat /\ Len(p) \in i..Len(p) /\ ToSet(p) = {p[j] : j \in 1..Len(p)}
  BY WalkType
<1>3. p[Len(p)] \in C
  BY <1>1, <1>2, FollowTheWalk DEF From
<1>4. p[Len(p)] \in Waiters /\ WaitsFor(p[Len(p)]) \in C
  BY <1>1, <1>3, ClosedFacts
<1>5. WaitsFor(p[Len(p)]) \in ToSet(p)
  BY <1>4 DEF AtItsEnd
<1>6. PICK k \in 1..Len(p) : WaitsFor(p[Len(p)]) = p[k]
  BY <1>2, <1>5
<1>7. Loop(p, k) /\ p[k] \in C
  BY <1>4, <1>6 DEF Loop
<1>8. From(p, k) \subseteq C /\ From(p, k) # {} /\ Closed(From(p, k))
  BY <1>1, <1>6, <1>7, FollowTheWalk, LoopIsClosed
<1> QED
  BY <1>1, <1>7, <1>8

(* findYoungest: nobody in the cycle has a higher number. *)
LEMMA YoungestFacts ==
    ASSUME NEW c \in Seq(Nodes), Len(c) >= 1
    PROVE  FindYoungest(c) \in ToSet(c) /\ \A a \in ToSet(c) : Number[a] <= Number[FindYoungest(c)]
<1> DEFINE n == Len(c)
<1>1. n \in Nat /\ n >= 1 /\ DOMAIN c = 1..n /\ \A i \in 1..n : c[i] \in Nodes
  OBVIOUS
<1>2. \A a \in Nodes : Number[a] \in Nat
  BY WatchdogAssumption
<1> HIDE DEF n
<1>3. PICK g : Folds(g, "young", 0, c[1], c, n) /\ FindYoungest(c) = g[n]
  BY <1>1, YoungestFolds
<1> DEFINE T == {k \in Nat : k <= n => /\ \E i \in 1..n : g[k] = c[i]
                                       /\ \A i \in 1..k : Number[c[i]] <= Number[g[k]]}
<1>4. 0 \in T
  BY <1>1, <1>3 DEF Folds
<1>5. ASSUME NEW k \in Nat, k \in T PROVE k + 1 \in T
  <2> SUFFICES ASSUME k + 1 <= n
               PROVE  /\ \E i \in 1..n : g[k + 1] = c[i]
                      /\ \A i \in 1..k + 1 : Number[c[i]] <= Number[g[k + 1]]
    OBVIOUS
  <2>1. k < n /\ k + 1 \in 1..n /\ \A i \in 1..k : Number[c[i]] <= Number[g[k]]
    BY <1>1, <1>5
  <2>2. PICK j \in 1..n : g[k] = c[j]
    BY <1>1, <1>5
  <2>3. g[k + 1] = IF Number[c[k + 1]] > Number[g[k]] THEN c[k + 1] ELSE g[k]
    BY <1>3, <2>1 DEF Folds, Apply, Younger
  <2>4. \A i \in 1..n : Number[c[i]] \in Nat
    BY <1>1, <1>2
  <2>5. \A i \in 1..k : i \in 1..n
    BY <1>1, <2>1
  <2>6. \E i \in 1..n : g[k + 1] = c[i]
    BY <2>1, <2>2, <2>3
  <2>7. \A i \in 1..k + 1 : i \in 1..k \/ i = k + 1
    OBVIOUS
  <2> QED
    BY <2>1, <2>2, <2>3, <2>4, <2>5, <2>6, <2>7, SMTT(30)
<1> HIDE DEF T
<1>6. n \in T
  BY <1>1, <1>4, <1>5, SetInduction
<1>7. (\E i \in 1..n : g[n] = c[i]) /\ \A i \in 1..n : Number[c[i]] <= Number[g[n]]
  BY <1>1, <1>6 DEF T
<1> QED
  BY <1>1, <1>3, <1>7 DEF ToSet


-----------------------------------------------------------------------------
(* The detection *)

ReportType == [cycle : Seq(Nodes), youngest : Nodes]

Report(r) ==
    /\ Tour(r.cycle) /\ ToSet(r.cycle) \in Cycles
    /\ r.youngest \in ToSet(r.cycle)
    /\ \A a \in ToSet(r.cycle) : Number[a] <= Number[r.youngest]

(* After k waits: what was visited is closed and has their waiters, and the cycles
   among the visited are those found, each once. *)
Detected(acc, k) ==
    /\ Closed(acc.visited) /\ \A i \in 1..k : waitEdges[i][1] \in acc.visited
    /\ acc.found \in Seq(ReportType)
    /\ \A i \in DOMAIN acc.found : Report(acc.found[i]) /\ ToSet(acc.found[i].cycle) \subseteq acc.visited
    /\ \A i, j \in DOMAIN acc.found : ToSet(acc.found[i].cycle) = ToSet(acc.found[j].cycle) => i = j
    /\ \A C \in Cycles : C \cap acc.visited # {} => \E i \in DOMAIN acc.found : ToSet(acc.found[i].cycle) = C

(* The visited nodes with a walk that is at its end are closed again. *)
LEMMA VisitedStaysClosed ==
    ASSUME WaitsOK, NEW visited, Closed(visited), NEW p, Walk(p, visited), AtItsEnd(p, visited)
    PROVE  Closed(visited \cup ToSet(p))
<1> DEFINE m == Len(p)
<1>1. m \in Nat /\ ToSet(p) = {p[i] : i \in 1..m}
  BY WalkType
<1> SUFFICES ASSUME NEW a \in Waiters, a \in visited \cup ToSet(p) PROVE WaitsFor(a) \in visited \cup ToSet(p)
  BY ClosedFacts
<1>2. CASE a \in visited
  BY <1>2, ClosedFacts
<1>3. CASE a \in ToSet(p)
  <2>1. PICK i \in 1..m : a = p[i]
    BY <1>1, <1>3
  <2>2. CASE i = m
    BY <2>1, <2>2 DEF AtItsEnd
  <2>3. CASE i # m
    <3>1. i \in 1..m - 1 /\ i + 1 \in 1..m
      <4> HIDE DEF m
      <4> QED
        BY <1>1, <2>3
    <3>2. p[i + 1] = WaitsFor(p[i])
      BY <3>1 DEF Walk
    <3> QED
      BY <1>1, <2>1, <3>1, <3>2
  <2> QED
    BY <2>2, <2>3
<1> QED
  BY <1>2, <1>3

(* A walk that closes a cycle reports it, and it is the only one among its nodes. *)
LEMMA VisitLoop ==
    ASSUME WaitsOK, NEW k \in Nat, NEW acc, Detected(acc, k), NEW p, Walk(p, acc.visited), AtItsEnd(p, acc.visited),
           p[1] = waitEdges[k + 1][1], NEW l \in 1..Len(p), Loop(p, l),
           NEW report, report = [cycle |-> CycleOf(p), youngest |-> FindYoungest(CycleOf(p))],
           NEW after, after = [visited |-> acc.visited \cup ToSet(p), found |-> Append(acc.found, report)]
    PROVE  Detected(after, k + 1)
<1> DEFINE n == Len(acc.found)
           found == Append(acc.found, report)
           C == From(p, l)
           V == acc.visited \cup ToSet(p)
<1>1. Tour(CycleOf(p)) /\ ToSet(CycleOf(p)) = C /\ C \in Cycles
  BY LoopIsTour, LoopIsCycle
<1>2. report.cycle = CycleOf(p) /\ report.youngest = FindYoungest(CycleOf(p))
  OBVIOUS
<1>3. /\ FindYoungest(CycleOf(p)) \in C
      /\ \A a \in C : Number[a] <= Number[FindYoungest(CycleOf(p))]
  <2>1. CycleOf(p) \in Seq(Nodes) /\ Len(CycleOf(p)) >= 1
    BY <1>1 DEF Tour
  <2> QED
    BY <1>1, <2>1, YoungestFacts
<1>4. ToSet(p) = {p[i] : i \in 1..Len(p)} /\ C \subseteq ToSet(p) /\ Len(p) \in Nat /\ 1 \in 1..Len(p)
      /\ C \subseteq Nodes /\ C \cap acc.visited = {} /\ C # {}
  <2>1. Len(p) \in Nat /\ l \in Nat /\ l >= 1 /\ Len(p) >= 1 /\ ToSet(p) = {p[i] : i \in 1..Len(p)}
        /\ \A i \in 1..Len(p) : p[i] \in Nodes
    BY WalkType
  <2>2. \A i \in l..Len(p) : i \in 1..Len(p)
    BY <2>1
  <2>3. \A i \in l..Len(p) : p[i] \in ToSet(p) /\ p[i] \in Nodes /\ p[i] \notin acc.visited
    BY <2>1, <2>2 DEF Walk
  <2>4. C # {}
    BY LoopIsClosed
  <2> QED
    BY <2>1, <2>3, <2>4 DEF From
<1>5. Report(report) /\ report \in ReportType
  <2>1. CycleOf(p) \in Seq(Nodes) /\ FindYoungest(CycleOf(p)) \in Nodes
    BY <1>1, <1>3, <1>4 DEF Tour
  <2> QED
    BY <1>1, <1>2, <1>3, <2>1 DEF Report, ReportType
<1>6. after.visited = V /\ after.found = found
  OBVIOUS
<1> HIDE DEF C, V
<1>7. /\ n \in Nat /\ DOMAIN acc.found = 1..n /\ DOMAIN found = 1..n + 1 /\ found \in Seq(ReportType)
      /\ found[n + 1] = report /\ \A i \in 1..n : found[i] = acc.found[i]
  BY <1>5 DEF Detected
<1> HIDE DEF n, found
<1>8. Closed(V)
  BY VisitedStaysClosed DEF Detected, V
<1>9. \A i \in 1..k + 1 : waitEdges[i][1] \in V
  <2> SUFFICES ASSUME NEW i \in 1..k + 1 PROVE waitEdges[i][1] \in V
    OBVIOUS
  <2>1. CASE i = k + 1
    BY <1>4, <2>1 DEF V
  <2>2. CASE i # k + 1
    <3>1. i \in 1..k
      BY <2>2
    <3> QED
      BY <3>1 DEF Detected, V
  <2> QED
    BY <2>1, <2>2
<1>10. ASSUME NEW i \in 1..n + 1 PROVE Report(found[i]) /\ ToSet(found[i].cycle) \subseteq V
  <2>1. CASE i = n + 1
    BY <1>1, <1>2, <1>4, <1>5, <1>7, <2>1 DEF V
  <2>2. CASE i # n + 1
    <3>1. i \in 1..n
      BY <1>7, <2>2
    <3> QED
      BY <1>7, <3>1 DEF Detected, V
  <2> QED
    BY <2>1, <2>2
<1>11. \A i \in 1..n : ToSet(found[i].cycle) # C
  <2> SUFFICES ASSUME NEW i \in 1..n, ToSet(found[i].cycle) = C PROVE FALSE
    OBVIOUS
  <2>1. C \subseteq acc.visited
    BY <1>7 DEF Detected
  <2> QED
    BY <1>4, <2>1
<1>12. \A i, j \in 1..n + 1 : ToSet(found[i].cycle) = ToSet(found[j].cycle) => i = j
  <2>1. \A i, j \in 1..n : ToSet(found[i].cycle) = ToSet(found[j].cycle) => i = j
    BY <1>7 DEF Detected
  <2>2. ToSet(found[n + 1].cycle) = C
    BY <1>1, <1>2, <1>7
  <2>3. \A i \in 1..n + 1 : i \in 1..n \/ i = n + 1
    BY <1>7
  <2> QED
    BY <1>11, <2>1, <2>2, <2>3
<1>13. ASSUME NEW D \in Cycles, D \cap V # {} PROVE \E i \in 1..n + 1 : ToSet(found[i].cycle) = D
  <2>1. CASE D \cap acc.visited # {}
    <3>1. PICK i \in 1..n : ToSet(acc.found[i].cycle) = D
      BY <1>7, <2>1 DEF Detected
    <3>2. i \in 1..n + 1 /\ found[i] = acc.found[i]
      BY <1>7
    <3> QED
      BY <3>1, <3>2
  <2>2. CASE D \cap acc.visited = {}
    <3>1. PICK i \in 1..Len(p) : p[i] \in D
      BY <1>4, <1>13, <2>2 DEF V
    <3>2. PICK j \in 1..Len(p) : Loop(p, j) /\ D = From(p, j)
      BY <2>2, <3>1, WalkFindsTheCycle, SMTT(30)
    <3>3. p[j] = p[l]
      BY <3>2 DEF Loop
    <3>4. j = l
      BY <3>3 DEF Walk
    <3>5. n + 1 \in 1..n + 1 /\ ToSet(found[n + 1].cycle) = C
      BY <1>1, <1>2, <1>7
    <3> QED
      BY <3>2, <3>4, <3>5 DEF C
  <2> QED
    BY <2>1, <2>2
<1> QED
  <2>1. Closed(after.visited) /\ \A i \in 1..k + 1 : waitEdges[i][1] \in after.visited
    BY <1>6, <1>8, <1>9
  <2>2. after.found \in Seq(ReportType) /\ DOMAIN after.found = 1..n + 1
    BY <1>6, <1>7
  <2>3. \A i \in DOMAIN after.found :
            Report(after.found[i]) /\ ToSet(after.found[i].cycle) \subseteq after.visited
    BY <1>6, <1>10, <2>2
  <2>4. \A i, j \in DOMAIN after.found :
            ToSet(after.found[i].cycle) = ToSet(after.found[j].cycle) => i = j
    BY <1>6, <1>12, <2>2
  <2>5. \A D \in Cycles : D \cap after.visited # {} =>
            \E i \in DOMAIN after.found : ToSet(after.found[i].cycle) = D
    BY <1>6, <1>13, <2>2
  <2> HIDE DEF found
  <2> QED
    BY <2>1, <2>3, <2>2, <2>4, <2>5, Zenon DEF Detected

(* A walk that ends outside the graph or at a visited node has met no cycle. *)
LEMMA VisitNoLoop ==
    ASSUME WaitsOK, NEW k \in Nat, NEW acc, Detected(acc, k), NEW p, Walk(p, acc.visited), AtItsEnd(p, acc.visited),
           p[1] = waitEdges[k + 1][1], \A l \in 1..Len(p) : ~Loop(p, l),
           NEW after, after = [visited |-> acc.visited \cup ToSet(p), found |-> acc.found]
    PROVE  Detected(after, k + 1)
<1> DEFINE V == acc.visited \cup ToSet(p)
<1>1. after.visited = V /\ after.found = acc.found
  OBVIOUS
<1>2. ToSet(p) = {p[i] : i \in 1..Len(p)} /\ Len(p) \in Nat /\ 1 \in 1..Len(p)
  BY WalkType
<1> HIDE DEF V
<1>3. Closed(V)
  BY VisitedStaysClosed DEF Detected, V
<1>4. \A i \in 1..k + 1 : waitEdges[i][1] \in V
  <2> SUFFICES ASSUME NEW i \in 1..k + 1 PROVE waitEdges[i][1] \in V
    OBVIOUS
  <2>1. CASE i = k + 1
    BY <1>2, <2>1 DEF V
  <2>2. CASE i # k + 1
    <3>1. i \in 1..k
      BY <2>2
    <3> QED
      BY <3>1 DEF Detected, V
  <2> QED
    BY <2>1, <2>2
<1>5. \A i \in DOMAIN acc.found : Report(acc.found[i]) /\ ToSet(acc.found[i].cycle) \subseteq V
  BY DEF Detected, V
<1>6. ASSUME NEW D \in Cycles, D \cap V # {} PROVE D \cap acc.visited # {}
  <2> SUFFICES ASSUME D \cap acc.visited = {} PROVE FALSE
    OBVIOUS
  <2>1. PICK i \in 1..Len(p) : p[i] \in D
    BY <1>2, <1>6 DEF V
  <2> QED
    BY <2>1, WalkFindsTheCycle
<1> QED
  BY <1>1, <1>3, <1>4, <1>5, <1>6 DEF Detected

LEMMA VisitDetects ==
    ASSUME WaitsOK, NEW k \in Nat, k < Len(waitEdges), NEW acc, Detected(acc, k)
    PROVE  Detected(Visit(acc, waitEdges[k + 1]), k + 1)
<1> DEFINE start == waitEdges[k + 1][1]
           after == Visit(acc, waitEdges[k + 1])
           p == Path(start, acc.visited)
<1>1. start \in Nodes
  BY EdgeFacts
<1>2. CASE start \in acc.visited
  <2>1. after = acc
    BY <1>2 DEF Visit
  <2>2. \A i \in 1..k + 1 : i \in 1..k \/ i = k + 1
    OBVIOUS
  <2>3. \A i \in 1..k + 1 : waitEdges[i][1] \in acc.visited
    BY <1>2, <2>2 DEF Detected
  <2> QED
    BY <2>1, <2>3 DEF Detected
<1>3. CASE start \notin acc.visited
  <2>1. Walk(p, acc.visited) /\ AtItsEnd(p, acc.visited) /\ p[1] = start
    BY <1>1, <1>3, PathWalks
  <2>2. after = [visited |-> acc.visited \cup ToSet(p),
                 found |-> IF CycleOf(p) = <<>> THEN acc.found
                           ELSE Append(acc.found, [cycle |-> CycleOf(p), youngest |-> FindYoungest(CycleOf(p))])]
    BY <1>3 DEF Visit
  <2> HIDE DEF p, after
  <2>3. CASE \E l \in 1..Len(p) : Loop(p, l)
    <3>1. PICK l \in 1..Len(p) : Loop(p, l)
      BY <2>3
    <3>2. CycleOf(p) # <<>>
      <4>1. Tour(CycleOf(p))
        BY <2>1, <3>1, LoopIsTour
      <4> QED
        BY <4>1 DEF Tour
    <3> DEFINE report == [cycle |-> CycleOf(p), youngest |-> FindYoungest(CycleOf(p))]
    <3>3. after = [visited |-> acc.visited \cup ToSet(p), found |-> Append(acc.found, report)]
      BY <2>2, <3>2
    <3>4. Detected(after, k + 1)
      BY <2>1, <3>1, <3>3, VisitLoop
    <3> QED
      BY <3>4 DEF after
  <2>4. CASE \A l \in 1..Len(p) : ~Loop(p, l)
    <3>1. CycleOf(p) = <<>>
      BY <2>1, <2>4, NoLoopNoCycle
    <3>2. after = [visited |-> acc.visited \cup ToSet(p), found |-> acc.found]
      BY <2>2, <3>1
    <3>3. Detected(after, k + 1)
      BY <2>1, <2>4, <3>2, VisitNoLoop
    <3> QED
      BY <3>3 DEF after
  <2> QED
    BY <2>3, <2>4
<1> QED
  BY <1>2, <1>3

(* When all waits have been visited, every cycle has been found, once. *)
LEMMA DetectionIsExact ==
    ASSUME WaitsOK
    PROVE  ReportsExactlyTheCycles
<1> DEFINE n == Len(waitEdges)
           empty == [visited |-> {}, found |-> <<>>]
           found == DetectDeadlocks
           Cyc(i) == ToSet(found[i].cycle)
<1>1. n \in Nat /\ DOMAIN waitEdges = 1..n
  BY EdgeFacts
<1>2. PICK g : Folds(g, "visit", 0, empty, waitEdges, n) /\ DetectDeadlocks = g[n].found
  BY <1>1, DetectionFolds
<1>3. Detected(empty, 0)
  <2>1. empty.visited = {} /\ empty.found = <<>>
    OBVIOUS
  <2> HIDE DEF empty
  <2>2. Closed({})
    BY DEF Closed
  <2> QED
    BY <2>1, <2>2 DEF Detected
<1> HIDE DEF n, empty
<1> DEFINE T == {k \in Nat : k <= n => Detected(g[k], k)}
<1>4. 0 \in T
  BY <1>2, <1>3 DEF Folds
<1>5. ASSUME NEW k \in Nat, k \in T PROVE k + 1 \in T
  <2> SUFFICES ASSUME k + 1 <= n PROVE Detected(g[k + 1], k + 1)
    OBVIOUS
  <2>1. k < n /\ Detected(g[k], k)
    BY <1>1, <1>5
  <2>2. g[k + 1] = Visit(g[k], waitEdges[k + 1])
    BY <1>2, <2>1 DEF Folds, Apply
  <2>3. k < Len(waitEdges)
    BY <2>1 DEF n
  <2> QED
    BY <2>1, <2>2, <2>3, VisitDetects
<1> HIDE DEF T
<1>6. n \in T
  BY <1>1, <1>4, <1>5, SetInduction
<1>7. Detected(g[n], n)
  BY <1>1, <1>6 DEF T
<1> DEFINE size == Len(found)
<1>8. /\ found \in Seq(ReportType) /\ size \in Nat /\ DOMAIN found = 1..size
      /\ \A i \in 1..size : Report(found[i])
      /\ \A i, j \in 1..size : Cyc(i) = Cyc(j) => i = j
  BY <1>2, <1>7 DEF Detected
<1>9. ASSUME NEW C \in Cycles PROVE \E i \in 1..size : Cyc(i) = C
  <2>1. C # {} /\ C \subseteq Waiters
    BY DEF Cycles
  <2>2. \A a \in Waiters : a \in g[n].visited
    BY <1>1, <1>7 DEF Waiters, Detected
  <2>3. C \cap g[n].visited # {}
    BY <2>1, <2>2
  <2>4. \E i \in DOMAIN g[n].found : ToSet(g[n].found[i].cycle) = C
    BY <1>7, <2>3 DEF Detected
  <2> QED
    BY <1>2, <1>8, <2>4
<1>10. \A i \in 1..size : Cyc(i) \in Cycles
  BY <1>8 DEF Report
<1> HIDE DEF found, size
<1>11. {ToSet(found[i].cycle) : i \in DOMAIN found} = Cycles
  BY <1>8, <1>9, <1>10
<1>12. size = Cardinality(Cycles)
  <2> DEFINE f == [i \in 1..size |-> Cyc(i)]
  <2>1. f \in Bijection(1..size, Cycles)
    <3>1. f \in [1..size -> Cycles] /\ DOMAIN f = 1..size /\ \A i \in 1..size : f[i] = Cyc(i)
      BY <1>10
    <3> HIDE DEF f, Cyc
    <3>2. \A i, j \in 1..size : f[i] = f[j] => i = j
      BY <1>8, <3>1
    <3>3. \A C \in Cycles : \E i \in 1..size : f[i] = C
      BY <1>9, <3>1
    <3> QED
      BY <3>1, <3>2, <3>3, Fun_IsBij
  <2>2. IsFiniteSet(1..size) /\ Cardinality(1..size) = size
    BY <1>8, FS_Interval
  <2> HIDE DEF f
  <2>3. ExistsBijection(1..size, Cycles)
    BY <2>1, Zenon DEF ExistsBijection
  <2>4. Cardinality(Cycles) = Cardinality(1..size)
    BY <2>2, <2>3, FS_Bijection
  <2> QED
    BY <2>2, <2>4
<1>13. ASSUME NEW k \in DOMAIN DetectDeadlocks
       PROVE  LET c == DetectDeadlocks[k].cycle
                  youngest == DetectDeadlocks[k].youngest
              IN  /\ c[1] = c[Len(c)]
                  /\ IsInjective(Tail(c))
                  /\ \A i \in 1 .. Len(c) - 1 : WaitsFor(c[i]) = c[i + 1]
                  /\ youngest \in ToSet(c)
                  /\ \A a \in ToSet(c) : Number[a] <= Number[youngest]
  <2>1. Report(DetectDeadlocks[k])
    BY <1>8 DEF found
  <2> QED
    BY <2>1 DEF Report, Tour
<1> QED
  BY <1>11, <1>12, <1>13 DEF ReportsExactlyTheCycles, found, size

(* In every state of the graph detectDeadlocks reports exactly its cycles, each once,
   as a closed tour that meets nobody twice, with an agent in it that nobody in it is
   younger than: whatever agents there are and in whichever order they came to wait. *)
THEOREM DeadlocksAreFound == WatchdogSpec => []ReportsExactlyTheCycles
<1>1. WaitsOK => ReportsExactlyTheCycles
  BY DetectionIsExact
<1> QED
  BY <1>1, WaitsInvariant, PTL
=============================================================================
