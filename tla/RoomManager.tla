---------------------------- MODULE RoomManager ----------------------------
(***************************************************************************)
(* The negotiation rooms of packages/coordination, the tools open_room,    *)
(* send_to_room and resolve_room of the agent runner, and the              *)
(* orchestrator's arbitration of expired rooms.  Rooms and decisions       *)
(* outlive the agents; the orchestrator arbitrates between waves, when no  *)
(* agent is running.  Each call is synchronous, hence one step.            *)
(*                                                                         *)
(* Who is told of a decision goes over the message bus, which delivers     *)
(* within the call and only to the agents that have subscribed, those      *)
(* whose runner is in progress.  Of the messages only the decision they    *)
(* announce is kept.                                                       *)
(***************************************************************************)
EXTENDS Integers, SequencesExt

CONSTANTS
    Agents,        \* agents of the mission, over all its waves
    RoomIds,       \* bound: the rooms a mission opens
    Budgets,       \* turn budgets an agent may ask for; default 10
    Orchestrator,  \* the author of an arbitration
    MaxDecisions   \* bound: decision records of a mission

RoomConstants ==
    /\ Orchestrator \notin Agents
    /\ Budgets \subseteq Int
    /\ MaxDecisions \in Nat

ASSUME RoomAssumption == RoomConstants

VARIABLES
    status,     \* status[r]: "none" before the room is opened, then
                \* "open", "resolved" or "expired"
    members,    \* members[r]: the asker and the agents invited
    budget,     \* budget[r]: turnBudget
    used,       \* used[r]: turnsUsed
    current,    \* current[r]: index of room.decision in decisions, or 0
    decisions,  \* decision records, in the order they were made
    running,    \* agents whose runner is in progress
    ended,      \* agents whose run is over
    heard       \* heard[a]: the decisions of its prompt and its inbox

roomVars == <<status, members, budget, used, current>>
vars == <<roomVars, decisions, running, ended, heard>>

Init ==
    /\ status = [r \in RoomIds |-> "none"]
    /\ members = [r \in RoomIds |-> {}]
    /\ budget = [r \in RoomIds |-> 0]
    /\ used = [r \in RoomIds |-> 0]
    /\ current = [r \in RoomIds |-> 0]
    /\ decisions = << >>
    /\ running = {}
    /\ ended = {}
    /\ heard = [a \in Agents |-> {}]

-----------------------------------------------------------------------------
(* Agents come and go *)

(* Mutant of Spawn: nothing is said of the decisions made so far. *)
SpawnUnbriefed(a) ==
    /\ a \notin running \cup ended
    /\ running' = running \cup {a}
    /\ UNCHANGED <<roomVars, decisions, ended, heard>>

(* The prior decisions are put into its prompt, and it subscribes. *)
Spawn(a) ==
    /\ a \notin running \cup ended
    /\ running' = running \cup {a}
    /\ heard' = [heard EXCEPT ![a] = DOMAIN decisions]
    /\ UNCHANGED <<roomVars, decisions, ended>>

(* It unsubscribes; what it has not read is lost with its inbox. *)
EndRun(a) ==
    /\ a \in running
    /\ running' = running \ {a}
    /\ ended' = ended \cup {a}
    /\ heard' = [heard EXCEPT ![a] = {}]
    /\ UNCHANGED <<roomVars, decisions>>

-----------------------------------------------------------------------------
(* Rooms *)

(* Mutant of Expired: a room must be over its budget, not at it. *)
ExpiredOverBudget == {r \in RoomIds : status[r] = "expired" /\ used[r] > budget[r]}

Expired == {r \in RoomIds : status[r] = "expired"}

(* open_room *)
Open(a, r, invite, b) ==
    /\ a \in running
    /\ status[r] = "none"
    /\ status' = [status EXCEPT ![r] = "open"]
    /\ members' = [members EXCEPT ![r] = {a} \cup invite]
    /\ budget' = [budget EXCEPT ![r] = b]
    /\ UNCHANGED <<used, current, decisions, running, ended, heard>>

(* Mutants of SendToRoom: the status of the room is not checked; the budget is
   compared before the turn is counted. *)
SendToAnyRoom(a, r) ==
    /\ a \in running
    /\ status[r] # "none"
    /\ used' = [used EXCEPT ![r] = @ + 1]
    /\ UNCHANGED <<status, members, budget, current, decisions, running, ended, heard>>

SendOneTooMany(a, r) ==
    /\ a \in running
    /\ status[r] = "open"
    /\ used' = [used EXCEPT ![r] = @ + 1]
    /\ status' = [status EXCEPT ![r] = IF used[r] >= budget[r] THEN "expired"
                                       ELSE "open"]
    /\ UNCHANGED <<members, budget, current, decisions, running, ended, heard>>

(* send_to_room: recordTurn, from any agent that has the room's id; the turn
   that uses up the budget is still sent. *)
SendToRoom(a, r) ==
    /\ a \in running
    /\ status[r] = "open"
    /\ used' = [used EXCEPT ![r] = @ + 1]
    /\ status' = [status EXCEPT ![r] = IF used[r] + 1 >= budget[r] THEN "expired"
                                       ELSE "open"]
    /\ UNCHANGED <<members, budget, current, decisions, running, ended, heard>>

(* Mutant of Invite: the status of the room is not checked. *)
InviteAnyTime(r, a) ==
    /\ status[r] # "none"
    /\ members' = [members EXCEPT ![r] = @ \cup {a}]
    /\ UNCHANGED <<status, budget, used, current, decisions, running, ended, heard>>

(* invite: an open room only.  No tool calls it. *)
Invite(r, a) ==
    /\ status[r] = "open"
    /\ members' = [members EXCEPT ![r] = @ \cup {a}]
    /\ UNCHANGED <<status, budget, used, current, decisions, running, ended, heard>>

(* A new record.  In the code its participants are the very array of the room's
   members; here they are what that array held when the record was made. *)
Record(r, author) == [room |-> r, author |-> author, participants |-> members[r]]

(* The bus: a message for an agent that has not subscribed is for nobody. *)
Tell(to, decision) ==
    heard' = [a \in Agents |-> heard[a] \cup (IF a \in to \cap running THEN {decision} ELSE {})]

(* Mutants of Resolve: a room keeps the first decision made about it; a
   decision on a room that was closed already is not announced. *)
ResolveFirstWins(a, r) ==
    /\ a \in running
    /\ status[r] # "none"
    /\ Len(decisions) < MaxDecisions
    /\ decisions' = Append(decisions, Record(r, a))
    /\ current' = [current EXCEPT ![r] = IF @ = 0 THEN Len(decisions) + 1 ELSE @]
    /\ status' = [status EXCEPT ![r] = "resolved"]
    /\ Tell(members[r], Len(decisions) + 1)
    /\ UNCHANGED <<members, budget, used, running, ended>>

ResolveQuietly(a, r) ==
    /\ a \in running
    /\ status[r] # "none"
    /\ Len(decisions) < MaxDecisions
    /\ decisions' = Append(decisions, Record(r, a))
    /\ current' = [current EXCEPT ![r] = Len(decisions) + 1]
    /\ IF status[r] = "open" THEN Tell(members[r], Len(decisions) + 1) ELSE UNCHANGED heard
    /\ status' = [status EXCEPT ![r] = "resolved"]
    /\ UNCHANGED <<members, budget, used, running, ended>>

(* resolve_room: any agent, any state of the room. *)
Resolve(a, r) ==
    /\ a \in running
    /\ status[r] # "none"
    /\ Len(decisions) < MaxDecisions
    /\ decisions' = Append(decisions, Record(r, a))
    /\ current' = [current EXCEPT ![r] = Len(decisions) + 1]
    /\ status' = [status EXCEPT ![r] = "resolved"]
    /\ Tell(members[r] \ {a}, Len(decisions) + 1)
    /\ UNCHANGED <<members, budget, used, running, ended>>

(* arbitrateExpiredRooms: every expired room gets a record.  Its members are
   notified, but nobody is running to hear it. *)
Arbitrate ==
    /\ running = {}
    /\ Expired # {}
    /\ \E order \in SetToSeqs(Expired) :
          /\ decisions' = decisions \o
                 [k \in DOMAIN order |-> Record(order[k], Orchestrator)]
          /\ current' = [r \in RoomIds |->
                 IF r \in Expired
                 THEN Len(decisions) + (CHOOSE k \in DOMAIN order : order[k] = r)
                 ELSE current[r]]
    /\ status' = [r \in RoomIds |-> IF r \in Expired THEN "resolved" ELSE status[r]]
    /\ UNCHANGED <<members, budget, used, running, ended, heard>>

-----------------------------------------------------------------------------

Next ==
    \/ \E a \in Agents :
          \/ Spawn(a)
          \/ EndRun(a)
          \/ \E r \in RoomIds :
                \/ SendToRoom(a, r)
                \/ Resolve(a, r)
                \/ Invite(r, a)
                \/ \E invite \in SUBSET Agents, b \in Budgets : Open(a, r, invite, b)
    \/ Arbitrate

Spec == Init /\ [][Next]_vars

(* Every run ends, and between waves the orchestrator arbitrates. *)
FairSpec ==
    /\ Spec
    /\ \A a \in Agents : WF_vars(EndRun(a))
    /\ WF_vars(Arbitrate)

-----------------------------------------------------------------------------
(* Properties *)

(* A room stays open only within its turn budget, an expired one has used it
   up, no room takes more turns than its budget (one, if that is not positive),
   whichever agents send at the same time, and the orchestrator decides only rooms
   that have used up theirs. *)
TurnsWithinBudget ==
    /\ \A r \in RoomIds :
        /\ used[r] <= Max({budget[r], 1})
        /\ status[r] = "open" => used[r] = 0 \/ used[r] < budget[r]
        /\ status[r] = "expired" => used[r] >= budget[r]
    /\ \A k \in DOMAIN decisions :
        decisions[k].author = Orchestrator
            => used[decisions[k].room] >= budget[decisions[k].room]

(* The records of a room share the array of its members and keep their
   participants, and the decision it shows is the last one made about it, also when
   several were made. *)
RecordsStayTrue ==
    /\ \A r \in RoomIds :
        /\ status[r] = "resolved" <=> current[r] # 0
        /\ current[r] # 0 =>
              /\ decisions[current[r]].room = r
              /\ \A k \in current[r] + 1 .. Len(decisions) : decisions[k].room # r
    /\ \A k \in DOMAIN decisions : members[decisions[k].room] = decisions[k].participants

(* A decision stays what it was when it was made: a room that expired or was
   resolved takes no more turns or members and never opens again, and its records
   stay true. *)
DecisionsAreFinal ==
    /\ []RecordsStayTrue
    /\ [][\A r \in RoomIds :
          status[r] \in {"expired", "resolved"} =>
              /\ status'[r] \in {"expired", "resolved"}
              /\ used'[r] = used[r]
              /\ members'[r] = members[r]]_vars

(* The budget ends every negotiation in a decision: turns stay within it, and a
   room that ran out of them gets a decision, from an agent or, once the wave
   is over, from the orchestrator. *)
BudgetEndsInADecision ==
    /\ []TurnsWithinBudget
    /\ \A r \in RoomIds : status[r] = "expired" ~> status[r] = "resolved"

(* An agent at work knows every decision it has a part in, however often a room
   was decided and whether it was running or not yet spawned at the time: it
   made the decision, was told of it, or had it in its prompt
   (room-manager.ts:8, "a decision record that outlives the room"). *)
MembersKnowTheDecisions ==
    \A a \in running, k \in DOMAIN decisions :
        a \in decisions[k].participants => decisions[k].author = a \/ k \in heard[a]
=============================================================================
