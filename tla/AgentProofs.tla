----------------------------- MODULE AgentProofs -----------------------------
(***************************************************************************)
(* Proofs about Agent, for any number of messages, tool calls and replies. *)
(*                                                                         *)
(* A message of the user is conserved: each step moves it from one place   *)
(* to the next (a queue, the run, the transcript, or out of the way), so   *)
(* that the number of its places stays one (OnceOK). Their order is kept   *)
(* because what is drained from a queue comes before what is left in it,   *)
(* and what is on its way into the run before what is queued (OrderOK).    *)
(* The copy a run works on lags behind the transcript only by the results  *)
(* that were shown since the last turn ended (ContextOK), which needs to   *)
(* know how far a batch of tool calls has come (BatchOK).                  *)
(*                                                                         *)
(* The results of a transcript stand behind their reply with no reply or   *)
(* message of the user between (TranscriptOK), although some may be        *)
(* missing. The pass of transformMessages over such a transcript is a      *)
(* fold; it has sent nothing but acceptable messages and the results, so   *)
(* far, of the last reply, and fills the rest in before it goes on.        *)
(* A compaction cuts at a message that is no result, so that the end it    *)
(* keeps is a transcript of the same kind.                                 *)
(***************************************************************************)
EXTENDS Agent, FiniteSetTheorems, FunctionTheorems, SequenceTheorems, WellFoundedInduction, TLAPS

-----------------------------------------------------------------------------
(* The inductive invariant *)

Ids == 1..Len(sent)
Message ==
    [role : {"user"}, id : Nat]
    \cup [role : {"assistant"}, n : Nat, calls : Nat, broken : BOOLEAN]
    \cup [role : {"toolResult"}, call : Nat \X Nat]
Outcomes == {"open", "ready", "running", "done", "stop"}
BatchType ==
    [calls : Nat, how : {"none", "truncated", "sequential", "parallel"}, next : Nat \ {0},
     out : Seq(Outcomes), shown : Nat]
Working == {"prepare", "check", "execute", "results", "turn_end"}

TypeOK ==
    /\ mode \in {"all", "one-at-a-time"}
    /\ messages \in Seq(Message) /\ context \in Seq(Message)
    /\ steering \in Seq(Ids) /\ followUp \in Seq(Ids) /\ pending \in Seq(Ids)
    /\ run \in {None} \cup [aborted : BOOLEAN, skip : BOOLEAN, doomed : BOOLEAN]
    /\ pc \in {"idle", "prompt", "poll", "inject", "ask", "answer", "follow_up", "end",
               "failing", "settle"} \cup Working
    /\ more \in BOOLEAN
    /\ batch \in BatchType /\ Len(batch.out) = batch.calls
    /\ replies \in Nat
    /\ sent \in Seq({"prompt", "steer", "followUp"})
    /\ gone \in SUBSET Ids
    /\ waited \in Nat

(* A run is active unless the agent is idle; messages are on their way into it
   only while it injects them. *)
ControlOK ==
    /\ run = None <=> pc = "idle"
    /\ pending = <<>> <=> pc \notin {"prompt", "inject"}

(* How far the tool calls of a batch are: a sequential one runs one at a time. *)
BatchOK ==
    /\ pc \in {"prepare", "check", "execute", "results"} => batch.how # "none"
    /\ pc = "prepare" => batch.next <= batch.calls
    /\ pc = "check" => batch.next > 1 /\ batch.how # "truncated"
    /\ pc = "execute" => batch.next > 1 /\ batch.how # "truncated"
    /\ pc = "results" => batch.how = "parallel" /\ batch.shown < batch.next - 1
    /\ pc \in {"prepare", "check", "execute"} => batch.shown = 0
    /\ batch.how = "sequential" =>
          \A i \in 1..batch.calls : /\ batch.out[i] # "ready"
                                    /\ batch.out[i] = "running" => pc = "execute" /\ i = batch.next - 1

(* The results of the batch that are in the transcript. *)
Results(n, k) == [i \in 1..k |-> Result(n, i)]
Shown ==
    IF pc = "results" THEN batch.shown
    ELSE IF batch.how = "parallel" /\ pc # "turn_end" THEN 0
    ELSE IF pc = "execute" THEN batch.next - 2 ELSE batch.next - 1
ContextOK ==
    /\ pc = "prompt" => context = messages \o Users(pending)
    /\ pc \in {"poll", "inject", "ask", "answer", "follow_up"} => context = messages
    /\ pc \in Working => messages = context \o Results(replies, Shown)

(* Every message is in one place. *)
Gone(m) == IF m \in gone THEN 1 ELSE 0
OnceOK ==
    \A m \in Ids :
        Count(steering, m) + Count(followUp, m) + Count(pending, m) + Cardinality(At(m)) + Gone(m) = 1

(* Messages that were sent in the same way are taken in their order. *)
Rising(s) == \A i, j \in 1..Len(s) : i < j => s[i] < s[j]
Before(x, s) == \A i \in 1..Len(s) : sent[x] = sent[s[i]] => x < s[i]
OrderOK ==
    /\ Rising(steering) /\ Rising(followUp) /\ Rising(pending)
    /\ \A i \in 1..Len(steering) : sent[steering[i]] = "steer"
    /\ \A i \in 1..Len(followUp) : sent[followUp[i]] = "followUp"
    /\ \A i \in 1..Len(pending) : Before(pending[i], steering) /\ Before(pending[i], followUp)
    /\ \A k \in 1..Len(messages) : messages[k].role = "user" =>
          /\ messages[k].id \in Ids
          /\ Before(messages[k].id, pending)
          /\ Before(messages[k].id, steering) /\ Before(messages[k].id, followUp)
    /\ \A k, l \in 1..Len(messages) :
          /\ k < l /\ messages[k].role = "user" /\ messages[l].role = "user"
          /\ sent[messages[k].id] = sent[messages[l].id]
          => messages[k].id < messages[l].id

(* A request that was made while a steering message was next is followed by a
   poll of the queue before another one is made. *)
WaitOK ==
    /\ waited <= 1
    /\ pc \in {"inject", "ask", "follow_up"} => waited = 0
    /\ run # None /\ run.skip => waited = 0 /\ pc \in {"prompt", "poll", "failing", "settle"}

IInv == TypeOK /\ ControlOK /\ BatchOK /\ ContextOK /\ OnceOK /\ OrderOK /\ WaitOK

-----------------------------------------------------------------------------
(* Counting in sequences. *)

(* A message is counted as often as it is there. *)
LEMMA CountIsNatural ==
    ASSUME NEW S, NEW s \in Seq(S), NEW m
    PROVE  /\ IsFiniteSet({i \in DOMAIN s : s[i] = m}) /\ Count(s, m) \in Nat
           /\ Count(s, m) = 0 <=> \A i \in 1..Len(s) : s[i] # m
<1> DEFINE P == {i \in DOMAIN s : s[i] = m}
<1>1. DOMAIN s = 1..Len(s) /\ Len(s) \in Nat
  BY LenProperties
<1>2. IsFiniteSet(1..Len(s))
  BY <1>1, FS_Interval
<1>3. IsFiniteSet(P)
  BY <1>1, <1>2, FS_Subset
<1>4. Cardinality(P) \in Nat
  BY <1>3, FS_CardinalityType
<1>5. Cardinality(P) = 0 <=> P = {}
  BY <1>3, FS_EmptySet
<1> QED
  BY <1>1, <1>3, <1>4, <1>5 DEF Count

LEMMA CountEmpty ==
    ASSUME NEW m
    PROVE  Count(<<>>, m) = 0
<1>1. {i \in DOMAIN <<>> : <<>>[i] = m} = {}
  OBVIOUS
<1> QED
  BY <1>1, FS_EmptySet DEF Count

LEMMA CountOne ==
    ASSUME NEW x, NEW m
    PROVE  Count(<<x>>, m) = IF x = m THEN 1 ELSE 0
<1>1. {i \in DOMAIN <<x>> : <<x>>[i] = m} = IF x = m THEN {1} ELSE {}
  OBVIOUS
<1> QED
  BY <1>1, FS_EmptySet, FS_Singleton DEF Count

(* One more at the end of a queue. *)
LEMMA CountAppend ==
    ASSUME NEW S, NEW s \in Seq(S), NEW x \in S, NEW m
    PROVE  Count(Append(s, x), m) = Count(s, m) + (IF x = m THEN 1 ELSE 0)
<1> DEFINE t == Append(s, x)
           n == Len(s) + 1
           P == {i \in DOMAIN s : s[i] = m}
           Q == {i \in DOMAIN t : t[i] = m}
<1>1. /\ DOMAIN s = 1..Len(s) /\ Len(s) \in Nat /\ DOMAIN t = 1..n
      /\ t[n] = x /\ \A i \in 1..Len(s) : t[i] = s[i]
  BY LenProperties
<1>2. Q = IF x = m THEN P \cup {n} ELSE P
  <2>1. \A i \in 1..n : i \in 1..Len(s) \/ i = n
    BY <1>1
  <2>2. n \in 1..n /\ 1..Len(s) \subseteq 1..n
    BY <1>1
  <2> HIDE DEF t, n
  <2> QED
    BY <1>1, <2>1, <2>2
<1>3. n \notin P /\ IsFiniteSet(P)
  <2>1. IsFiniteSet(P)
    BY CountIsNatural
  <2>2. n \notin P
    BY <1>1
  <2> QED
    BY <2>1, <2>2
<1>4. Cardinality(P \cup {n}) = Cardinality(P) + 1
  BY <1>3, FS_AddElement
<1>5. Cardinality(P) \in Nat
  BY <1>3, FS_CardinalityType
<1>6. Count(s, m) = Cardinality(P) /\ Count(t, m) = Cardinality(Q)
  BY DEF Count
<1> HIDE DEF P, Q
<1> QED
  BY <1>2, <1>4, <1>5, <1>6

(* One less at its head. *)
LEMMA CountTail ==
    ASSUME NEW S, NEW s \in Seq(S), s # <<>>, NEW m
    PROVE  Count(s, m) = Count(Tail(s), m) + (IF Head(s) = m THEN 1 ELSE 0)
<1> DEFINE t == Tail(s)
           n == Len(s)
           P == {i \in DOMAIN t : t[i] = m}
           Q == {i \in DOMAIN s : s[i] = m}
           R == Q \ {1}
<1>1. /\ DOMAIN s = 1..n /\ n \in Nat \ {0} /\ DOMAIN t = 1..(n - 1) /\ t \in Seq(S)
      /\ Head(s) = s[1] /\ \A i \in 1..(n - 1) : t[i] = s[i + 1]
  BY LenProperties, HeadTailProperties, EmptySeq
<1>2. IsFiniteSet(P) /\ IsFiniteSet(Q) /\ Cardinality(P) \in Nat
  <2>1. IsFiniteSet(P)
    <3>1. t \in Seq(S)
      BY <1>1
    <3> HIDE DEF t
    <3> QED
      BY <3>1, CountIsNatural
  <2>2. IsFiniteSet(Q)
    BY CountIsNatural
  <2> QED
    BY <2>1, <2>2, FS_CardinalityType
<1>3. Cardinality(R) = Cardinality(P)
  <2> DEFINE f == [i \in P |-> i + 1]
  <2>1. \A i \in P : f[i] \in R
    BY <1>1
  <2>2. \A r \in R : r - 1 \in P /\ f[r - 1] = r
    BY <1>1
  <2>3. \A i, k \in P : f[i] = f[k] => i = k
    BY <1>1
  <2>4. f \in Bijection(P, R)
    <3>1. f \in [P -> R]
      BY <2>1
    <3> HIDE DEF f
    <3> QED
      BY <2>2, <2>3, <3>1, Fun_IsBij
  <2>5. ExistsBijection(P, R)
    BY <2>4 DEF ExistsBijection
  <2> QED
    BY <1>2, <2>5, FS_Bijection
<1>4. Cardinality(Q) = Cardinality(R) + (IF 1 \in Q THEN 1 ELSE 0)
  <2>1. Cardinality(R) = IF 1 \in Q THEN Cardinality(Q) - 1 ELSE Cardinality(Q)
    BY <1>2, FS_RemoveElement
  <2>2. Cardinality(Q) \in Nat
    BY <1>2, FS_CardinalityType
  <2> QED
    BY <2>1, <2>2
<1>5. 1 \in Q <=> Head(s) = m
  BY <1>1
<1> QED
  BY <1>3, <1>4, <1>5 DEF Count

(* Draining a queue loses none of its messages and doubles none. *)
LEMMA CountDrained ==
    ASSUME NEW S, NEW q \in Seq(S), NEW m
    PROVE  Count(q, m) = Count(Drained(q), m) + Count(Left(q), m)
<1>1. Count(q, m) \in Nat
  BY CountIsNatural
<1>2. CASE mode = "all" \/ q = <<>>
  BY <1>1, <1>2, CountEmpty DEF Drained, Left
<1>3. CASE ~(mode = "all" \/ q = <<>>)
  <2>1. Head(q) \in S /\ <<>> \in Seq(S) /\ Append(<<>>, Head(q)) = <<Head(q)>>
    BY <1>3, HeadTailProperties, EmptySeq
  <2>2. Count(<<Head(q)>>, m) = IF Head(q) = m THEN 1 ELSE 0
    BY CountOne
  <2>3. Tail(q) \in Seq(S) /\ Count(Tail(q), m) \in Nat
    BY <1>3, HeadTailProperties, CountIsNatural
  <2> QED
    BY <1>3, <2>2, <2>3, CountTail DEF Drained, Left
<1> QED
  BY <1>2, <1>3

LEMMA SaidFinite ==
    ASSUME NEW S, messages \in Seq(S), NEW m
    PROVE  IsFiniteSet(At(m)) /\ Cardinality(At(m)) \in Nat
<1>1. Len(messages) \in Nat /\ DOMAIN messages = 1..Len(messages)
  BY LenProperties
<1>2. IsFiniteSet(1..Len(messages))
  BY <1>1, FS_Interval
<1>3. At(m) \subseteq 1..Len(messages)
  BY <1>1 DEF At
<1> QED
  BY <1>2, <1>3, FS_Subset, FS_CardinalityType

(* A message of the transcript is found where it was appended. *)
LEMMA SaidAppend ==
    ASSUME NEW S, messages \in Seq(S), NEW x \in S, messages' = Append(messages, x), NEW m
    PROVE  /\ Cardinality(At(m)) \in Nat
           /\ Cardinality(At(m)') = Cardinality(At(m))
                                      + (IF x.role = "user" /\ x.id = m THEN 1 ELSE 0)
<1> DEFINE n == Len(messages) + 1
<1>1. /\ DOMAIN messages = 1..Len(messages) /\ Len(messages) \in Nat /\ DOMAIN messages' = 1..n
      /\ messages'[n] = x /\ \A i \in 1..Len(messages) : messages'[i] = messages[i]
  BY LenProperties
<1>2. IsFiniteSet(At(m)) /\ n \notin At(m)
  <2>1. IsFiniteSet(1..Len(messages)) /\ At(m) \subseteq 1..Len(messages) /\ n \notin 1..Len(messages)
    BY SMTT(60), <1>1, FS_Interval DEF At
  <2> QED
    BY <2>1, FS_Subset
<1>3. At(m)' = IF x.role = "user" /\ x.id = m THEN At(m) \cup {n} ELSE At(m)
  <2>1. \A i \in 1..n : i \in 1..Len(messages) \/ i = n
    BY <1>1
  <2>2. n \in 1..n /\ 1..Len(messages) \subseteq 1..n
    BY <1>1
  <2> HIDE DEF n
  <2> QED
    BY <1>1, <2>1, <2>2 DEF At
<1>4. Cardinality(At(m)) \in Nat
  BY <1>2, FS_CardinalityType
<1>5. Cardinality(At(m) \cup {n}) = Cardinality(At(m)) + 1
  BY <1>2, FS_AddElement
<1> QED
  BY <1>3, <1>4, <1>5

-----------------------------------------------------------------------------
(* Where the messages of the user are. *)

Places == <<sent, steering, followUp, pending, messages, gone>>

LEMMA PlacesStay ==
    ASSUME OnceOK, OrderOK, UNCHANGED Places
    PROVE  OnceOK' /\ OrderOK'
<1>1. OnceOK'
  BY DEF OnceOK, Places, Ids, Count, At, Gone
<1>2. OrderOK'
  BY DEF OrderOK, Places, Ids, Rising, Before
<1> QED
  BY <1>1, <1>2

(* What is drained from a queue in order is in order, and comes before the rest. *)
LEMMA DrainOrder ==
    ASSUME NEW n \in Nat, NEW q \in Seq(1..n), Rising(q)
    PROVE  LET d == Drained(q)
               r == Left(q)
           IN  /\ d \in Seq(1..n) /\ r \in Seq(1..n) /\ Rising(d) /\ Rising(r)
               /\ \A i \in 1..Len(d) : \E k \in 1..Len(q) : d[i] = q[k]
               /\ \A i \in 1..Len(r) : \E k \in 1..Len(q) : r[i] = q[k]
               /\ \A i \in 1..Len(d), j \in 1..Len(r) : d[i] < r[j]
<1>1. CASE mode = "all" \/ q = <<>>
  <2>1. <<>> \in Seq(1..n) /\ Len(<<>>) = 0 /\ Len(q) \in Nat
    BY EmptySeq, LenProperties
  <2>2. Drained(q) = q /\ Left(q) = <<>>
    BY <1>1 DEF Drained, Left
  <2>3. Rising(<<>>)
    BY <2>1 DEF Rising
  <2>4. \A i \in 1..Len(<<>>) : FALSE
    BY <2>1
  <2> QED
    BY <2>1, <2>2, <2>3, <2>4
<1>2. CASE ~(mode = "all" \/ q = <<>>)
  <2> DEFINE r == Tail(q)
             d == <<Head(q)>>
  <2>1. /\ r \in Seq(1..n) /\ Len(r) = Len(q) - 1 /\ Head(q) = q[1] /\ q[1] \in 1..n
        /\ Len(q) \in Nat \ {0} /\ \A i \in 1..Len(r) : r[i] = q[i + 1]
    BY <1>2, HeadTailProperties, EmptySeq
  <2>2. \A i \in 1..Len(r) : i + 1 \in 1..Len(q)
    BY <2>1
  <2>3. Rising(r)
    BY <2>1, <2>2 DEF Rising
  <2>4. /\ d \in Seq(1..n) /\ Len(d) = 1 /\ d[1] = q[1]
    BY <2>1
  <2>5. \A i \in 1..Len(r) : q[1] < r[i]
    BY <2>1, <2>2 DEF Rising
  <2>6. Drained(q) = d /\ Left(q) = r
    BY <1>2 DEF Drained, Left
  <2> HIDE DEF d, r
  <2>7. Rising(d)
    BY <2>4 DEF Rising
  <2>8. /\ \A i \in 1..Len(d) : i = 1
        /\ 1 \in 1..Len(q)
    BY <2>1, <2>4
  <2>9. \A i \in 1..Len(r) : \E k \in 1..Len(q) : r[i] = q[k]
    BY <2>1, <2>2
  <2> QED
    BY <2>1, <2>3, <2>4, <2>5, <2>6, <2>7, <2>8, <2>9
<1> QED
  BY <1>1, <1>2

(* A step that moves nothing but the head of pending, or a whole queue or its
   head into the empty pending, keeps every message in one place. *)
LEMMA SteeringTaken ==
    ASSUME TypeOK, OnceOK, OrderOK, pending = <<>>,
           pending' = Drained(steering), steering' = Left(steering),
           UNCHANGED <<sent, followUp, messages, gone>>
    PROVE  /\ OnceOK' /\ OrderOK'
           /\ pending' \in Seq(Ids) /\ steering' \in Seq(Ids)
<1>1. Len(sent) \in Nat /\ steering \in Seq(Ids) /\ followUp \in Seq(Ids)
  BY LenProperties DEF TypeOK
<1>2. OnceOK'
  <2> SUFFICES ASSUME NEW m \in Ids
               PROVE  Count(steering', m) + Count(followUp, m) + Count(pending', m)
                         + Cardinality(At(m)) + Gone(m) = 1
    BY ZenonT(60), SMTT(60) DEF OnceOK, Ids, At, Gone, Count
  <2>1. Count(pending, m) = 0
    BY CountEmpty
  <2>2. Count(steering, m) = Count(pending', m) + Count(steering', m)
    BY <1>1, CountDrained
  <2>3. /\ Drained(steering) \in Seq(Ids) /\ Left(steering) \in Seq(Ids)
    BY <1>1, DrainOrder DEF OrderOK, Ids
  <2>4. Count(pending', m) \in Nat /\ Count(steering', m) \in Nat /\ Count(followUp, m) \in Nat
    BY <1>1, <2>3, CountIsNatural
  <2>5. Count(steering, m) + Count(followUp, m) + Count(pending, m) + Cardinality(At(m)) + Gone(m) = 1
    BY DEF OnceOK
  <2>6. Cardinality(At(m)) \in Nat
    BY SaidFinite DEF TypeOK
  <2> QED
    BY <2>1, <2>2, <2>4, <2>5, <2>6 DEF Gone
<1>3. /\ pending' \in Seq(Ids) /\ steering' \in Seq(Ids) /\ Rising(pending') /\ Rising(steering')
      /\ \A i \in 1..Len(pending') : \E k \in 1..Len(steering) : pending'[i] = steering[k]
      /\ \A i \in 1..Len(steering') : \E k \in 1..Len(steering) : steering'[i] = steering[k]
      /\ \A i \in 1..Len(pending'), j \in 1..Len(steering') : pending'[i] < steering'[j]
  BY ZenonT(60), <1>1, DrainOrder DEF OrderOK, Ids
<1>4. \A i \in 1..Len(steering') : sent[steering'[i]] = "steer"
  BY SMTT(60), <1>3 DEF OrderOK
<1>5. \A i \in 1..Len(pending') : Before(pending'[i], steering')
  BY <1>3 DEF Before
<1>6. \A i \in 1..Len(pending') : Before(pending'[i], followUp)
  BY <1>3 DEF Before, OrderOK
<1>7. \A k \in 1..Len(messages) : messages[k].role = "user" =>
          Before(messages[k].id, pending') /\ Before(messages[k].id, steering')
  BY SMTT(60), <1>3 DEF Before, OrderOK
<1>8. OrderOK'
  BY <1>3, <1>4, <1>5, <1>6, <1>7 DEF OrderOK, Before, Rising, Ids
<1> QED
  BY <1>2, <1>3, <1>8

LEMMA FollowUpTaken ==
    ASSUME TypeOK, OnceOK, OrderOK, pending = <<>>,
           pending' = Drained(followUp), followUp' = Left(followUp),
           UNCHANGED <<sent, steering, messages, gone>>
    PROVE  /\ OnceOK' /\ OrderOK'
           /\ pending' \in Seq(Ids) /\ followUp' \in Seq(Ids)
<1>1. Len(sent) \in Nat /\ steering \in Seq(Ids) /\ followUp \in Seq(Ids)
  BY LenProperties DEF TypeOK
<1>2. OnceOK'
  <2> SUFFICES ASSUME NEW m \in Ids
               PROVE  Count(steering, m) + Count(followUp', m) + Count(pending', m)
                         + Cardinality(At(m)) + Gone(m) = 1
    BY ZenonT(60), SMTT(60) DEF OnceOK, Ids, At, Gone, Count
  <2>1. Count(pending, m) = 0
    BY CountEmpty
  <2>2. Count(followUp, m) = Count(pending', m) + Count(followUp', m)
    BY <1>1, CountDrained
  <2>3. /\ Drained(followUp) \in Seq(Ids) /\ Left(followUp) \in Seq(Ids)
    BY <1>1, DrainOrder DEF OrderOK, Ids
  <2>4. Count(pending', m) \in Nat /\ Count(followUp', m) \in Nat /\ Count(steering, m) \in Nat
    BY <1>1, <2>3, CountIsNatural
  <2>5. Count(steering, m) + Count(followUp, m) + Count(pending, m) + Cardinality(At(m)) + Gone(m) = 1
    BY DEF OnceOK
  <2>6. Cardinality(At(m)) \in Nat
    BY SaidFinite DEF TypeOK
  <2> QED
    BY <2>1, <2>2, <2>4, <2>5, <2>6 DEF Gone
<1>3. /\ pending' \in Seq(Ids) /\ followUp' \in Seq(Ids) /\ Rising(pending') /\ Rising(followUp')
      /\ \A i \in 1..Len(pending') : \E k \in 1..Len(followUp) : pending'[i] = followUp[k]
      /\ \A i \in 1..Len(followUp') : \E k \in 1..Len(followUp) : followUp'[i] = followUp[k]
      /\ \A i \in 1..Len(pending'), j \in 1..Len(followUp') : pending'[i] < followUp'[j]
  BY ZenonT(60), <1>1, DrainOrder DEF OrderOK, Ids
<1>4. \A i \in 1..Len(followUp') : sent[followUp'[i]] = "followUp"
  BY <1>3 DEF OrderOK
<1>5. \A i \in 1..Len(pending') : Before(pending'[i], followUp')
  BY <1>3 DEF Before
<1>6. \A i \in 1..Len(pending') : Before(pending'[i], steering)
  BY <1>3 DEF Before, OrderOK
<1>7. \A k \in 1..Len(messages) : messages[k].role = "user" =>
          Before(messages[k].id, pending') /\ Before(messages[k].id, followUp')
  BY SMTT(60), <1>3 DEF Before, OrderOK
<1>8. OrderOK'
  BY SMTT(60), <1>3, <1>4, <1>5, <1>6, <1>7 DEF OrderOK, Before, Rising, Ids
<1> QED
  BY <1>2, <1>3, <1>8

(* A message on its way into the run is in the transcript now. *)
LEMMA HeadInjected ==
    ASSUME TypeOK, OnceOK, OrderOK, pending # <<>>,
           messages' = Append(messages, User(Head(pending))), pending' = Tail(pending),
           UNCHANGED <<sent, steering, followUp, gone>>
    PROVE  /\ OnceOK' /\ OrderOK'
           /\ messages' \in Seq(Message) /\ pending' \in Seq(Ids)
<1> DEFINE x == User(Head(pending))
           n == Len(messages)
<1>1. /\ Len(sent) \in Nat /\ messages \in Seq(Message) /\ n \in Nat
      /\ pending \in Seq(Ids) /\ Len(pending) \in Nat \ {0}
  BY LenProperties, EmptySeq DEF TypeOK
<1>2. /\ Head(pending) = pending[1] /\ pending[1] \in Ids /\ pending' \in Seq(Ids)
      /\ Len(pending') = Len(pending) - 1
      /\ \A i \in 1..Len(pending') : pending'[i] = pending[i + 1] /\ i + 1 \in 1..Len(pending)
  BY <1>1, HeadTailProperties
<1>3. x \in Message /\ x.role = "user" /\ x.id = pending[1]
  <2>1. pending[1] \in Nat
    BY <1>1, <1>2 DEF Ids
  <2> QED
    BY <1>2, <2>1 DEF User, Message
<1>4. /\ messages' \in Seq(Message) /\ Len(messages') = n + 1
      /\ messages'[n + 1] = x /\ \A k \in 1..n : messages'[k] = messages[k]
  <2> HIDE DEF x
  <2> QED
    BY <1>1, <1>3 DEF x
<1>5. OnceOK'
  <2> SUFFICES ASSUME NEW m \in Ids
               PROVE  Count(steering, m) + Count(followUp, m) + Count(pending', m)
                         + Cardinality(At(m)') + Gone(m) = 1
    BY DEF OnceOK, Ids, Gone, Count
  <2>1. Count(pending, m) = Count(pending', m) + (IF pending[1] = m THEN 1 ELSE 0)
    BY <1>1, <1>2, CountTail
  <2>2. /\ Cardinality(At(m)) \in Nat
        /\ Cardinality(At(m)') = Cardinality(At(m)) + (IF pending[1] = m THEN 1 ELSE 0)
    <3>1. PICK y \in Message : y = x /\ messages' = Append(messages, y)
      BY <1>3
    <3> HIDE DEF x
    <3> QED
      BY <1>1, <1>3, <3>1, SaidAppend
  <2>3. Count(pending', m) \in Nat /\ Count(steering, m) \in Nat /\ Count(followUp, m) \in Nat
    BY <1>1, <1>2, CountIsNatural DEF TypeOK
  <2>4. Count(steering, m) + Count(followUp, m) + Count(pending, m) + Cardinality(At(m)) + Gone(m) = 1
    BY DEF OnceOK
  <2> QED
    BY <2>1, <2>2, <2>3, <2>4 DEF Gone
<1>6. Rising(pending')
  BY <1>1, <1>2 DEF Rising, OrderOK
<1>7. \A i \in 1..Len(pending') : Before(pending'[i], steering) /\ Before(pending'[i], followUp)
  BY <1>1, <1>2 DEF OrderOK
<1>8. 1 \in 1..Len(pending) /\ \A i \in 1..Len(pending') : pending[1] < pending'[i]
  BY <1>1, <1>2 DEF Rising, OrderOK
<1>9. Before(pending[1], pending') /\ Before(pending[1], steering) /\ Before(pending[1], followUp)
  BY <1>8 DEF OrderOK, Before
<1>10. \A k \in 1..n : messages[k].role = "user" =>
          /\ messages[k].id \in Ids
          /\ Before(messages[k].id, pending') /\ Before(messages[k].id, pending)
          /\ Before(messages[k].id, steering) /\ Before(messages[k].id, followUp)
  BY <1>1, <1>2 DEF OrderOK, Before
<1>11. \A k \in 1..(n + 1) : k \in 1..n \/ k = n + 1
  BY <1>1
<1>12. \A k \in 1..(n + 1) : messages'[k].role = "user" =>
          /\ messages'[k].id \in Ids
          /\ Before(messages'[k].id, pending')
          /\ Before(messages'[k].id, steering) /\ Before(messages'[k].id, followUp)
  BY <1>2, <1>3, <1>4, <1>9, <1>10, <1>11
<1>13. ASSUME NEW k \in 1..(n + 1), NEW l \in 1..(n + 1), k < l,
              messages'[k].role = "user", messages'[l].role = "user",
              sent[messages'[k].id] = sent[messages'[l].id]
       PROVE  messages'[k].id < messages'[l].id
  <2>1. k \in 1..n /\ messages'[k] = messages[k]
    BY <1>1, <1>4, <1>13
  <2>2. CASE l \in 1..n
    BY <1>4, <1>13, <2>1, <2>2 DEF OrderOK
  <2>3. CASE l = n + 1
    BY <1>3, <1>4, <1>8, <1>10, <1>13, <2>1, <2>3 DEF Before
  <2> QED
    BY <1>11, <2>2, <2>3
<1>14. OrderOK'
  BY ZenonT(60), <1>4, <1>6, <1>7, <1>12, <1>13 DEF OrderOK, Before, Rising, Ids
<1> QED
  BY <1>2, <1>4, <1>5, <1>14

(* A reply or a result joins the transcript. *)
LEMMA OtherMessage ==
    ASSUME TypeOK, OnceOK, OrderOK, NEW x \in Message, x.role # "user",
           messages' = Append(messages, x),
           UNCHANGED <<sent, steering, followUp, pending, gone>>
    PROVE  OnceOK' /\ OrderOK' /\ messages' \in Seq(Message)
<1> DEFINE n == Len(messages)
<1>1. /\ messages \in Seq(Message) /\ n \in Nat /\ messages' \in Seq(Message) /\ Len(messages') = n + 1
      /\ messages'[n + 1] = x /\ \A k \in 1..n : messages'[k] = messages[k]
  BY LenProperties DEF TypeOK
<1>2. OnceOK'
  <2> SUFFICES ASSUME NEW m \in Ids
               PROVE  Count(steering, m) + Count(followUp, m) + Count(pending, m)
                         + Cardinality(At(m)') + Gone(m) = 1
    BY DEF OnceOK, Ids, Gone, Count
  <2>1. Cardinality(At(m)') = Cardinality(At(m)) + 0
    BY <1>1, SaidAppend
  <2>2. Cardinality(At(m)) \in Nat
    BY <1>1, SaidFinite
  <2>3. Cardinality(At(m)') = Cardinality(At(m))
    BY <2>1, <2>2
  <2> QED
    BY <2>3 DEF OnceOK
<1>3. \A k \in 1..(n + 1) : messages'[k].role = "user" => k \in 1..n /\ messages'[k] = messages[k]
  BY <1>1
<1>4. OrderOK'
  <2>1. /\ Rising(steering) /\ Rising(followUp) /\ Rising(pending)
        /\ \A i \in 1..Len(steering) : sent[steering[i]] = "steer"
        /\ \A i \in 1..Len(followUp) : sent[followUp[i]] = "followUp"
        /\ \A i \in 1..Len(pending) : Before(pending[i], steering) /\ Before(pending[i], followUp)
    BY DEF OrderOK
  <2>2. \A k \in 1..(n + 1) : messages'[k].role = "user" =>
          /\ messages'[k].id \in Ids
          /\ Before(messages'[k].id, pending)
          /\ Before(messages'[k].id, steering) /\ Before(messages'[k].id, followUp)
    BY <1>3 DEF OrderOK
  <2>3. ASSUME NEW k \in 1..(n + 1), NEW l \in 1..(n + 1), k < l,
               messages'[k].role = "user", messages'[l].role = "user",
               sent[messages'[k].id] = sent[messages'[l].id]
        PROVE  messages'[k].id < messages'[l].id
    <3>1. /\ k \in 1..n /\ messages'[k] = messages[k]
          /\ l \in 1..n /\ messages'[l] = messages[l]
      BY <1>3, <2>3
    <3> QED
      BY <2>3, <3>1 DEF OrderOK
  <2> HIDE DEF n
  <2> QED
    BY <1>1, <2>1, <2>2, <2>3 DEF OrderOK, Before, Rising, Ids
<1> QED
  BY <1>1, <1>2, <1>4

(* Everything said before stands where it stood when one more message is sent. *)
LEMMA OneMoreSent ==
    ASSUME TypeOK, NEW way \in {"prompt", "steer", "followUp"}, sent' = Append(sent, way)
    PROVE  /\ Len(sent) \in Nat /\ NextMessage = Len(sent) + 1
           /\ Ids' = 1..NextMessage /\ NextMessage \in Ids' /\ Ids \subseteq Ids' /\ NextMessage \notin Ids
           /\ \A m \in Ids' : m \in Ids \/ m = NextMessage
           /\ sent' \in Seq({"prompt", "steer", "followUp"})
           /\ sent'[NextMessage] = way /\ \A m \in Ids : sent'[m] = sent[m] /\ m < NextMessage
           /\ \A s \in Seq(Ids) : s \in Seq(Ids')
<1>1. /\ Len(sent) \in Nat /\ sent \in Seq({"prompt", "steer", "followUp"})
      /\ DOMAIN sent = 1..Len(sent)
  BY LenProperties DEF TypeOK
<1>2. Len(sent') = Len(sent) + 1
  BY <1>1
<1>3. /\ Ids' = 1..NextMessage /\ NextMessage \in Ids' /\ Ids \subseteq Ids' /\ NextMessage \notin Ids
      /\ \A m \in Ids' : m \in Ids \/ m = NextMessage
  BY <1>1, <1>2 DEF Ids, NextMessage
<1>4. sent'[NextMessage] = way /\ \A m \in Ids : sent'[m] = sent[m] /\ m < NextMessage
  BY <1>1, <1>2 DEF Ids, NextMessage
<1>5. \A s \in Seq(Ids) : s \in Seq(Ids')
  BY <1>3, SeqMonotonic
<1>6. sent' \in Seq({"prompt", "steer", "followUp"}) /\ NextMessage = Len(sent) + 1
  BY <1>1 DEF NextMessage
<1> QED
  BY <1>1, <1>3, <1>4, <1>5, <1>6

(* A message that is not sent yet is nowhere. *)
LEMMA NextIsNowhere ==
    ASSUME TypeOK, OrderOK
    PROVE  /\ Count(steering, NextMessage) = 0 /\ Count(followUp, NextMessage) = 0
           /\ Count(pending, NextMessage) = 0 /\ Cardinality(At(NextMessage)) = 0
           /\ Gone(NextMessage) = 0
<1>1. /\ Len(sent) \in Nat /\ NextMessage \notin Ids
      /\ steering \in Seq(Ids) /\ followUp \in Seq(Ids) /\ pending \in Seq(Ids)
  BY LenProperties DEF TypeOK, Ids, NextMessage
<1>2. \A s \in Seq(Ids) : Count(s, NextMessage) = 0
  <2> TAKE s \in Seq(Ids)
  <2>1. \A i \in 1..Len(s) : s[i] # NextMessage
    BY <1>1, ElementOfSeq
  <2> QED
    BY <2>1, CountIsNatural
<1>3. At(NextMessage) = {}
  <2>1. DOMAIN messages = 1..Len(messages)
    BY LenProperties DEF TypeOK
  <2> QED
    BY <1>1, <2>1 DEF At, OrderOK
<1>4. Gone(NextMessage) = 0
  BY <1>1 DEF Gone, TypeOK
<1> QED
  BY <1>1, <1>2, <1>3, <1>4, FS_EmptySet

LEMMA SteerSent ==
    ASSUME TypeOK, OnceOK, OrderOK, sent' = Append(sent, "steer"),
           steering' = Append(steering, NextMessage),
           UNCHANGED <<followUp, pending, messages, gone>>
    PROVE  /\ OnceOK' /\ OrderOK' /\ steering' \in Seq(Ids')
<1> DEFINE k == NextMessage
           n == Len(steering)
<1>1. /\ Len(sent) \in Nat /\ k \in Ids' /\ Ids \subseteq Ids' /\ k \notin Ids /\ k \in Nat
      /\ \A m \in Ids' : m \in Ids \/ m = k
      /\ sent'[k] = "steer" /\ \A m \in Ids : sent'[m] = sent[m] /\ m < k
      /\ \A s \in Seq(Ids) : s \in Seq(Ids')
  BY OneMoreSent DEF NextMessage
<1>2. /\ steering \in Seq(Ids) /\ followUp \in Seq(Ids) /\ pending \in Seq(Ids)
      /\ n \in Nat /\ \A i \in 1..n : steering[i] \in Ids
      /\ \A i \in 1..Len(followUp) : followUp[i] \in Ids
      /\ \A i \in 1..Len(pending) : pending[i] \in Ids
  BY LenProperties, ElementOfSeq DEF TypeOK
<1>3. /\ steering' \in Seq(Ids') /\ Len(steering') = n + 1 /\ steering'[n + 1] = k
      /\ \A i \in 1..n : steering'[i] = steering[i]
      /\ \A i \in 1..(n + 1) : i \in 1..n \/ i = n + 1
  <2> HIDE DEF k
  <2>1. steering \in Seq(Ids')
    BY <1>1, <1>2
  <2>2. steering' = Append(steering, k)
    BY DEF k
  <2> QED
    BY <1>1, <1>2, <2>1, <2>2
<1>4. OnceOK'
  <2> SUFFICES ASSUME NEW m \in Ids'
               PROVE  Count(steering', m) + Count(followUp, m) + Count(pending, m)
                         + Cardinality(At(m)) + Gone(m) = 1
    BY DEF OnceOK, Gone, Count, At
  <2>1. Count(steering', m) = Count(steering, m) + (IF k = m THEN 1 ELSE 0)
    <3> HIDE DEF k
    <3>1. steering \in Seq(Ids') /\ steering' = Append(steering, k)
      BY <1>1, <1>2 DEF k
    <3> QED
      BY <1>1, <3>1, CountAppend
  <2>2. CASE m \in Ids
    <3>1. Count(steering, m) \in Nat
      BY <1>2, CountIsNatural
    <3>2. Count(steering', m) = Count(steering, m)
      BY <1>1, <2>1, <2>2, <3>1
    <3> QED
      BY <2>2, <3>2 DEF OnceOK
  <2>3. CASE m = k
    BY <2>1, <2>3, NextIsNowhere
  <2> QED
    BY <1>1, <2>2, <2>3
<1>5. Rising(steering')
  <2> HIDE DEF k, n
  <2> SUFFICES ASSUME NEW i \in 1..(n + 1), NEW j \in 1..(n + 1), i < j
               PROVE  steering'[i] < steering'[j]
    BY <1>3 DEF Rising
  <2>1. i \in 1..n /\ steering'[i] = steering[i] /\ steering[i] \in Ids
    BY <1>2, <1>3
  <2>2. CASE j \in 1..n
    BY <1>3, <2>1, <2>2 DEF n, Rising, OrderOK
  <2>3. CASE j = n + 1
    BY <1>1, <1>3, <2>1, <2>3
  <2> QED
    BY <1>3, <2>2, <2>3
<1>6. \A i \in 1..(n + 1) : sent'[steering'[i]] = "steer"
  <2> HIDE DEF k
  <2> TAKE i \in 1..(n + 1)
  <2>1. CASE i \in 1..n
    <3>1. steering'[i] = steering[i] /\ steering[i] \in Ids
      BY <1>2, <1>3, <2>1
    <3>2. sent[steering[i]] = "steer"
      BY <2>1 DEF OrderOK
    <3> QED
      BY <1>1, <3>1, <3>2
  <2>2. CASE i = n + 1
    BY <1>1, <1>3, <2>2
  <2> QED
    BY <1>3, <2>1, <2>2
<1>7. \A i \in 1..Len(followUp) : sent'[followUp[i]] = "followUp"
  BY <1>1, <1>2 DEF OrderOK
<1>8. \A x \in Ids : Before(x, steering) => Before(x, steering)' /\ x < k
  <2> HIDE DEF k, n
  <2> SUFFICES ASSUME NEW x \in Ids, Before(x, steering), NEW i \in 1..(n + 1),
                      sent'[x] = sent'[steering'[i]]
               PROVE  x < steering'[i]
    BY <1>1, <1>3 DEF Before
  <2>1. CASE i \in 1..n
    <3>1. steering'[i] = steering[i] /\ steering[i] \in Ids
      BY <1>2, <1>3, <2>1
    <3>2. sent[x] = sent[steering[i]]
      BY <1>1, <3>1
    <3> QED
      BY <2>1, <3>1, <3>2 DEF n, Before
  <2>2. CASE i = n + 1
    BY <1>1, <1>3, <2>2
  <2> QED
    BY <1>3, <2>1, <2>2
<1>9. \A x \in Ids : /\ Before(x, followUp) => Before(x, followUp)'
                     /\ Before(x, pending) => Before(x, pending)'
  BY <1>1, <1>2 DEF Before
<1>10. OrderOK'
  <2>1. \A i \in 1..Len(pending) : Before(pending[i], steering)' /\ Before(pending[i], followUp)'
    BY <1>2, <1>8, <1>9 DEF OrderOK, Before
  <2>2. \A i \in 1..Len(messages) : messages[i].role = "user" =>
          /\ messages[i].id \in Ids /\ messages[i].id \in Ids'
          /\ Before(messages[i].id, pending)'
          /\ Before(messages[i].id, steering)' /\ Before(messages[i].id, followUp)'
    BY <1>1, <1>8, <1>9 DEF OrderOK, Before
  <2>3. \A i, l \in 1..Len(messages) :
          /\ i < l /\ messages[i].role = "user" /\ messages[l].role = "user"
          /\ sent'[messages[i].id] = sent'[messages[l].id]
          => messages[i].id < messages[l].id
    BY <1>1, <2>2 DEF OrderOK
  <2> QED
    BY ZenonT(60), <1>3, <1>5, <1>6, <1>7, <2>1, <2>2, <2>3 DEF OrderOK, Before, Rising
<1> QED
  BY <1>3, <1>4, <1>10

LEMMA FollowUpSent ==
    ASSUME TypeOK, OnceOK, OrderOK, sent' = Append(sent, "followUp"),
           followUp' = Append(followUp, NextMessage),
           UNCHANGED <<steering, pending, messages, gone>>
    PROVE  /\ OnceOK' /\ OrderOK' /\ followUp' \in Seq(Ids')
<1> DEFINE k == NextMessage
           n == Len(followUp)
<1>1. /\ Len(sent) \in Nat /\ k \in Ids' /\ Ids \subseteq Ids' /\ k \notin Ids /\ k \in Nat
      /\ \A m \in Ids' : m \in Ids \/ m = k
      /\ sent'[k] = "followUp" /\ \A m \in Ids : sent'[m] = sent[m] /\ m < k
      /\ \A s \in Seq(Ids) : s \in Seq(Ids')
  BY OneMoreSent DEF NextMessage
<1>2. /\ followUp \in Seq(Ids) /\ steering \in Seq(Ids) /\ pending \in Seq(Ids)
      /\ n \in Nat /\ \A i \in 1..n : followUp[i] \in Ids
      /\ \A i \in 1..Len(steering) : steering[i] \in Ids
      /\ \A i \in 1..Len(pending) : pending[i] \in Ids
  BY LenProperties, ElementOfSeq DEF TypeOK
<1>3. /\ followUp' \in Seq(Ids') /\ Len(followUp') = n + 1 /\ followUp'[n + 1] = k
      /\ \A i \in 1..n : followUp'[i] = followUp[i]
      /\ \A i \in 1..(n + 1) : i \in 1..n \/ i = n + 1
  <2> HIDE DEF k
  <2>1. followUp \in Seq(Ids')
    BY <1>1, <1>2
  <2>2. followUp' = Append(followUp, k)
    BY DEF k
  <2> QED
    BY <1>1, <1>2, <2>1, <2>2
<1>4. OnceOK'
  <2> SUFFICES ASSUME NEW m \in Ids'
               PROVE  Count(steering, m) + Count(followUp', m) + Count(pending, m)
                         + Cardinality(At(m)) + Gone(m) = 1
    BY DEF OnceOK, Gone, Count, At
  <2>1. Count(followUp', m) = Count(followUp, m) + (IF k = m THEN 1 ELSE 0)
    <3> HIDE DEF k
    <3>1. followUp \in Seq(Ids') /\ followUp' = Append(followUp, k)
      BY <1>1, <1>2 DEF k
    <3> QED
      BY <1>1, <3>1, CountAppend
  <2>2. CASE m \in Ids
    <3>1. Count(followUp, m) \in Nat
      BY <1>2, CountIsNatural
    <3>2. Count(followUp', m) = Count(followUp, m)
      BY <1>1, <2>1, <2>2, <3>1
    <3> QED
      BY <2>2, <3>2 DEF OnceOK
  <2>3. CASE m = k
    BY <2>1, <2>3, NextIsNowhere
  <2> QED
    BY <1>1, <2>2, <2>3
<1>5. Rising(followUp')
  <2> HIDE DEF k, n
  <2> SUFFICES ASSUME NEW i \in 1..(n + 1), NEW j \in 1..(n + 1), i < j
               PROVE  followUp'[i] < followUp'[j]
    BY <1>3 DEF Rising
  <2>1. i \in 1..n /\ followUp'[i] = followUp[i] /\ followUp[i] \in Ids
    BY <1>2, <1>3
  <2>2. CASE j \in 1..n
    BY <1>3, <2>1, <2>2 DEF n, Rising, OrderOK
  <2>3. CASE j = n + 1
    BY <1>1, <1>3, <2>1, <2>3
  <2> QED
    BY <1>3, <2>2, <2>3
<1>6. \A i \in 1..(n + 1) : sent'[followUp'[i]] = "followUp"
  <2> HIDE DEF k
  <2> TAKE i \in 1..(n + 1)
  <2>1. CASE i \in 1..n
    <3>1. followUp'[i] = followUp[i] /\ followUp[i] \in Ids
      BY <1>2, <1>3, <2>1
    <3>2. sent[followUp[i]] = "followUp"
      BY <2>1 DEF OrderOK
    <3> QED
      BY <1>1, <3>1, <3>2
  <2>2. CASE i = n + 1
    BY <1>1, <1>3, <2>2
  <2> QED
    BY <1>3, <2>1, <2>2
<1>7. \A i \in 1..Len(steering) : sent'[steering[i]] = "steer"
  BY <1>1, <1>2 DEF OrderOK
<1>8. \A x \in Ids : Before(x, followUp) => Before(x, followUp)' /\ x < k
  <2> HIDE DEF k, n
  <2> SUFFICES ASSUME NEW x \in Ids, Before(x, followUp), NEW i \in 1..(n + 1),
                      sent'[x] = sent'[followUp'[i]]
               PROVE  x < followUp'[i]
    BY <1>1, <1>3 DEF Before
  <2>1. CASE i \in 1..n
    <3>1. followUp'[i] = followUp[i] /\ followUp[i] \in Ids
      BY <1>2, <1>3, <2>1
    <3>2. sent[x] = sent[followUp[i]]
      BY <1>1, <3>1
    <3> QED
      BY <2>1, <3>1, <3>2 DEF n, Before
  <2>2. CASE i = n + 1
    BY <1>1, <1>3, <2>2
  <2> QED
    BY <1>3, <2>1, <2>2
<1>9. \A x \in Ids : /\ Before(x, steering) => Before(x, steering)'
                     /\ Before(x, pending) => Before(x, pending)'
  BY <1>1, <1>2 DEF Before
<1>10. OrderOK'
  <2>1. \A i \in 1..Len(pending) : Before(pending[i], followUp)' /\ Before(pending[i], steering)'
    BY <1>2, <1>8, <1>9 DEF OrderOK, Before
  <2>2. \A i \in 1..Len(messages) : messages[i].role = "user" =>
          /\ messages[i].id \in Ids /\ messages[i].id \in Ids'
          /\ Before(messages[i].id, pending)'
          /\ Before(messages[i].id, followUp)' /\ Before(messages[i].id, steering)'
    BY <1>1, <1>8, <1>9 DEF OrderOK, Before
  <2>3. \A i, l \in 1..Len(messages) :
          /\ i < l /\ messages[i].role = "user" /\ messages[l].role = "user"
          /\ sent'[messages[i].id] = sent'[messages[l].id]
          => messages[i].id < messages[l].id
    BY <1>1, <2>2 DEF OrderOK
  <2> QED
    BY ZenonT(60), <1>3, <1>5, <1>6, <1>7, <2>1, <2>2, <2>3 DEF OrderOK, Before, Rising
<1> QED
  BY <1>3, <1>4, <1>10

LEMMA PromptSent ==
    ASSUME TypeOK, OnceOK, OrderOK, pending = <<>>, sent' = Append(sent, "prompt"),
           pending' = <<NextMessage>>,
           UNCHANGED <<steering, followUp, messages, gone>>
    PROVE  /\ OnceOK' /\ OrderOK' /\ pending' \in Seq(Ids')
<1> PICK k : k = NextMessage
  OBVIOUS
<1>1. /\ Len(sent) \in Nat /\ k \in Ids' /\ Ids \subseteq Ids' /\ k \notin Ids /\ k \in Nat
      /\ \A m \in Ids' : m \in Ids \/ m = k
      /\ sent'[k] = "prompt" /\ \A m \in Ids : sent'[m] = sent[m] /\ m < k
      /\ \A s \in Seq(Ids) : s \in Seq(Ids')
  BY OneMoreSent DEF NextMessage
<1>2. /\ steering \in Seq(Ids) /\ followUp \in Seq(Ids)
      /\ \A i \in 1..Len(steering) : steering[i] \in Ids
      /\ \A i \in 1..Len(followUp) : followUp[i] \in Ids
  BY LenProperties, ElementOfSeq DEF TypeOK
<1>3. pending' \in Seq(Ids') /\ Len(pending') = 1 /\ pending'[1] = k
  BY <1>1
<1>4. OnceOK'
  <2> SUFFICES ASSUME NEW m \in Ids'
               PROVE  Count(steering, m) + Count(followUp, m) + Count(pending', m)
                         + Cardinality(At(m)) + Gone(m) = 1
    BY DEF OnceOK, Gone, Count, At
  <2>1. Count(pending', m) = (IF k = m THEN 1 ELSE 0) /\ Count(pending, m) = 0
    BY CountOne, CountEmpty
  <2>2. CASE m \in Ids
    BY <1>1, <2>1, <2>2 DEF OnceOK
  <2>3. CASE m = k
    BY <2>1, <2>3, NextIsNowhere
  <2> QED
    BY <1>1, <2>2, <2>3
<1>5. Rising(pending') /\ \A i \in 1..Len(pending') : i = 1
  BY <1>3 DEF Rising
<1>6. /\ \A i \in 1..Len(steering) : sent'[steering[i]] = "steer"
      /\ \A i \in 1..Len(followUp) : sent'[followUp[i]] = "followUp"
  BY <1>1, <1>2 DEF OrderOK
<1>7. Before(k, steering)' /\ Before(k, followUp)'
  BY <1>1, <1>6 DEF Before
<1>8. \A x \in Ids : /\ Before(x, steering) => Before(x, steering)'
                     /\ Before(x, followUp) => Before(x, followUp)'
                     /\ Before(x, pending)'
  <2>1. \A x \in Ids : Before(x, pending)'
    BY <1>1, <1>3, <1>5 DEF Before
  <2> QED
    BY ZenonT(60), <1>1, <1>2, <2>1 DEF Before
<1>9. OrderOK'
  <2>1. \A i \in 1..Len(pending') : Before(pending[i], steering)' /\ Before(pending[i], followUp)'
    <3> TAKE i \in 1..Len(pending')
    <3>1. pending'[i] = k
      BY <1>3, <1>5
    <3> QED
      BY <1>7, <3>1 DEF Before
  <2>2. \A i \in 1..Len(messages) : messages[i].role = "user" =>
          /\ messages[i].id \in Ids /\ messages[i].id \in Ids'
          /\ Before(messages[i].id, pending)'
          /\ Before(messages[i].id, steering)' /\ Before(messages[i].id, followUp)'
    BY <1>1, <1>8 DEF OrderOK, Before
  <2>3. \A i, l \in 1..Len(messages) :
          /\ i < l /\ messages[i].role = "user" /\ messages[l].role = "user"
          /\ sent'[messages[i].id] = sent'[messages[l].id]
          => messages[i].id < messages[l].id
    BY <1>1, <2>2 DEF OrderOK
  <2>4. Rising(steering)' /\ Rising(followUp)' /\ Rising(pending)'
    BY <1>5 DEF OrderOK, Rising
  <2>5. /\ \A i \in 1..Len(steering') : sent'[steering'[i]] = "steer"
        /\ \A i \in 1..Len(followUp') : sent'[followUp'[i]] = "followUp"
    BY <1>6
  <2> QED
    BY <2>1, <2>2, <2>3, <2>4, <2>5 DEF OrderOK
<1> QED
  BY <1>3, <1>4, <1>9

(* What is put out of the way is there no longer, and is not counted twice. *)
LEMMA QueuesCleared ==
    ASSUME TypeOK, OnceOK, OrderOK, steering' = <<>>, followUp' = <<>>,
           gone' = gone \cup ToSet(steering) \cup ToSet(followUp),
           UNCHANGED <<sent, pending, messages>>
    PROVE  /\ OnceOK' /\ OrderOK' /\ gone' \in SUBSET Ids
<1>1. /\ steering \in Seq(Ids) /\ followUp \in Seq(Ids) /\ pending \in Seq(Ids)
      /\ messages \in Seq(Message) /\ gone \in SUBSET Ids
  BY DEF TypeOK
<1>2. ToSet(steering) \subseteq Ids /\ ToSet(followUp) \subseteq Ids
  BY <1>1, LenProperties DEF ToSet
<1>3. OnceOK'
  <2> SUFFICES ASSUME NEW m \in Ids
               PROVE  Count(<<>>, m) + Count(<<>>, m) + Count(pending, m)
                         + Cardinality(At(m)) + Gone(m)' = 1
    BY DEF OnceOK, Count, At, Ids
  <2>1. /\ Count(steering, m) \in Nat /\ Count(followUp, m) \in Nat /\ Count(pending, m) \in Nat
        /\ Cardinality(At(m)) \in Nat
    BY <1>1, CountIsNatural, SaidFinite
  <2>2. /\ Count(steering, m) = 0 <=> m \notin ToSet(steering)
        /\ Count(followUp, m) = 0 <=> m \notin ToSet(followUp)
    BY <1>1, CountIsNatural, LenProperties DEF ToSet
  <2>3. Count(steering, m) + Count(followUp, m) + Count(pending, m) + Cardinality(At(m)) + Gone(m) = 1
    BY DEF OnceOK
  <2>4. Gone(m)' = IF m \in gone \/ m \in ToSet(steering) \/ m \in ToSet(followUp) THEN 1 ELSE 0
    BY DEF Gone
  <2> QED
    BY <2>1, <2>2, <2>3, <2>4, CountEmpty DEF Gone
<1>4. OrderOK'
  BY DEF OrderOK, Before, Rising, Ids
<1> QED
  BY <1>1, <1>2, <1>3, <1>4

LEMMA PendingLost ==
    ASSUME TypeOK, OnceOK, OrderOK, pending' = <<>>, gone' = gone \cup ToSet(pending),
           UNCHANGED <<sent, steering, followUp, messages>>
    PROVE  /\ OnceOK' /\ OrderOK' /\ gone' \in SUBSET Ids
<1>1. /\ steering \in Seq(Ids) /\ followUp \in Seq(Ids) /\ pending \in Seq(Ids)
      /\ messages \in Seq(Message) /\ gone \in SUBSET Ids
  BY DEF TypeOK
<1>2. ToSet(pending) \subseteq Ids
  BY <1>1, LenProperties DEF ToSet
<1>3. OnceOK'
  <2> SUFFICES ASSUME NEW m \in Ids
               PROVE  Count(steering, m) + Count(followUp, m) + Count(<<>>, m)
                         + Cardinality(At(m)) + Gone(m)' = 1
    BY DEF OnceOK, Count, At, Ids
  <2>1. /\ Count(steering, m) \in Nat /\ Count(followUp, m) \in Nat /\ Count(pending, m) \in Nat
        /\ Cardinality(At(m)) \in Nat
    BY <1>1, CountIsNatural, SaidFinite
  <2>2. Count(pending, m) = 0 <=> m \notin ToSet(pending)
    BY <1>1, CountIsNatural, LenProperties DEF ToSet
  <2>3. Count(steering, m) + Count(followUp, m) + Count(pending, m) + Cardinality(At(m)) + Gone(m) = 1
    BY DEF OnceOK
  <2>4. Gone(m)' = IF m \in gone \/ m \in ToSet(pending) THEN 1 ELSE 0
    BY DEF Gone
  <2> QED
    BY <2>1, <2>2, <2>3, <2>4, CountEmpty DEF Gone
<1>4. OrderOK'
  BY DEF OrderOK, Before, Rising, Ids
<1> QED
  BY <1>1, <1>2, <1>3, <1>4

LEMMA AllForgotten ==
    ASSUME TypeOK, OnceOK, OrderOK, messages' = <<>>, steering' = <<>>, followUp' = <<>>,
           gone' = gone \cup ToSet(steering) \cup ToSet(followUp) \cup UsersIn(messages),
           UNCHANGED <<sent, pending>>
    PROVE  /\ OnceOK' /\ OrderOK' /\ gone' \in SUBSET Ids
<1>1. /\ steering \in Seq(Ids) /\ followUp \in Seq(Ids) /\ pending \in Seq(Ids)
      /\ messages \in Seq(Message) /\ gone \in SUBSET Ids
  BY DEF TypeOK
<1>2. ToSet(steering) \subseteq Ids /\ ToSet(followUp) \subseteq Ids
  BY <1>1, LenProperties DEF ToSet
<1>3. UsersIn(messages) \subseteq Ids /\ \A m \in Ids : m \in UsersIn(messages) <=> At(m) # {}
  <2>1. DOMAIN messages = 1..Len(messages)
    BY <1>1, LenProperties
  <2> QED
    BY <2>1 DEF UsersIn, At, OrderOK
<1>4. OnceOK'
  <2> SUFFICES ASSUME NEW m \in Ids
               PROVE  Count(<<>>, m) + Count(<<>>, m) + Count(pending, m)
                         + Cardinality(At(m)') + Gone(m)' = 1
    BY DEF OnceOK, Count, Ids
  <2>1. /\ Count(steering, m) \in Nat /\ Count(followUp, m) \in Nat /\ Count(pending, m) \in Nat
        /\ Cardinality(At(m)) \in Nat /\ IsFiniteSet(At(m))
    BY <1>1, CountIsNatural, SaidFinite
  <2>2. /\ Count(steering, m) = 0 <=> m \notin ToSet(steering)
        /\ Count(followUp, m) = 0 <=> m \notin ToSet(followUp)
    BY <1>1, CountIsNatural, LenProperties DEF ToSet
  <2>3. Cardinality(At(m)) = 0 <=> m \notin UsersIn(messages)
    BY <1>3, <2>1, FS_EmptySet
  <2>4. Cardinality(At(m)') = 0
    <3>1. At(m)' = {}
      BY DEF At
    <3> QED
      BY <3>1, FS_EmptySet
  <2>5. Count(steering, m) + Count(followUp, m) + Count(pending, m) + Cardinality(At(m)) + Gone(m) = 1
    BY DEF OnceOK
  <2>6. Gone(m)' = IF m \in gone \/ m \in ToSet(steering) \/ m \in ToSet(followUp)
                         \/ m \in UsersIn(messages) THEN 1 ELSE 0
    BY DEF Gone
  <2> QED
    BY <2>1, <2>2, <2>3, <2>4, <2>5, <2>6, CountEmpty DEF Gone
<1>5. OrderOK'
  BY DEF OrderOK, Before, Rising, Ids
<1> QED
  BY <1>1, <1>2, <1>3, <1>4, <1>5

-----------------------------------------------------------------------------
(* The transcript and the copy of it. *)

LEMMA MessageTypes ==
    /\ \A m \in Nat : User(m) \in Message /\ User(m).role = "user" /\ User(m).id = m
    /\ \A n \in Nat, c \in Nat, b \in BOOLEAN :
          /\ Reply(n, c, b) \in Message /\ Reply(n, c, b).role = "assistant"
          /\ Reply(n, c, b).broken = b
    /\ \A n \in Nat, i \in Nat : Result(n, i) \in Message /\ Result(n, i).role = "toolResult"
BY DEF User, Reply, Result, Message

LEMMA ResultsType ==
    ASSUME NEW n \in Nat, NEW k \in Nat
    PROVE  /\ Results(n, k) \in Seq(Message) /\ Len(Results(n, k)) = k
           /\ \A i \in 1..k : Results(n, k)[i] = Result(n, i)
<1>1. \A i \in 1..k : Result(n, i) \in Message
  BY MessageTypes
<1> QED
  BY <1>1 DEF Results

LEMMA NoResults ==
    ASSUME NEW c \in Seq(Message), NEW n
    PROVE  c \o Results(n, 0) = c
<1>1. Results(n, 0) = <<>>
  BY DEF Results
<1> QED
  BY <1>1, ConcatEmptySeq

LEMMA AppendToConcat ==
    ASSUME NEW c \in Seq(Message), NEW r \in Seq(Message), NEW x \in Message
    PROVE  Append(c \o r, x) = c \o Append(r, x)
<1>1. c \o r \in Seq(Message) /\ <<x>> \in Seq(Message)
  BY ConcatProperties
<1>2. Append(c \o r, x) = (c \o r) \o <<x>> /\ Append(r, x) = r \o <<x>>
  BY <1>1, AppendIsConcat
<1> QED
  BY <1>1, <1>2, ConcatAssociative

(* One more result is shown. *)
LEMMA OneMoreResult ==
    ASSUME NEW c \in Seq(Message), NEW n \in Nat, NEW k \in Nat
    PROVE  Append(c \o Results(n, k), Result(n, k + 1)) = c \o Results(n, k + 1)
<1>1. PICK r \in Seq(Message) : r = Results(n, k) /\ Len(r) = k /\ \A i \in 1..k : r[i] = Result(n, i)
  BY ResultsType
<1>2. PICK d \in Seq(Message) :
        d = Results(n, k + 1) /\ Len(d) = k + 1 /\ \A i \in 1..(k + 1) : d[i] = Result(n, i)
  BY ResultsType
<1>3. PICK x \in Message : x = Result(n, k + 1)
  BY MessageTypes
<1>4. Append(r, x) = d
  <2>1. /\ Append(r, x) \in Seq(Message) /\ Len(Append(r, x)) = k + 1
        /\ Append(r, x)[k + 1] = x /\ \A i \in 1..k : Append(r, x)[i] = r[i]
    BY <1>1
  <2>2. \A i \in 1..(k + 1) : Append(r, x)[i] = d[i]
    BY <1>1, <1>2, <1>3, <2>1
  <2> QED
    BY <1>2, <2>1, <2>2, SeqEqual
<1>5. Append(c \o r, x) = c \o d
  <2>1. r \in Seq(Message) /\ x \in Message
    BY <1>1, <1>3
  <2>2. Append(c \o r, x) = c \o Append(r, x)
    BY <2>1, AppendToConcat
  <2> QED
    BY <1>4, <2>2, Zenon
<1> QED
  BY <1>1, <1>2, <1>3, <1>5

(* A prompt that reaches the transcript is in the copy already. *)
LEMMA UsersMove ==
    ASSUME NEW s \in Seq(Message), NEW p \in Seq(Nat), p # <<>>
    PROVE  s \o Users(p) = Append(s, User(Head(p))) \o Users(Tail(p))
<1>1. /\ Head(p) \in Nat /\ Head(p) = p[1] /\ Tail(p) \in Seq(Nat) /\ Len(Tail(p)) = Len(p) - 1
      /\ \A i \in 1..Len(Tail(p)) : Tail(p)[i] = p[i + 1]
      /\ Len(p) \in Nat \ {0} /\ DOMAIN p = 1..Len(p) /\ DOMAIN Tail(p) = 1..Len(Tail(p))
      /\ \A i \in 1..Len(p) : p[i] \in Nat
  BY HeadTailProperties, EmptySeq, LenProperties
<1>2. PICK n \in Nat : n = Len(p) - 1
  <2>1. Len(p) - 1 \in Nat
    BY <1>1
  <2> QED
    BY <2>1
<1>3. PICK u \in Seq(Message) :
        u = Users(p) /\ Len(u) = n + 1 /\ \A i \in 1..(n + 1) : u[i] = User(p[i])
  <2> DEFINE u == [i \in 1..(n + 1) |-> User(p[i])]
  <2>1. \A i \in 1..(n + 1) : User(p[i]) \in Message
    BY <1>1, <1>2, MessageTypes
  <2>2. u = Users(p) /\ n + 1 \in Nat
    BY <1>1, <1>2 DEF Users
  <2>3. u \in Seq(Message) /\ Len(u) = n + 1 /\ \A i \in 1..(n + 1) : u[i] = User(p[i])
    BY <2>1, <2>2
  <2> QED
    BY <2>2, <2>3
<1>4. PICK t \in Seq(Message) :
        t = Users(Tail(p)) /\ Len(t) = n /\ \A i \in 1..n : t[i] = User(p[i + 1])
  <2> DEFINE t == [i \in 1..n |-> User(p[i + 1])]
  <2>1. \A i \in 1..n : i + 1 \in 1..Len(p) /\ User(p[i + 1]) \in Message
    BY <1>1, <1>2, MessageTypes
  <2>2. t = Users(Tail(p))
    BY <1>1, <1>2 DEF Users
  <2>3. t \in Seq(Message) /\ Len(t) = n /\ \A i \in 1..n : t[i] = User(p[i + 1])
    BY <2>1
  <2> QED
    BY <2>2, <2>3
<1>5. PICK h \in Message : h = User(Head(p)) /\ h = User(p[1])
  BY <1>1, MessageTypes
<1>6. u = <<h>> \o t
  <2>1. /\ <<h>> \in Seq(Message) /\ Len(<<h>>) = 1 /\ <<h>>[1] = h
    OBVIOUS
  <2>2. PICK a \in Seq(Message) :
          /\ a = <<h>> \o t /\ Len(a) = n + 1
          /\ \A i \in 1..(n + 1) : a[i] = IF i <= 1 THEN h ELSE t[i - 1]
    <3> PICK b \in Seq(Message) : b = <<h>> /\ Len(b) = 1 /\ b[1] = h
      BY <2>1
    <3>1. /\ b \o t \in Seq(Message) /\ Len(b \o t) = 1 + n
          /\ \A i \in 1..(1 + n) : (b \o t)[i] = IF i <= 1 THEN b[i] ELSE t[i - 1]
      BY SMTT(60), <1>4, ConcatProperties
    <3>2. \A i \in 1..(n + 1) : i <= 1 => i = 1
      OBVIOUS
    <3>3. 1 + n = n + 1
      OBVIOUS
    <3> QED
      BY <3>1, <3>2, <3>3
  <2>3. ASSUME NEW i \in 1..(n + 1) PROVE u[i] = a[i]
    <3>1. CASE i = 1
      BY <1>3, <1>5, <2>2, <3>1
    <3>2. CASE i - 1 \in 1..n /\ i # 1
      <4>1. t[i - 1] = User(p[i - 1 + 1]) /\ i - 1 + 1 = i /\ ~(i <= 1)
        BY <1>4, <3>2
      <4> QED
        BY <1>3, <2>2, <4>1
    <3> QED
      BY <3>1, <3>2
  <2> QED
    BY <1>3, <2>2, <2>3, SeqEqual
<1>7. s \o (<<h>> \o t) = (s \o <<h>>) \o t
  <2>1. <<h>> \in Seq(Message)
    OBVIOUS
  <2> QED
    BY SMTT(60), <2>1, ConcatAssociative
<1>8. Append(s, h) = s \o <<h>>
  BY AppendIsConcat
<1> QED
  BY <1>3, <1>4, <1>5, <1>6, <1>7, <1>8

LEMMA NoUsers ==
    ASSUME NEW s \in Seq(Message)
    PROVE  s \o Users(<<>>) = s
<1>1. Users(<<>>) = <<>>
  BY DEF Users
<1> QED
  BY <1>1, ConcatEmptySeq

-----------------------------------------------------------------------------
(* A batch of tool calls. *)

LEMMA NoBatchType ==
    /\ NoBatch \in BatchType /\ NoBatch.calls = 0 /\ NoBatch.how = "none" /\ NoBatch.next = 1
    /\ NoBatch.shown = 0 /\ Len(NoBatch.out) = 0
<1>1. <<>> \in Seq(Outcomes) /\ Len(<<>>) = 0
  BY EmptySeq
<1>2. NoBatch.out = <<>>
  BY DEF NoBatch
<1> QED
  BY <1>1, <1>2 DEF NoBatch, BatchType

(* One call of a batch comes further, and the batch with it. *)
Moved(b, i, o, k) == [b EXCEPT !.out[i] = o, !.next = k]
LEMMA CallMoves ==
    ASSUME NEW b \in BatchType, Len(b.out) = b.calls, NEW i \in 1..b.calls,
           NEW o \in Outcomes, NEW k \in Nat \ {0}
    PROVE  LET c == Moved(b, i, o, k)
           IN  /\ c \in BatchType /\ c.calls = b.calls /\ c.how = b.how /\ c.next = k
               /\ c.shown = b.shown /\ Len(c.out) = b.calls /\ c.out[i] = o
               /\ \A j \in 1..b.calls : j # i => c.out[j] = b.out[j]
<1> DEFINE out == [b.out EXCEPT ![i] = o]
<1>1. b.out \in Seq(Outcomes) /\ b.calls \in Nat
  BY DEF BatchType
<1>2. /\ out \in Seq(Outcomes) /\ Len(out) = b.calls /\ out[i] = o
      /\ \A j \in 1..b.calls : j # i => out[j] = b.out[j]
  BY <1>1, ExceptSeq
<1>3. Moved(b, i, o, k) = [b EXCEPT !.out = out, !.next = k]
  BY DEF BatchType, Moved
<1> HIDE DEF out
<1>4. [b EXCEPT !.out = out, !.next = k] \in BatchType
  BY <1>2 DEF BatchType
<1>5. LET c == [b EXCEPT !.out = out, !.next = k]
      IN  c.calls = b.calls /\ c.how = b.how /\ c.next = k /\ c.shown = b.shown /\ c.out = out
  BY DEF BatchType
<1> QED
  BY <1>2, <1>3, <1>4, <1>5

(* One call comes further. *)
Ended(b, i, o) == [b EXCEPT !.out[i] = o]
LEMMA CallEnds ==
    ASSUME NEW b \in BatchType, Len(b.out) = b.calls, NEW i \in 1..b.calls, NEW o \in Outcomes
    PROVE  LET c == Ended(b, i, o)
           IN  /\ c \in BatchType /\ c.calls = b.calls /\ c.how = b.how /\ c.next = b.next
               /\ c.shown = b.shown /\ Len(c.out) = b.calls /\ c.out[i] = o
               /\ \A j \in 1..b.calls : j # i => c.out[j] = b.out[j]
<1> DEFINE out == [b.out EXCEPT ![i] = o]
<1>1. b.out \in Seq(Outcomes) /\ b.calls \in Nat
  BY DEF BatchType
<1>2. /\ out \in Seq(Outcomes) /\ Len(out) = b.calls /\ out[i] = o
      /\ \A j \in 1..b.calls : j # i => out[j] = b.out[j]
  BY <1>1, ExceptSeq
<1>3. Ended(b, i, o) = [b EXCEPT !.out = out]
  BY DEF BatchType, Ended
<1> HIDE DEF out
<1>4. [b EXCEPT !.out = out] \in BatchType
  BY <1>2 DEF BatchType
<1>5. LET c == [b EXCEPT !.out = out]
      IN  c.calls = b.calls /\ c.how = b.how /\ c.next = b.next /\ c.shown = b.shown /\ c.out = out
  BY DEF BatchType
<1> QED
  BY <1>2, <1>3, <1>4, <1>5

(* The calls that are ready run. *)
LEMMA CallsStart ==
    ASSUME NEW b \in BatchType, Len(b.out) = b.calls
    PROVE  LET c == Started(b)
           IN  /\ c \in BatchType /\ c.calls = b.calls /\ c.how = b.how /\ c.next = b.next
               /\ c.shown = b.shown /\ Len(c.out) = b.calls
               /\ \A j \in 1..b.calls : c.out[j] = IF b.out[j] = "ready" THEN "running" ELSE b.out[j]
<1> DEFINE out == [j \in 1..b.calls |-> IF b.out[j] = "ready" THEN "running" ELSE b.out[j]]
<1>1. b.out \in Seq(Outcomes) /\ b.calls \in Nat /\ \A j \in 1..b.calls : b.out[j] \in Outcomes
  BY ElementOfSeq DEF BatchType
<1>2. \A j \in 1..b.calls : (IF b.out[j] = "ready" THEN "running" ELSE b.out[j]) \in Outcomes
  BY <1>1 DEF Outcomes
<1>3. out \in Seq(Outcomes) /\ Len(out) = b.calls
  BY <1>1, <1>2
<1>4. Started(b) = [b EXCEPT !.out = out]
  BY DEF Started, BatchType
<1>5. \A j \in 1..b.calls : out[j] = IF b.out[j] = "ready" THEN "running" ELSE b.out[j]
  OBVIOUS
<1> HIDE DEF out
<1>6. [b EXCEPT !.out = out] \in BatchType
  BY <1>3 DEF BatchType
<1>7. LET c == [b EXCEPT !.out = out]
      IN  c.calls = b.calls /\ c.how = b.how /\ c.next = b.next /\ c.shown = b.shown /\ c.out = out
  BY DEF BatchType
<1> QED
  BY <1>3, <1>4, <1>5, <1>6, <1>7

(* What a step of the batch leaves alone. *)
LEMMA BatchStep ==
    ASSUME IInv, pc \in Working, pc' \in Working, Unaltered,
           batch' \in BatchType, Len(batch'.out) = batch'.calls,
           messages' = messages \/ \E i \in Nat : messages' = Append(messages, Result(replies, i))
    PROVE  TypeOK' /\ ControlOK' /\ OnceOK' /\ OrderOK' /\ WaitOK'
<1>1. TypeOK /\ ControlOK /\ OnceOK /\ OrderOK /\ WaitOK /\ replies \in Nat
  BY DEF IInv, TypeOK
<1>2. OnceOK' /\ OrderOK' /\ messages' \in Seq(Message)
  <2>1. UNCHANGED <<sent, steering, followUp, pending, gone>>
    BY DEF Unaltered, queues
  <2>2. CASE messages' = messages
    <3>1. UNCHANGED Places
      BY <2>1, <2>2 DEF Places
    <3> QED
      BY <1>1, <2>2, <3>1, PlacesStay DEF TypeOK
  <2>3. CASE \E i \in Nat : messages' = Append(messages, Result(replies, i))
    <3>1. PICK i \in Nat : messages' = Append(messages, Result(replies, i))
      BY <2>3
    <3>2. PICK x \in Message : x = Result(replies, i) /\ x.role = "toolResult"
      BY <1>1, <3>1, MessageTypes
    <3>3. messages' = Append(messages, x) /\ x \in Message /\ x.role # "user"
      BY <3>1, <3>2
    <3> QED
      BY <1>1, <2>1, <3>3, OtherMessage
  <2> QED
    BY <2>2, <2>3
<1>3. TypeOK'
  BY <1>1, <1>2 DEF TypeOK, Unaltered, Ids, queues, Working
<1>4. ControlOK'
  BY <1>1 DEF ControlOK, Unaltered, Working
<1>5. WaitOK'
  BY <1>1 DEF WaitOK, Unaltered, Working
<1> QED
  BY <1>2, <1>3, <1>4, <1>5

LEMMA BatchFacts ==
    ASSUME IInv
    PROVE  /\ TypeOK /\ ControlOK /\ BatchOK /\ ContextOK /\ OnceOK /\ OrderOK /\ WaitOK
           /\ batch \in BatchType /\ Len(batch.out) = batch.calls
           /\ batch.calls \in Nat /\ batch.next \in Nat \ {0} /\ batch.shown \in Nat
           /\ batch.how \in {"none", "truncated", "sequential", "parallel"}
           /\ replies \in Nat /\ context \in Seq(Message) /\ messages \in Seq(Message)
           /\ run \in {None} \cup [aborted : BOOLEAN, skip : BOOLEAN, doomed : BOOLEAN]
           /\ pc # "idle" => run \in [aborted : BOOLEAN, skip : BOOLEAN, doomed : BOOLEAN]
BY DEF IInv, TypeOK, BatchType, ControlOK

LEMMA BatchFollows ==
    ASSUME IInv, pc \in Working, pc' \in Working, Unaltered,
           batch' \in BatchType, Len(batch'.out) = batch'.calls, BatchOK', Shown \in Nat,
           \/ messages' = messages /\ Shown' = Shown
           \/ messages' = Append(messages, Result(replies, Shown + 1)) /\ Shown' = Shown + 1
    PROVE  IInv'
<1>1. messages' = messages \/ \E i \in Nat : messages' = Append(messages, Result(replies, i))
  <2>1. Shown + 1 \in Nat
    OBVIOUS
  <2> QED
    BY <2>1
<1>2. TypeOK' /\ ControlOK' /\ OnceOK' /\ OrderOK' /\ WaitOK'
  BY <1>1, BatchStep
<1>3. messages' = context \o Results(replies, Shown')
  <2>1. messages = context \o Results(replies, Shown) /\ context \in Seq(Message) /\ replies \in Nat
    BY BatchFacts DEF ContextOK
  <2>2. Append(context \o Results(replies, Shown), Result(replies, Shown + 1))
           = context \o Results(replies, Shown + 1)
    BY <2>1, OneMoreResult
  <2> QED
    BY <2>1, <2>2
<1>4. ContextOK'
  BY <1>3 DEF ContextOK, Unaltered, Working, Results
<1> QED
  BY <1>2, <1>4 DEF IInv

LEMMA ShownIsNatural ==
    ASSUME IInv, pc \in Working
    PROVE  Shown \in Nat
BY BatchFacts DEF Shown, BatchOK, Working

LEMMA RefuseTruncatedKeeps ==
    ASSUME IInv, RefuseTruncated
    PROVE  IInv'
<1>1. /\ batch \in BatchType /\ Len(batch.out) = batch.calls /\ batch.calls \in Nat
      /\ batch.next \in Nat \ {0} /\ batch.next \in 1..batch.calls /\ batch.shown = 0
  BY BatchFacts DEF BatchOK, RefuseTruncated
<1>2. /\ batch' \in BatchType /\ batch'.calls = batch.calls /\ batch'.how = "truncated"
      /\ batch'.next = batch.next + 1 /\ batch'.shown = 0 /\ Len(batch'.out) = batch'.calls
  <2>1. batch' = [batch EXCEPT !.out[batch.next] = "done", !.next = batch.next + 1]
    BY DEF RefuseTruncated
  <2>2. PICK i \in 1..batch.calls, k \in Nat \ {0} : i = batch.next /\ k = batch.next + 1
    BY <1>1
  <2>3. PICK o \in Outcomes : o = "done"
    BY DEF Outcomes
  <2>4. batch' = Moved(batch, i, o, k)
    BY <2>1, <2>2, <2>3 DEF Moved
  <2>5. batch.how = "truncated"
    BY DEF RefuseTruncated
  <2> QED
    BY <1>1, <2>2, <2>3, <2>4, <2>5, CallMoves
<1>3. /\ pc = "prepare" /\ pc' = IF Over(batch') THEN "turn_end" ELSE "prepare"
      /\ messages' = Append(messages, Result(replies, batch.next)) /\ Unaltered
      /\ batch.how = "truncated"
  BY DEF RefuseTruncated
<1>4. Shown = batch.next - 1 /\ Shown' = batch.next
  BY <1>1, <1>2, <1>3 DEF Shown
<1>5. BatchOK'
  BY <1>1, <1>2, <1>3 DEF BatchOK, Over
<1>6. Shown \in Nat /\ Shown + 1 = batch.next
  BY <1>1, <1>4
<1>7. pc \in Working /\ pc' \in Working
  BY <1>3 DEF Working
<1> QED
  BY <1>2, <1>3, <1>4, <1>5, <1>6, <1>7, BatchFollows

LEMMA PrepareFailsKeeps ==
    ASSUME IInv, PrepareFails
    PROVE  IInv'
<1>1. /\ batch \in BatchType /\ Len(batch.out) = batch.calls /\ batch.calls \in Nat
      /\ batch.next \in Nat \ {0} /\ batch.next \in 1..batch.calls /\ batch.shown = 0
      /\ batch.how \in {"sequential", "parallel"}
  BY BatchFacts DEF BatchOK, PrepareFails
<1>2. PICK o \in {"done", "stop"} : batch' = [batch EXCEPT !.out[batch.next] = o, !.next = @ + 1]
  BY DEF PrepareFails
<1>3. /\ batch' \in BatchType /\ batch'.calls = batch.calls /\ batch'.how = batch.how
      /\ batch'.next = batch.next + 1 /\ batch'.shown = 0 /\ Len(batch'.out) = batch'.calls
      /\ batch'.out[batch.next] = o
      /\ \A j \in 1..batch.calls : j # batch.next => batch'.out[j] = batch.out[j]
  <2>1. batch' = [batch EXCEPT !.out[batch.next] = o, !.next = batch.next + 1]
    BY <1>2
  <2>2. PICK i \in 1..batch.calls, k \in Nat \ {0} : i = batch.next /\ k = batch.next + 1
    BY <1>1
  <2>3. o \in Outcomes
    BY DEF Outcomes
  <2>4. batch' = Moved(batch, i, o, k)
    BY <2>1, <2>2 DEF Moved
  <2> QED
    BY SMTT(60), <1>1, <2>2, <2>3, <2>4, CallMoves
<1>4. /\ pc = "prepare" /\ pc' = "check" /\ Unaltered
      /\ messages' = IF batch.how = "sequential"
                     THEN Append(messages, Result(replies, batch.next)) ELSE messages
  BY DEF PrepareFails
<1>5. /\ Shown = IF batch.how = "parallel" THEN 0 ELSE batch.next - 1
      /\ Shown' = IF batch.how = "parallel" THEN 0 ELSE batch.next
  BY <1>1, <1>3, <1>4 DEF Shown
<1>6. BatchOK'
  <2>1. batch.how = "sequential" =>
          \A i \in 1..batch.calls : batch.out[i] # "ready" /\ batch.out[i] # "running"
    BY <1>4, BatchFacts DEF BatchOK
  <2>2. batch.how = "sequential" =>
          \A i \in 1..batch.calls : batch'.out[i] # "ready" /\ batch'.out[i] # "running"
    BY <1>3, <2>1
  <2> QED
    BY <1>1, <1>3, <1>4, <2>2 DEF BatchOK
<1>7. Shown \in Nat /\ (batch.how = "sequential" => Shown + 1 = batch.next)
  BY <1>1, <1>5
<1>8. pc \in Working /\ pc' \in Working
  BY <1>4 DEF Working
<1>9. \/ messages' = messages /\ Shown' = Shown
      \/ messages' = Append(messages, Result(replies, Shown + 1)) /\ Shown' = Shown + 1
  BY <1>1, <1>4, <1>5, <1>7
<1> QED
  BY <1>3, <1>4, <1>6, <1>7, <1>8, <1>9, BatchFollows

LEMMA PrepareKeeps ==
    ASSUME IInv, Prepare
    PROVE  IInv'
<1>1. /\ batch \in BatchType /\ Len(batch.out) = batch.calls /\ batch.calls \in Nat
      /\ batch.next \in Nat \ {0} /\ batch.next \in 1..batch.calls /\ batch.shown = 0
      /\ batch.how \in {"sequential", "parallel"}
  BY BatchFacts DEF BatchOK, Prepare
<1>2. PICK o \in {"running", "ready"} :
        /\ o = IF batch.how = "sequential" THEN "running" ELSE "ready"
        /\ batch' = [batch EXCEPT !.out[batch.next] = o, !.next = @ + 1]
  BY DEF Prepare
<1>3. /\ batch' \in BatchType /\ batch'.calls = batch.calls /\ batch'.how = batch.how
      /\ batch'.next = batch.next + 1 /\ batch'.shown = 0 /\ Len(batch'.out) = batch'.calls
      /\ batch'.out[batch.next] = o
      /\ \A j \in 1..batch.calls : j # batch.next => batch'.out[j] = batch.out[j]
  <2>1. batch' = [batch EXCEPT !.out[batch.next] = o, !.next = batch.next + 1]
    BY <1>2
  <2>2. PICK i \in 1..batch.calls, k \in Nat \ {0} : i = batch.next /\ k = batch.next + 1
    BY <1>1
  <2>3. o \in Outcomes
    BY DEF Outcomes
  <2>4. batch' = Moved(batch, i, o, k)
    BY <2>1, <2>2 DEF Moved
  <2> QED
    BY SMTT(60), <1>1, <2>2, <2>3, <2>4, CallMoves
<1>4. /\ pc = "prepare" /\ pc' = (IF batch.how = "sequential" THEN "execute" ELSE "check")
      /\ Unaltered /\ messages' = messages
  BY DEF Prepare
<1>5. /\ Shown = IF batch.how = "parallel" THEN 0 ELSE batch.next - 1
      /\ Shown' = Shown
  BY <1>1, <1>3, <1>4 DEF Shown
<1>6. BatchOK'
  <2>1. batch.how = "sequential" =>
          \A i \in 1..batch.calls : batch.out[i] # "ready" /\ batch.out[i] # "running"
    BY <1>4, BatchFacts DEF BatchOK
  <2>2. batch.how = "sequential" =>
          \A i \in 1..batch.calls : /\ batch'.out[i] # "ready"
                                    /\ batch'.out[i] = "running" => i = batch.next
    BY <1>2, <1>3, <2>1
  <2>3. batch'.next - 1 = batch.next
    BY <1>1, <1>3
  <2> QED
    BY <1>1, <1>3, <1>4, <2>2, <2>3 DEF BatchOK
<1>7. Shown \in Nat
  BY <1>1, <1>5
<1>8. pc \in Working /\ pc' \in Working
  BY <1>4 DEF Working
<1> QED
  BY <1>3, <1>4, <1>5, <1>6, <1>7, <1>8, BatchFollows

LEMMA CheckKeeps ==
    ASSUME IInv, Check
    PROVE  IInv'
<1>1. /\ batch \in BatchType /\ Len(batch.out) = batch.calls /\ batch.calls \in Nat
      /\ batch.next \in Nat \ {0} /\ batch.next > 1 /\ batch.shown = 0
      /\ batch.how \in {"sequential", "parallel"}
  BY BatchFacts DEF BatchOK, Check
<1>2. /\ pc = "check" /\ Unaltered /\ messages' = messages
  BY DEF Check
<1>3. batch.how = "sequential" =>
          \A i \in 1..batch.calls : batch.out[i] # "ready" /\ batch.out[i] # "running"
  BY <1>2, BatchFacts DEF BatchOK
<1>4. /\ batch' \in BatchType /\ batch'.calls = batch.calls /\ batch'.how = batch.how
      /\ batch'.next = batch.next /\ batch'.shown = 0 /\ Len(batch'.out) = batch'.calls
      /\ batch.how = "sequential" =>
            \A i \in 1..batch.calls : batch'.out[i] # "ready" /\ batch'.out[i] # "running"
      /\ \/ pc' = "prepare" /\ batch.next <= batch.calls
         \/ batch.how = "sequential" /\ pc' = "turn_end"
         \/ batch.how = "parallel" /\ pc' \in {"execute", "results"}
  <2>1. CASE run.aborted \/ Over(batch)
    <3>1. batch' = Started(batch) /\ pc' = AfterCalls(batch')
      BY <2>1 DEF Check
    <3>2. /\ batch' \in BatchType /\ batch'.calls = batch.calls /\ batch'.how = batch.how
          /\ batch'.next = batch.next /\ batch'.shown = 0 /\ Len(batch'.out) = batch'.calls
          /\ \A j \in 1..batch.calls : batch'.out[j] = IF batch.out[j] = "ready" THEN "running" ELSE batch.out[j]
      BY <1>1, <3>1, CallsStart
    <3>3. batch.how = "sequential" =>
            \A i \in 1..batch.calls : batch'.out[i] # "ready" /\ batch'.out[i] # "running"
      BY <1>3, <3>2
    <3>4. \/ batch.how = "sequential" /\ pc' = "turn_end"
          \/ batch.how = "parallel" /\ pc' \in {"execute", "results"}
      BY <1>1, <3>1, <3>2 DEF AfterCalls
    <3> QED
      BY <3>2, <3>3, <3>4
  <2>2. CASE ~(run.aborted \/ Over(batch))
    <3>1. batch' = batch /\ pc' = "prepare"
      BY <2>2 DEF Check
    <3> QED
      BY <1>1, <1>3, <2>2, <3>1 DEF Over
  <2> QED
    BY <2>1, <2>2
<1>5. Shown = (IF batch.how = "parallel" THEN 0 ELSE batch.next - 1) /\ Shown' = Shown
  BY <1>1, <1>2, <1>4 DEF Shown
<1>6. BatchOK'
  <2>1. batch'.next > 1 /\ batch'.how \in {"sequential", "parallel"} /\ batch'.next - 1 > 0
    BY <1>1, <1>4
  <2> QED
    BY <1>1, <1>4, <2>1 DEF BatchOK
<1>7. Shown \in Nat
  BY <1>1, <1>5
<1>8. pc \in Working /\ pc' \in Working
  BY <1>2, <1>4 DEF Working
<1> QED
  BY <1>2, <1>4, <1>5, <1>6, <1>7, <1>8, BatchFollows

LEMMA FinishKeeps ==
    ASSUME IInv, NEW i \in DOMAIN batch.out, Finish(i)
    PROVE  IInv'
<1>1. /\ batch \in BatchType /\ Len(batch.out) = batch.calls /\ batch.calls \in Nat
      /\ batch.next \in Nat \ {0} /\ batch.next > 1 /\ batch.shown = 0
      /\ batch.how \in {"sequential", "parallel"}
  BY BatchFacts DEF BatchOK, Finish
<1>2. i \in 1..batch.calls /\ pc = "execute" /\ batch.out[i] = "running" /\ Unaltered
  <2>1. batch.out \in Seq(Outcomes)
    BY <1>1 DEF BatchType
  <2> QED
    BY <1>1, <2>1, LenProperties DEF Finish
<1>3. PICK o \in {"done", "stop"} :
        /\ batch' = [batch EXCEPT !.out[i] = o]
        /\ pc' = IF batch'.how = "sequential" THEN "check" ELSE AfterCalls(batch')
  BY DEF Finish
<1>4. messages' = IF batch.how = "sequential" THEN Append(messages, Result(replies, i)) ELSE messages
  BY DEF Finish
<1>5. /\ batch' \in BatchType /\ batch'.calls = batch.calls /\ batch'.how = batch.how
      /\ batch'.next = batch.next /\ batch'.shown = 0 /\ Len(batch'.out) = batch'.calls
      /\ batch'.out[i] = o
      /\ \A j \in 1..batch.calls : j # i => batch'.out[j] = batch.out[j]
  <2>1. o \in Outcomes
    BY DEF Outcomes
  <2>2. batch' = Ended(batch, i, o)
    BY <1>3 DEF Ended
  <2> QED
    BY <1>1, <1>2, <2>1, <2>2, CallEnds
<1>6. IF batch.how = "sequential" THEN pc' = "check" ELSE pc' \in {"execute", "results"}
  BY <1>1, <1>3, <1>5 DEF AfterCalls
<1>7. batch.how = "sequential" =>
        /\ i = batch.next - 1
        /\ \A j \in 1..batch.calls : /\ batch.out[j] # "ready"
                                     /\ batch.out[j] = "running" => j = i
  BY <1>2, BatchFacts DEF BatchOK
<1>8. BatchOK'
  <2>1. batch.how = "sequential" =>
          \A j \in 1..batch.calls : batch'.out[j] # "ready" /\ batch'.out[j] # "running"
    BY <1>5, <1>7
  <2>2. batch'.next > 1 /\ batch'.how \in {"sequential", "parallel"} /\ batch'.next - 1 > 0
    BY <1>1, <1>5
  <2> QED
    BY <1>1, <1>5, <1>6, <2>1, <2>2 DEF BatchOK
<1>9. /\ Shown = IF batch.how = "parallel" THEN 0 ELSE batch.next - 2
      /\ Shown' = IF batch.how = "parallel" THEN 0 ELSE batch.next - 1
  BY <1>1, <1>2, <1>5, <1>6 DEF Shown
<1>10. Shown \in Nat
  BY <1>1, <1>9
<1>11. \/ messages' = messages /\ Shown' = Shown
       \/ messages' = Append(messages, Result(replies, Shown + 1)) /\ Shown' = Shown + 1
  <2>1. CASE batch.how = "parallel"
    BY <1>4, <1>9, <2>1
  <2>2. CASE batch.how = "sequential"
    <3>1. Shown + 1 = i /\ Shown' = Shown + 1
      BY <1>1, <1>7, <1>9, <2>2
    <3> QED
      BY <1>4, <2>2, <3>1
  <2> QED
    BY <1>1, <2>1, <2>2
<1>12. pc \in Working /\ pc' \in Working
  BY <1>2, <1>6 DEF Working
<1> QED
  BY <1>2, <1>5, <1>8, <1>10, <1>11, <1>12, BatchFollows

LEMMA ShowResultKeeps ==
    ASSUME IInv, ShowResult
    PROVE  IInv'
<1>1. /\ batch \in BatchType /\ Len(batch.out) = batch.calls /\ batch.calls \in Nat
      /\ batch.next \in Nat \ {0} /\ batch.shown \in Nat /\ batch.shown < batch.next - 1
      /\ batch.how = "parallel"
  BY BatchFacts DEF BatchOK, ShowResult
<1>2. /\ pc = "results" /\ Unaltered
      /\ messages' = Append(messages, Result(replies, batch.shown + 1))
      /\ batch' = [batch EXCEPT !.shown = batch.shown + 1]
      /\ pc' = IF batch.shown + 1 = batch.next - 1 THEN "turn_end" ELSE "results"
  BY DEF ShowResult
<1>3. /\ batch' \in BatchType /\ batch'.calls = batch.calls /\ batch'.how = "parallel"
      /\ batch'.next = batch.next /\ batch'.shown = batch.shown + 1 /\ Len(batch'.out) = batch'.calls
  BY SMTT(60), <1>1, <1>2 DEF BatchType
<1>4. BatchOK'
  BY <1>1, <1>2, <1>3 DEF BatchOK
<1>5. Shown = batch.shown /\ Shown' = batch.shown + 1
  BY <1>1, <1>2, <1>3 DEF Shown
<1>6. pc \in Working /\ pc' \in Working
  BY <1>2 DEF Working
<1> QED
  BY <1>1, <1>2, <1>3, <1>4, <1>5, <1>6, BatchFollows

-----------------------------------------------------------------------------
(* The other steps of a run. *)

LEMMA BatchIsOver ==
    ASSUME batch' = NoBatch, pc' \notin {"prepare", "check", "execute", "results"}
    PROVE  BatchOK' /\ batch' \in BatchType /\ Len(batch'.out) = batch'.calls
BY NoBatchType DEF BatchOK

LEMMA BatchIsLeft ==
    ASSUME BatchOK, batch' = batch, pc' \notin {"prepare", "check", "execute", "results"},
           pc # "execute"
    PROVE  BatchOK'
BY DEF BatchOK

LEMMA UsersType ==
    ASSUME NEW p \in Seq(Nat)
    PROVE  Users(p) \in Seq(Message)
<1>1. PICK n \in Nat : n = Len(p) /\ DOMAIN p = 1..n /\ \A i \in 1..n : p[i] \in Nat
  BY LenProperties
<1>2. \A i \in 1..n : User(p[i]) \in Message
  BY <1>1, MessageTypes
<1>3. [i \in 1..n |-> User(p[i])] \in Seq(Message)
  BY <1>2
<1> QED
  BY <1>1, <1>3 DEF Users

LEMMA TurnEndKeeps ==
    ASSUME IInv, TurnEnd
    PROVE  IInv'
<1>1. pc = "turn_end" /\ batch' = NoBatch /\ pc' \in {"poll", "end"} /\ more' \in BOOLEAN
  BY DEF TurnEnd
<1>2. UNCHANGED <<mode, messages, steering, followUp, run, pending, replies, sent, gone, waited>>
  BY DEF TurnEnd, queues
<1>3. BatchOK' /\ batch' \in BatchType /\ Len(batch'.out) = batch'.calls
  BY <1>1, BatchIsOver
<1>4. context' = messages
  <2>1. messages = context \o Results(replies, batch.next - 1)
    BY <1>1, BatchFacts DEF ContextOK, Shown, Working
  <2>2. [i \in Taken |-> Result(replies, i)] = Results(replies, batch.next - 1)
    BY DEF Results, Taken
  <2> QED
    BY <2>1, <2>2 DEF TurnEnd
<1>5. OnceOK' /\ OrderOK'
  BY <1>2, BatchFacts, PlacesStay DEF Places
<1>6. TypeOK'
  BY <1>1, <1>2, <1>3, <1>4, BatchFacts DEF TypeOK, Ids
<1>7. ControlOK' /\ ContextOK' /\ WaitOK'
  BY <1>1, <1>2, <1>4, BatchFacts DEF ControlOK, ContextOK, WaitOK, Working
<1> QED
  BY <1>3, <1>5, <1>6, <1>7 DEF IInv

LEMMA AnswerKeeps ==
    ASSUME IInv, Answer
    PROVE  IInv'
<1>1. PICK calls \in Nat, stop \in Stops :
        LET reply == Reply(replies + 1, calls, stop = "broken")
            hows  == IF stop = "truncated" THEN {"truncated"} ELSE {"sequential", "parallel"}
        IN  /\ messages' = Append(messages, reply) /\ context' = Append(context, reply)
            /\ IF reply.broken \/ calls = 0
               THEN batch' = NoBatch /\ pc' = IF reply.broken THEN "end" ELSE "turn_end"
               ELSE /\ \E how \in hows :
                          batch' = [NoBatch EXCEPT !.calls = calls, !.how = how,
                                                   !.out = [i \in 1..calls |-> "open"]]
                    /\ pc' = "prepare"
  <2>1. 0..(IF replies < MaxReplies THEN MaxCalls ELSE 0) \subseteq Nat
    OBVIOUS
  <2> QED
    BY <2>1 DEF Answer
<1>2. /\ pc = "answer" /\ replies' = replies + 1
      /\ UNCHANGED <<mode, steering, followUp, run, pending, more, sent, gone, waited>>
  BY DEF Answer, queues
<1>3. PICK x \in Message :
        x = Reply(replies + 1, calls, stop = "broken") /\ x.role # "user" /\ x.broken \in BOOLEAN
  <2>1. PICK n \in Nat : n = replies + 1
    BY BatchFacts
  <2>2. PICK b \in BOOLEAN : b = (stop = "broken")
    OBVIOUS
  <2>3. calls \in Nat
    BY <1>1
  <2>4. Reply(n, calls, b) \in Message /\ Reply(n, calls, b).role = "assistant"
    BY <2>3, MessageTypes
  <2>5. Reply(n, calls, b).broken = b
    BY DEF Reply
  <2>6. "assistant" # "user"
    OBVIOUS
  <2> QED
    BY <2>1, <2>2, <2>4, <2>5, <2>6
<1>4. messages' = Append(messages, x) /\ context' = Append(context, x)
  BY <1>1, <1>3
<1>5. OnceOK' /\ OrderOK' /\ messages' \in Seq(Message)
  BY <1>2, <1>3, <1>4, BatchFacts, OtherMessage
<1>6. context' = messages' /\ context' \in Seq(Message)
  <2>1. context = messages
    BY <1>2, BatchFacts DEF ContextOK
  <2> QED
    BY <1>4, <1>5, <2>1
<1>7. /\ batch' \in BatchType /\ Len(batch'.out) = batch'.calls
      /\ pc' \in {"end", "turn_end", "prepare"} /\ BatchOK'
      /\ batch'.next = 1
  <2>1. CASE x.broken \/ calls = 0
    <3>1. batch' = NoBatch /\ pc' \in {"end", "turn_end"}
      BY <1>1, <1>3, <2>1
    <3> QED
      BY <3>1, BatchIsOver, NoBatchType
  <2>2. CASE ~(x.broken \/ calls = 0)
    <3>1. PICK how \in {"truncated", "sequential", "parallel"} :
            batch' = [NoBatch EXCEPT !.calls = calls, !.how = how, !.out = [i \in 1..calls |-> "open"]]
      BY <1>1, <1>3, <2>2
    <3>2. pc' = "prepare" /\ calls # 0
      BY <1>1, <1>3, <2>2
    <3>3. PICK out \in Seq(Outcomes) : /\ out = [i \in 1..calls |-> "open"] /\ Len(out) = calls
                                       /\ \A i \in 1..calls : out[i] = "open"
      <4> DEFINE out == [i \in 1..calls |-> "open"]
      <4>1. out \in Seq(Outcomes) /\ Len(out) = calls /\ \A i \in 1..calls : out[i] = "open"
        BY DEF Outcomes
      <4> QED
        BY <4>1
    <3>4. batch' = [calls |-> calls, how |-> how, next |-> 1, out |-> out, shown |-> 0]
      BY <3>1, <3>3 DEF NoBatch
    <3>5. batch' \in BatchType /\ Len(batch'.out) = batch'.calls
      BY <3>3, <3>4 DEF BatchType
    <3>6. BatchOK'
      BY <3>2, <3>3, <3>4 DEF BatchOK
    <3> QED
      BY <3>2, <3>4, <3>5, <3>6
  <2> QED
    BY <2>1, <2>2
<1>8. TypeOK'
  BY SMTT(60), <1>2, <1>5, <1>6, <1>7, BatchFacts DEF TypeOK, Ids, Working
<1>9. ControlOK' /\ WaitOK'
  BY <1>2, <1>7, BatchFacts DEF ControlOK, WaitOK
<1>10. ContextOK'
  <2>1. pc' \in Working => Shown' = 0
    BY <1>7 DEF Shown, Working, BatchOK
  <2>2. context' \o Results(replies', 0) = context'
    BY <1>6, NoResults
  <2> QED
    BY <1>6, <1>7, <2>1, <2>2 DEF ContextOK, Working, Results
<1> QED
  BY <1>5, <1>7, <1>8, <1>9, <1>10 DEF IInv

LEMMA AskKeeps ==
    ASSUME IInv, Ask
    PROVE  IInv'
<1>1. /\ pc = "ask" /\ pc' = "answer" /\ run' = [run EXCEPT !.doomed = run.aborted]
      /\ waited' = IF steering = <<>> THEN 0 ELSE waited + 1
      /\ UNCHANGED <<mode, messages, context, steering, followUp, pending, more, batch, replies, sent, gone>>
  BY DEF Ask, queues
<1>2. run \in [aborted : BOOLEAN, skip : BOOLEAN, doomed : BOOLEAN] /\ waited = 0
  BY <1>1, BatchFacts DEF WaitOK
<1>3. run' \in [aborted : BOOLEAN, skip : BOOLEAN, doomed : BOOLEAN] /\ waited' \in {0, 1}
  BY <1>1, <1>2
<1>4. OnceOK' /\ OrderOK'
  BY <1>1, BatchFacts, PlacesStay DEF Places
<1>5. BatchOK'
  BY <1>1, BatchFacts, BatchIsLeft
<1>6. TypeOK'
  BY SMTT(60), <1>1, <1>3, BatchFacts DEF TypeOK, Ids, Working
<1>7. ControlOK'
  BY <1>1, <1>3, BatchFacts, NoneAssumption DEF ControlOK
<1>8. ContextOK'
  BY <1>1, BatchFacts DEF ContextOK, Working
<1>9. WaitOK'
  <2>1. run # None /\ ~run.skip
    BY <1>1, BatchFacts DEF ControlOK, WaitOK
  <2>2. run'.skip = run.skip
    BY <1>1, <1>2
  <2> QED
    BY <1>1, <1>3, <2>1, <2>2 DEF WaitOK
<1> QED
  BY <1>4, <1>5, <1>6, <1>7, <1>8, <1>9 DEF IInv

LEMMA PollKeeps ==
    ASSUME IInv, Poll
    PROVE  IInv'
<1>1. /\ pc = "poll" /\ pc' = IF pending' # <<>> THEN "inject" ELSE IF more THEN "ask" ELSE "follow_up"
      /\ UNCHANGED <<mode, messages, context, followUp, more, batch, replies, sent, gone>>
  BY DEF Poll
<1>2. /\ run \in [aborted : BOOLEAN, skip : BOOLEAN, doomed : BOOLEAN] /\ run # None
      /\ pending = <<>> /\ context = messages
  BY <1>1, BatchFacts DEF ControlOK, ContextOK
<1>3. /\ run' \in [aborted : BOOLEAN, skip : BOOLEAN, doomed : BOOLEAN] /\ ~run'.skip /\ waited' = 0
      /\ OnceOK' /\ OrderOK' /\ pending' \in Seq(Ids) /\ steering' \in Seq(Ids)
  <2>1. CASE run.skip
    <3>1. pending' = <<>> /\ steering' = steering /\ run' = [run EXCEPT !.skip = FALSE] /\ waited' = waited
      BY <2>1 DEF Poll
    <3>2. OnceOK' /\ OrderOK'
      BY <1>1, <1>2, <3>1, BatchFacts, PlacesStay DEF Places
    <3>3. waited = 0
      BY <1>2, <2>1, BatchFacts DEF WaitOK
    <3>4. pending' \in Seq(Ids) /\ steering' \in Seq(Ids)
      BY <1>2, <3>1, BatchFacts DEF TypeOK
    <3> QED
      BY <1>2, <3>1, <3>2, <3>3, <3>4
  <2>2. CASE ~run.skip
    <3>1. /\ pending' = Drained(steering) /\ steering' = Left(steering) /\ run' = run /\ waited' = 0
      BY <2>2 DEF Poll
    <3>2. OnceOK' /\ OrderOK' /\ pending' \in Seq(Ids) /\ steering' \in Seq(Ids)
      BY <1>1, <1>2, <3>1, BatchFacts, SteeringTaken
    <3> QED
      BY <1>2, <2>2, <3>1, <3>2
  <2> QED
    BY <2>1, <2>2
<1>4. run' # None
  BY <1>3, NoneAssumption
<1>5. BatchOK'
  BY <1>1, BatchFacts, BatchIsLeft
<1>6. TypeOK'
  BY <1>1, <1>3, BatchFacts DEF TypeOK, Ids, Working
<1>7. ControlOK'
  BY <1>1, <1>4 DEF ControlOK
<1>8. ContextOK'
  BY <1>1, <1>2 DEF ContextOK, Working
<1>9. WaitOK'
  BY <1>3 DEF WaitOK
<1> QED
  BY <1>3, <1>5, <1>6, <1>7, <1>8, <1>9 DEF IInv

LEMMA InjectKeeps ==
    ASSUME IInv, Inject
    PROVE  IInv'
<1>1. /\ pc = "inject" /\ pc' = IF Len(pending) = 1 THEN "ask" ELSE "inject"
      /\ messages' = Append(messages, User(Head(pending)))
      /\ context' = Append(context, User(Head(pending))) /\ pending' = Tail(pending)
      /\ UNCHANGED <<mode, steering, followUp, run, more, batch, replies, sent, gone, waited>>
  BY DEF Inject, queues
<1>2. /\ run # None /\ pending # <<>> /\ context = messages /\ waited = 0 /\ ~run.skip
      /\ pending \in Seq(Ids)
  BY <1>1, BatchFacts DEF ControlOK, ContextOK, WaitOK, TypeOK
<1>3. OnceOK' /\ OrderOK' /\ messages' \in Seq(Message) /\ pending' \in Seq(Ids)
  BY <1>1, <1>2, BatchFacts, HeadInjected
<1>4. pending' = <<>> <=> Len(pending) = 1
  <2>1. Len(pending') = Len(pending) - 1 /\ Len(pending) \in Nat
    BY <1>1, <1>2, HeadTailProperties, LenProperties
  <2>2. pending' = <<>> <=> Len(pending') = 0
    BY <1>3, EmptySeq
  <2> QED
    BY <2>1, <2>2
<1>5. BatchOK'
  BY <1>1, BatchFacts, BatchIsLeft
<1>6. context' = messages'
  BY <1>1, <1>2
<1>7. TypeOK'
  BY <1>1, <1>3, <1>6, BatchFacts DEF TypeOK, Ids, Working
<1>8. ControlOK'
  BY <1>1, <1>2, <1>4 DEF ControlOK
<1>9. ContextOK' /\ WaitOK'
  BY <1>1, <1>2, <1>6 DEF ContextOK, WaitOK, Working
<1> QED
  BY <1>3, <1>5, <1>7, <1>8, <1>9 DEF IInv

LEMMA InjectPromptKeeps ==
    ASSUME IInv, InjectPrompt
    PROVE  IInv'
<1>1. /\ pc = "prompt" /\ pc' = IF Len(pending) = 1 THEN "poll" ELSE "prompt"
      /\ messages' = Append(messages, User(Head(pending))) /\ pending' = Tail(pending)
      /\ UNCHANGED <<mode, context, steering, followUp, run, more, batch, replies, sent, gone, waited>>
  BY DEF InjectPrompt, queues
<1>2. /\ run # None /\ pending # <<>> /\ context = messages \o Users(pending)
      /\ pending \in Seq(Ids) /\ messages \in Seq(Message)
  BY <1>1, BatchFacts DEF ControlOK, ContextOK, TypeOK
<1>3. OnceOK' /\ OrderOK' /\ messages' \in Seq(Message) /\ pending' \in Seq(Ids)
  BY <1>1, <1>2, BatchFacts, HeadInjected
<1>4. pending' = <<>> <=> Len(pending) = 1
  <2>1. Len(pending') = Len(pending) - 1 /\ Len(pending) \in Nat
    BY <1>1, <1>2, HeadTailProperties, LenProperties
  <2>2. pending' = <<>> <=> Len(pending') = 0
    BY <1>3, EmptySeq
  <2> QED
    BY <2>1, <2>2
<1>5. BatchOK'
  BY <1>1, BatchFacts, BatchIsLeft
<1>6. context' = messages' \o Users(pending')
  <2>1. pending \in Seq(Nat)
    <3>1. Ids \subseteq Nat
      BY DEF Ids
    <3> QED
      BY <1>2, <3>1, SeqMonotonic
  <2>2. messages \o Users(pending) = Append(messages, User(Head(pending))) \o Users(Tail(pending))
    BY <1>2, <2>1, UsersMove
  <2> QED
    BY <1>1, <1>2, <2>2
<1>7. pending' = <<>> => context' = messages'
  BY <1>3, <1>6, NoUsers
<1>8. TypeOK'
  BY <1>1, <1>3, BatchFacts DEF TypeOK, Ids, Working
<1>9. ControlOK'
  BY <1>1, <1>2, <1>4 DEF ControlOK
<1>10. ContextOK'
  BY <1>1, <1>4, <1>6, <1>7 DEF ContextOK, Working, Users
<1>11. WaitOK'
  BY <1>1, BatchFacts DEF WaitOK
<1> QED
  BY <1>3, <1>5, <1>8, <1>9, <1>10, <1>11 DEF IInv

LEMMA PollFollowUpsKeeps ==
    ASSUME IInv, PollFollowUps
    PROVE  IInv'
<1>1. /\ pc = "follow_up" /\ pending' = Drained(followUp) /\ followUp' = Left(followUp)
      /\ pc' = (IF pending' # <<>> THEN "inject" ELSE "end") /\ more' \in {TRUE, more}
      /\ UNCHANGED <<mode, messages, context, steering, run, batch, replies, sent, gone, waited>>
  BY DEF PollFollowUps
<1>2. run # None /\ pending = <<>> /\ context = messages /\ waited = 0 /\ ~run.skip
  BY <1>1, BatchFacts DEF ControlOK, ContextOK, WaitOK
<1>3. OnceOK' /\ OrderOK' /\ pending' \in Seq(Ids) /\ followUp' \in Seq(Ids)
  BY <1>1, <1>2, BatchFacts, FollowUpTaken
<1>4. BatchOK'
  BY <1>1, BatchFacts, BatchIsLeft
<1>5. TypeOK'
  BY <1>1, <1>3, BatchFacts DEF TypeOK, Ids, Working
<1>6. ControlOK' /\ ContextOK' /\ WaitOK'
  BY <1>1, <1>2 DEF ControlOK, ContextOK, WaitOK, Working
<1> QED
  BY <1>3, <1>4, <1>5, <1>6 DEF IInv

(* A run ends where nothing was left to inject. *)
LEMMA IdleKeeps ==
    ASSUME IInv, pc \in {"end", "settle", "failing"}, Idle,
           UNCHANGED <<mode, messages, queues, replies, strays, sent, gone, waited>>
    PROVE  IInv'
<1>1. /\ run' = None /\ pc' = "idle" /\ pending' = <<>> /\ more' = FALSE /\ batch' = NoBatch
      /\ context' = <<>>
      /\ UNCHANGED <<mode, messages, steering, followUp, replies, sent, gone, waited>>
  BY DEF Idle, queues
<1>2. pending = <<>>
  BY BatchFacts DEF ControlOK
<1>3. OnceOK' /\ OrderOK'
  BY <1>1, <1>2, BatchFacts, PlacesStay DEF Places
<1>4. BatchOK' /\ batch' \in BatchType /\ Len(batch'.out) = batch'.calls
  BY <1>1, BatchIsOver
<1>5. pending' \in Seq(Ids) /\ context' \in Seq(Message)
  BY <1>1, EmptySeq
<1>6. TypeOK'
  BY <1>1, <1>4, <1>5, BatchFacts DEF TypeOK, Ids
<1>7. ControlOK' /\ ContextOK' /\ WaitOK'
  BY <1>1, BatchFacts DEF ControlOK, ContextOK, WaitOK, Working
<1> QED
  BY <1>3, <1>4, <1>6, <1>7 DEF IInv

LEMMA HandleFailureKeeps ==
    ASSUME IInv, HandleFailure
    PROVE  IInv'
<1>1. /\ pc = "failing" /\ pc' = "settle"
      /\ messages' = Append(messages, Reply(replies + 1, 0, TRUE)) /\ replies' = replies + 1
      /\ UNCHANGED <<mode, context, steering, followUp, run, pending, more, batch, sent, gone, waited>>
  BY DEF HandleFailure, queues
<1>2. PICK x \in Message : x = Reply(replies + 1, 0, TRUE) /\ x.role # "user"
  <2>1. replies + 1 \in Nat
    BY BatchFacts
  <2> QED
    BY <2>1, MessageTypes
<1>3. OnceOK' /\ OrderOK' /\ messages' \in Seq(Message)
  BY <1>1, <1>2, BatchFacts, OtherMessage
<1>4. BatchOK'
  BY <1>1, BatchFacts, BatchIsLeft
<1>5. TypeOK'
  <2>1. TypeOK /\ replies' \in Nat
    BY <1>1, BatchFacts
  <2> QED
    BY <1>1, <1>3, <2>1 DEF TypeOK, Ids, Working
<1>6. ControlOK' /\ ContextOK' /\ WaitOK'
  BY <1>1, BatchFacts DEF ControlOK, ContextOK, WaitOK, Working
<1> QED
  BY <1>3, <1>4, <1>5, <1>6 DEF IInv

LEMMA ThrowKeeps ==
    ASSUME IInv, Throw
    PROVE  IInv'
<1>1. /\ run # None /\ pc' = "failing" /\ gone' = gone \cup ToSet(pending) /\ pending' = <<>>
      /\ batch' = NoBatch /\ more' = FALSE /\ context' = <<>>
      /\ UNCHANGED <<mode, messages, steering, followUp, run, replies, sent, waited>>
  BY DEF Throw, queues
<1>2. OnceOK' /\ OrderOK' /\ gone' \in SUBSET Ids
  BY <1>1, BatchFacts, PendingLost
<1>3. BatchOK' /\ batch' \in BatchType /\ Len(batch'.out) = batch'.calls
  BY <1>1, BatchIsOver
<1>4. pending' \in Seq(Ids) /\ context' \in Seq(Message)
  BY <1>1, EmptySeq
<1>5. TypeOK'
  BY <1>1, <1>2, <1>3, <1>4, BatchFacts DEF TypeOK, Ids
<1>6. ControlOK' /\ ContextOK' /\ WaitOK'
  BY <1>1, BatchFacts DEF ControlOK, ContextOK, WaitOK, Working
<1> QED
  BY <1>2, <1>3, <1>5, <1>6 DEF IInv

-----------------------------------------------------------------------------
(* The user, and what goes on behind a run that is over. *)

(* Nothing but the calls that are not waited for changes. *)
LEMMA Stutter ==
    ASSUME IInv, UNCHANGED <<mode, messages, context, queues, run, loop, sent, gone, waited>>
    PROVE  IInv'
<1>1. /\ UNCHANGED <<mode, messages, context, steering, followUp, run, sent, gone, waited>>
      /\ UNCHANGED <<pc, pending, more, batch, replies>>
  BY DEF queues, loop
<1>2. OnceOK' /\ OrderOK'
  BY <1>1, BatchFacts, PlacesStay DEF Places
<1>3. TypeOK'
  BY <1>1, BatchFacts DEF TypeOK, Ids
<1>4. ControlOK' /\ BatchOK'
  BY <1>1, BatchFacts DEF ControlOK, BatchOK
<1>5. ContextOK' /\ WaitOK'
  BY <1>1, BatchFacts DEF ContextOK, WaitOK, Users, Results, Shown
<1> QED
  BY <1>2, <1>3, <1>4, <1>5 DEF IInv

LEMMA BeginKeeps ==
    ASSUME IInv, run = None, NEW ms, NEW skip \in BOOLEAN, ms # <<>>, Begin(ms, skip),
           OnceOK', OrderOK', Len(sent') \in Nat, sent' \in Seq({"prompt", "steer", "followUp"}),
           pending' \in Seq(Ids'), steering' \in Seq(Ids'), followUp' \in Seq(Ids'),
           gone' \in SUBSET Ids', waited' \in {0, waited}, skip => waited' = 0,
           UNCHANGED <<mode, messages, replies>>
    PROVE  IInv'
<1>1. /\ run' = [aborted |-> FALSE, skip |-> skip, doomed |-> FALSE] /\ pc' = "prompt"
      /\ pending' = ms /\ context' = messages \o Users(ms) /\ more' = TRUE /\ batch' = NoBatch
  BY DEF Begin
<1>2. /\ run' \in [aborted : BOOLEAN, skip : BOOLEAN, doomed : BOOLEAN] /\ run'.skip = skip
      /\ run' # None
  <2>1. run' \in [aborted : BOOLEAN, skip : BOOLEAN, doomed : BOOLEAN] /\ run'.skip = skip
    BY <1>1
  <2> QED
    BY <2>1, NoneAssumption
<1>3. BatchOK' /\ batch' \in BatchType /\ Len(batch'.out) = batch'.calls
  BY <1>1, BatchIsOver
<1>4. context' \in Seq(Message)
  <2>1. Ids' \subseteq Nat
    BY DEF Ids
  <2>2. ms \in Seq(Nat)
    BY <1>1, <2>1, SeqMonotonic
  <2> QED
    BY <1>1, <2>2, BatchFacts, UsersType, ConcatProperties
<1>5. TypeOK'
  <2>1. TypeOK
    BY BatchFacts
  <2>2. waited' \in Nat
    BY <2>1 DEF TypeOK
  <2> QED
    BY <1>1, <1>2, <1>3, <1>4, <2>1, <2>2 DEF TypeOK
<1>6. ControlOK'
  BY <1>1, <1>2 DEF ControlOK
<1>7. ContextOK'
  BY <1>1 DEF ContextOK, Working, Users
<1>8. WaitOK'
  <2>1. waited' <= 1
    BY BatchFacts DEF WaitOK
  <2> QED
    BY <1>1, <1>2, <2>1 DEF WaitOK
<1> QED
  BY <1>3, <1>5, <1>6, <1>7, <1>8 DEF IInv

LEMMA PromptKeeps ==
    ASSUME IInv, Prompt
    PROVE  IInv'
<1>1. /\ run = None /\ sent' = Append(sent, "prompt") /\ Begin(<<NextMessage>>, FALSE)
      /\ UNCHANGED <<mode, messages, steering, followUp, replies, gone, waited>>
  BY DEF Prompt, queues
<1>2. pending = <<>> /\ pending' = <<NextMessage>>
  BY <1>1, BatchFacts DEF ControlOK, Begin
<1>3. OnceOK' /\ OrderOK' /\ pending' \in Seq(Ids')
  BY <1>1, <1>2, BatchFacts, PromptSent
<1>4. /\ sent' \in Seq({"prompt", "steer", "followUp"}) /\ Ids \subseteq Ids'
      /\ \A s \in Seq(Ids) : s \in Seq(Ids')
  BY <1>1, BatchFacts, OneMoreSent
<1>5. steering' \in Seq(Ids') /\ followUp' \in Seq(Ids') /\ gone' \in SUBSET Ids'
  BY <1>1, <1>4, BatchFacts DEF TypeOK
<1>6. Len(sent') \in Nat
  BY <1>4, LenProperties
<1>7. PICK ms : ms = <<NextMessage>>
  OBVIOUS
<1>8. ms # <<>> /\ Begin(ms, FALSE)
  BY <1>1, <1>7
<1> QED
  BY <1>1, <1>3, <1>4, <1>5, <1>6, <1>8, BeginKeeps

LEMMA ContinueQueuedKeeps ==
    ASSUME IInv, ContinueQueued
    PROVE  IInv'
<1>1. /\ run = None /\ waited' = 0
      /\ UNCHANGED <<mode, messages, replies, sent, gone>>
  BY DEF ContinueQueued
<1>2. /\ pending = <<>> /\ steering \in Seq(Ids) /\ followUp \in Seq(Ids) /\ gone \in SUBSET Ids
      /\ Ids' = Ids /\ Len(sent) \in Nat /\ sent \in Seq({"prompt", "steer", "followUp"})
  BY <1>1, BatchFacts, LenProperties DEF ControlOK, TypeOK, Ids
<1>3. CASE steering # <<>>
  <2>1. Begin(Drained(steering), TRUE) /\ steering' = Left(steering) /\ followUp' = followUp
    BY <1>3 DEF ContinueQueued
  <2>2. pending' = Drained(steering)
    BY <2>1 DEF Begin
  <2>3. OnceOK' /\ OrderOK' /\ pending' \in Seq(Ids) /\ steering' \in Seq(Ids)
    BY <1>1, <1>2, <2>1, <2>2, BatchFacts, SteeringTaken
  <2>4. Drained(steering) # <<>>
    BY <1>3 DEF Drained
  <2>5. PICK ms : ms = Drained(steering)
    OBVIOUS
  <2>6. ms # <<>> /\ Begin(ms, TRUE)
    BY <2>1, <2>4, <2>5
  <2> QED
    BY <1>1, <1>2, <2>1, <2>3, <2>6, BeginKeeps
<1>4. CASE steering = <<>>
  <2>1. /\ followUp # <<>> /\ Begin(Drained(followUp), FALSE) /\ followUp' = Left(followUp)
        /\ steering' = steering
    BY <1>4 DEF ContinueQueued
  <2>2. pending' = Drained(followUp)
    BY <2>1 DEF Begin
  <2>3. OnceOK' /\ OrderOK' /\ pending' \in Seq(Ids) /\ followUp' \in Seq(Ids)
    BY <1>1, <1>2, <2>1, <2>2, BatchFacts, FollowUpTaken
  <2>4. Drained(followUp) # <<>>
    BY <2>1 DEF Drained
  <2>5. PICK ms : ms = Drained(followUp)
    OBVIOUS
  <2>6. ms # <<>> /\ Begin(ms, FALSE)
    BY <2>1, <2>4, <2>5
  <2> QED
    BY <1>1, <1>2, <2>1, <2>3, <2>6, BeginKeeps
<1> QED
  BY <1>3, <1>4

LEMMA ContinueKeeps ==
    ASSUME IInv, Continue
    PROVE  IInv'
<1>1. /\ run = None /\ run' = [aborted |-> FALSE, skip |-> FALSE, doomed |-> FALSE]
      /\ pending' = <<>> /\ pc' = "poll" /\ context' = messages /\ more' = TRUE /\ batch' = NoBatch
      /\ UNCHANGED <<mode, messages, steering, followUp, replies, sent, gone, waited>>
  BY DEF Continue, queues
<1>2. pending = <<>>
  BY <1>1, BatchFacts DEF ControlOK
<1>3. /\ run' \in [aborted : BOOLEAN, skip : BOOLEAN, doomed : BOOLEAN] /\ ~run'.skip
      /\ run' # None
  <2>1. run' \in [aborted : BOOLEAN, skip : BOOLEAN, doomed : BOOLEAN] /\ ~run'.skip
    BY <1>1
  <2> QED
    BY <2>1, NoneAssumption
<1>4. OnceOK' /\ OrderOK'
  BY <1>1, <1>2, BatchFacts, PlacesStay DEF Places
<1>5. BatchOK' /\ batch' \in BatchType /\ Len(batch'.out) = batch'.calls
  BY <1>1, BatchIsOver
<1>6. pending' \in Seq(Ids)
  BY <1>1, EmptySeq
<1>7. TypeOK'
  BY <1>1, <1>3, <1>5, <1>6, BatchFacts DEF TypeOK, Ids
<1>8. ControlOK' /\ ContextOK' /\ WaitOK'
  BY <1>1, <1>3, BatchFacts DEF ControlOK, ContextOK, WaitOK, Working
<1> QED
  BY <1>4, <1>5, <1>7, <1>8 DEF IInv

LEMMA SteerKeeps ==
    ASSUME IInv, Steer
    PROVE  IInv'
<1>1. /\ sent' = Append(sent, "steer") /\ steering' = Append(steering, NextMessage)
      /\ UNCHANGED <<mode, messages, context, followUp, run, gone, waited>>
      /\ UNCHANGED <<pc, pending, more, batch, replies>>
  BY DEF Steer, loop
<1>2. OnceOK' /\ OrderOK' /\ steering' \in Seq(Ids')
  BY <1>1, BatchFacts, SteerSent
<1>3. /\ sent' \in Seq({"prompt", "steer", "followUp"}) /\ Ids \subseteq Ids'
      /\ \A s \in Seq(Ids) : s \in Seq(Ids')
  BY <1>1, BatchFacts, OneMoreSent
<1>4. pending' \in Seq(Ids') /\ followUp' \in Seq(Ids') /\ gone' \in SUBSET Ids'
  BY <1>1, <1>3, BatchFacts DEF TypeOK
<1>5. TypeOK'
  BY <1>1, <1>2, <1>3, <1>4, BatchFacts DEF TypeOK
<1>6. ControlOK' /\ BatchOK'
  BY <1>1, BatchFacts DEF ControlOK, BatchOK
<1>7. ContextOK' /\ WaitOK'
  BY <1>1, BatchFacts DEF ContextOK, WaitOK, Users, Results, Shown
<1> QED
  BY <1>2, <1>5, <1>6, <1>7 DEF IInv

LEMMA FollowUpKeeps ==
    ASSUME IInv, FollowUp
    PROVE  IInv'
<1>1. /\ sent' = Append(sent, "followUp") /\ followUp' = Append(followUp, NextMessage)
      /\ UNCHANGED <<mode, messages, context, steering, run, gone, waited>>
      /\ UNCHANGED <<pc, pending, more, batch, replies>>
  BY DEF FollowUp, loop
<1>2. OnceOK' /\ OrderOK' /\ followUp' \in Seq(Ids')
  BY <1>1, BatchFacts, FollowUpSent
<1>3. /\ sent' \in Seq({"prompt", "steer", "followUp"}) /\ Ids \subseteq Ids'
      /\ \A s \in Seq(Ids) : s \in Seq(Ids')
  BY <1>1, BatchFacts, OneMoreSent
<1>4. pending' \in Seq(Ids') /\ steering' \in Seq(Ids') /\ gone' \in SUBSET Ids'
  BY <1>1, <1>3, BatchFacts DEF TypeOK
<1>5. TypeOK'
  BY <1>1, <1>2, <1>3, <1>4, BatchFacts DEF TypeOK
<1>6. ControlOK' /\ BatchOK'
  BY <1>1, BatchFacts DEF ControlOK, BatchOK
<1>7. ContextOK' /\ WaitOK'
  BY <1>1, BatchFacts DEF ContextOK, WaitOK, Users, Results, Shown
<1> QED
  BY <1>2, <1>5, <1>6, <1>7 DEF IInv

LEMMA AbortKeeps ==
    ASSUME IInv, Abort
    PROVE  IInv'
<1>1. /\ run # None /\ run' = [run EXCEPT !.aborted = TRUE]
      /\ UNCHANGED <<mode, messages, context, steering, followUp, sent, gone, waited>>
      /\ UNCHANGED <<pc, pending, more, batch, replies>>
  BY DEF Abort, queues, loop
<1>2. run \in [aborted : BOOLEAN, skip : BOOLEAN, doomed : BOOLEAN]
  BY <1>1, BatchFacts
<1>3. /\ run' \in [aborted : BOOLEAN, skip : BOOLEAN, doomed : BOOLEAN] /\ run'.skip = run.skip
      /\ run' # None
  <2>1. run' \in [aborted : BOOLEAN, skip : BOOLEAN, doomed : BOOLEAN] /\ run'.skip = run.skip
    BY <1>1, <1>2
  <2> QED
    BY <2>1, NoneAssumption
<1>4. OnceOK' /\ OrderOK'
  BY <1>1, BatchFacts, PlacesStay DEF Places
<1>5. TypeOK'
  BY <1>1, <1>3, BatchFacts DEF TypeOK, Ids
<1>6. ControlOK' /\ BatchOK'
  BY <1>1, <1>3, BatchFacts DEF ControlOK, BatchOK
<1>7. ContextOK'
  BY <1>1, BatchFacts DEF ContextOK, Users, Results, Shown
<1>8. WaitOK'
  BY <1>1, <1>3, BatchFacts DEF WaitOK
<1> QED
  BY <1>4, <1>5, <1>6, <1>7, <1>8 DEF IInv

LEMMA ClearAllQueuesKeeps ==
    ASSUME IInv, ClearAllQueues
    PROVE  IInv'
<1>1. /\ steering' = <<>> /\ followUp' = <<>> /\ waited' = 0
      /\ gone' = gone \cup ToSet(steering) \cup ToSet(followUp)
      /\ UNCHANGED <<mode, messages, context, run, sent>>
      /\ UNCHANGED <<pc, pending, more, batch, replies>>
  BY DEF ClearAllQueues, loop
<1>2. OnceOK' /\ OrderOK' /\ gone' \in SUBSET Ids
  BY <1>1, BatchFacts, QueuesCleared
<1>3. steering' \in Seq(Ids) /\ followUp' \in Seq(Ids)
  BY <1>1, EmptySeq
<1>4. TypeOK'
  BY <1>1, <1>2, <1>3, BatchFacts DEF TypeOK, Ids
<1>5. ControlOK' /\ BatchOK'
  BY <1>1, BatchFacts DEF ControlOK, BatchOK
<1>6. ContextOK'
  BY <1>1, BatchFacts DEF ContextOK, Users, Results, Shown
<1>7. WaitOK'
  BY <1>1, BatchFacts DEF WaitOK
<1> QED
  BY <1>2, <1>4, <1>5, <1>6, <1>7 DEF IInv

LEMMA ResetKeeps ==
    ASSUME IInv, Reset
    PROVE  IInv'
<1>1. /\ run = None /\ messages' = <<>> /\ steering' = <<>> /\ followUp' = <<>> /\ waited' = 0
      /\ gone' = gone \cup ToSet(steering) \cup ToSet(followUp) \cup UsersIn(messages)
      /\ UNCHANGED <<mode, context, run, sent>>
      /\ UNCHANGED <<pc, pending, more, batch, replies>>
  BY DEF Reset, loop
<1>2. OnceOK' /\ OrderOK' /\ gone' \in SUBSET Ids
  BY <1>1, BatchFacts, AllForgotten
<1>3. steering' \in Seq(Ids) /\ followUp' \in Seq(Ids) /\ messages' \in Seq(Message)
  BY <1>1, EmptySeq
<1>4. TypeOK'
  BY <1>1, <1>2, <1>3, BatchFacts DEF TypeOK, Ids
<1>5. ControlOK' /\ BatchOK'
  BY <1>1, BatchFacts DEF ControlOK, BatchOK
<1>6. pc' = "idle"
  BY <1>1, BatchFacts DEF ControlOK
<1>7. ContextOK'
  BY <1>6 DEF ContextOK, Working
<1>8. WaitOK'
  BY <1>1, <1>6 DEF WaitOK
<1> QED
  BY <1>2, <1>4, <1>5, <1>7, <1>8 DEF IInv

-----------------------------------------------------------------------------
(* The invariant holds at the start, and every step keeps it. *)

LEMMA StartsWell ==
    ASSUME Init
    PROVE  IInv
<1>1. /\ mode \in {"all", "one-at-a-time"} /\ messages = <<>> /\ context = <<>>
      /\ steering = <<>> /\ followUp = <<>> /\ run = None /\ pc = "idle" /\ pending = <<>>
      /\ more = FALSE /\ batch = NoBatch /\ replies = 0 /\ sent = <<>> /\ gone = {} /\ waited = 0
  BY DEF Init
<1>2. <<>> \in Seq(Message) /\ <<>> \in Seq(Ids) /\ <<>> \in Seq({"prompt", "steer", "followUp"})
  BY EmptySeq
<1>3. TypeOK
  BY <1>1, <1>2, NoBatchType DEF TypeOK
<1>4. ControlOK /\ ContextOK /\ WaitOK
  BY <1>1 DEF ControlOK, ContextOK, WaitOK, Working
<1>5. BatchOK
  BY <1>1, NoBatchType DEF BatchOK
<1>6. Ids = {} /\ Len(<<>>) = 0
  BY <1>1 DEF Ids
<1>7. OnceOK
  BY <1>6 DEF OnceOK
<1>8. OrderOK
  BY <1>1, <1>6 DEF OrderOK, Rising
<1> QED
  BY <1>3, <1>4, <1>5, <1>7, <1>8 DEF IInv

LEMMA LoopKeepsIInv ==
    ASSUME IInv, LoopStep
    PROVE  IInv'
<1>1. CASE InjectPrompt
  BY <1>1, InjectPromptKeeps
<1>2. CASE Poll
  BY <1>2, PollKeeps
<1>3. CASE Inject
  BY <1>3, InjectKeeps
<1>4. CASE Ask
  BY <1>4, AskKeeps
<1>5. CASE Answer
  BY <1>5, AnswerKeeps
<1>6. CASE RefuseTruncated
  BY <1>6, RefuseTruncatedKeeps
<1>7. CASE PrepareFails
  BY <1>7, PrepareFailsKeeps
<1>8. CASE Prepare
  BY <1>8, PrepareKeeps
<1>9. CASE Check
  BY <1>9, CheckKeeps
<1>10. CASE \E i \in 1..MaxCalls : i \in DOMAIN batch.out /\ Finish(i)
  BY <1>10, FinishKeeps
<1>11. CASE ShowResult
  BY <1>11, ShowResultKeeps
<1>12. CASE TurnEnd
  BY <1>12, TurnEndKeeps
<1>13. CASE PollFollowUps
  BY <1>13, PollFollowUpsKeeps
<1>14. CASE FinishRun
  BY <1>14, IdleKeeps DEF FinishRun
<1>15. CASE HandleFailure
  BY <1>15, HandleFailureKeeps
<1> QED
  BY <1>1, <1>2, <1>3, <1>4, <1>5, <1>6, <1>7, <1>8, <1>9, <1>10, <1>11, <1>12, <1>13, <1>14,
     <1>15 DEF LoopStep

LEMMA NextKeepsIInv ==
    ASSUME IInv, [Next]_vars
    PROVE  IInv'
<1>1. CASE LoopStep
  BY <1>1, LoopKeepsIInv
<1>2. CASE Throw
  BY <1>2, ThrowKeeps
<1>3. CASE FailHandler
  BY <1>3, IdleKeeps DEF FailHandler
<1>4. CASE FinishStray
  BY <1>4, Stutter DEF FinishStray
<1>5. CASE Prompt
  BY <1>5, PromptKeeps
<1>6. CASE Steer
  BY <1>6, SteerKeeps
<1>7. CASE FollowUp
  BY <1>7, FollowUpKeeps
<1>8. CASE ContinueQueued
  BY <1>8, ContinueQueuedKeeps
<1>9. CASE Continue
  BY <1>9, ContinueKeeps
<1>10. CASE Abort
  BY <1>10, AbortKeeps
<1>11. CASE ClearAllQueues
  BY <1>11, ClearAllQueuesKeeps
<1>12. CASE Reset
  BY <1>12, ResetKeeps
<1>13. CASE UNCHANGED vars
  BY <1>13, Stutter DEF vars
<1> QED
  BY <1>1, <1>2, <1>3, <1>4, <1>5, <1>6, <1>7, <1>8, <1>9, <1>10, <1>11, <1>12, <1>13 DEF Next

(* The messages of the user, the transcript, the run's copy of it and the batch
   of tool calls fit together in every state (agent.ts, agent-loop.ts). *)
THEOREM AgentInvariant == Spec => []IInv
<1>1. Init => IInv
  BY StartsWell
<1>2. IInv /\ [Next]_vars => IInv'
  BY NextKeepsIInv
<1> QED
  BY <1>1, <1>2, PTL DEF Spec

(* No message of the user is lost without a trace, doubled or overtaken by a
   later one of its kind, and the model is asked what listeners were told:
   agent.ts PendingMessageQueue and processEvents, the polls of agent-loop.ts. *)
THEOREM MessagesAreKept == Spec => []EachMessageOnce
<1>1. IInv => EachMessageOnce
  <2> SUFFICES ASSUME IInv PROVE EachMessageOnce
    OBVIOUS
  <2>1. DOMAIN sent = Ids /\ DOMAIN messages = 1..Len(messages)
    BY BatchFacts, LenProperties DEF TypeOK, Ids
  <2>2. \A m \in Ids : Count(steering, m) + Count(followUp, m) + Count(pending, m) + Cardinality(At(m))
                          + (IF m \in gone THEN 1 ELSE 0) = 1
    BY BatchFacts DEF OnceOK, Gone
  <2>3. ASSUME NEW m \in Ids, NEW n \in Ids, m < n, sent[m] = sent[n],
               NEW a \in At(m), NEW b \in At(n)
        PROVE  a < b
    <3>1. /\ a \in 1..Len(messages) /\ messages[a].role = "user" /\ messages[a].id = m
          /\ b \in 1..Len(messages) /\ messages[b].role = "user" /\ messages[b].id = n
      BY <2>1 DEF At
    <3>2. ~(b < a)
      <4>1. b < a => n < m
        BY <2>3, <3>1, BatchFacts DEF OrderOK
      <4> QED
        BY <2>3, <4>1 DEF Ids
    <3>3. a # b
      BY <2>3, <3>1 DEF Ids
    <3> QED
      BY <3>1, <3>2, <3>3
  <2>4. pc \in {"ask", "answer"} => context = messages
    BY BatchFacts DEF ContextOK
  <2> QED
    BY <2>1, <2>2, <2>3, <2>4 DEF EachMessageOnce
<1> QED
  BY <1>1, AgentInvariant, PTL

(* A steering message waits for one turn at most: the queue is polled between
   two requests (agent-loop.ts getSteeringMessages, agent.ts continue). *)
THEOREM SteeringIsHeardNextTurn == Spec => []SteeringWaitsOneTurn
<1>1. IInv => SteeringWaitsOneTurn
  BY BatchFacts DEF WaitOK, SteeringWaitsOneTurn
<1> QED
  BY <1>1, AgentInvariant, PTL

-----------------------------------------------------------------------------
(* Induction over sets of numbers *)

NatOrder == {ss \in Nat \X Nat : ss[1] < ss[2]}

LEMMA NatOrderWellFounded == IsWellFoundedOn(NatOrder, Nat)
<1>1. OpToRel(<, Nat) = NatOrder
  BY DEF OpToRel, NatOrder
<1> QED
  BY <1>1, NatLessThanWellFounded

(* A set of numbers that is not empty has a least one. *)
LEMMA LeastNumber ==
    ASSUME NEW T \in SUBSET Nat, T # {}
    PROVE  \E x \in T : \A y \in T : x <= y
<1>1. PICK x \in T : \A y \in T : ~(<<y, x>> \in NatOrder)
  BY NatOrderWellFounded, WFMin
<1>2. \A m, n \in Nat : m < n => <<m, n>> \in NatOrder
  BY DEF NatOrder
<1>3. ASSUME NEW y \in T
      PROVE  x <= y
  <2>1. x \in Nat /\ y \in Nat /\ ~(y < x)
    BY <1>1, <1>2
  <2> QED
    BY <2>1
<1> QED
  BY <1>1, <1>3

(* A set with 0 and with the successor of each of its numbers has all of them. *)
LEMMA SetInduction ==
    ASSUME NEW T, 0 \in T, \A n \in Nat : n \in T => n + 1 \in T
    PROVE  Nat \subseteq T
<1> DEFINE B == Nat \ T
<1> SUFFICES ASSUME B # {} PROVE FALSE
  OBVIOUS
<1>1. PICK x \in B : \A y \in B : x <= y
  BY LeastNumber
<1>2. x - 1 \in Nat /\ x - 1 \notin B /\ x - 1 + 1 = x
  BY <1>1
<1> QED
  BY <1>2

-----------------------------------------------------------------------------
(* The folds of the transcript satisfy their recursion *)

LEMMA MaxOfPrefix ==
    ASSUME NEW n \in Nat, NEW s \in SUBSET (1..n + 1), n + 1 \in s
    PROVE  Max(s) = n + 1
<1> DEFINE P(x) == x \in s /\ \A y \in s : x >= y
           top == Max(s)
<1>1. P(n + 1)
  OBVIOUS
<1>2. P(CHOOSE x : P(x))
  BY <1>1, Zenon
<1>3. Max(s) = CHOOSE x : P(x)
  BY Zenon DEF Max
<1>4. top \in 1..n + 1 /\ top >= n + 1
  BY <1>2, <1>3
<1> HIDE DEF top
<1>5. top = n + 1
  BY <1>4
<1> QED
  BY <1>5 DEF top

(* One step of each of its folds: of the results that a reply lacks (arg is the state
   of the transformation), and of the transformation. *)
Apply(op, arg, x, m) ==
    CASE op = "fill" -> Fill(arg, x, m)
      [] op = "transform" -> TransformOne(x, m)

(* The function that FoldLeft takes its result from, for n elements. *)
Step(f, op, arg, base, ms, s) == IF s = {} THEN base ELSE Apply(op, arg, f[s \ {Max(s)}], ms[Max(s)])
Iterates(f, op, arg, base, ms, n) == f = [s \in SUBSET (1..n) |-> Step(f, op, arg, base, ms, s)]

(* There is such a function, for any number of elements. *)
LEMMA IterationExists ==
    ASSUME NEW op, NEW arg, NEW base, NEW ms, NEW n \in Nat
    PROVE  \E f : Iterates(f, op, arg, base, ms, n)
<1> DEFINE T == {k \in Nat : \E f : Iterates(f, op, arg, base, ms, k)}
<1>1. 0 \in T
  <2> DEFINE f == [s \in {{}} |-> base]
  <2>1. SUBSET (1..0) = {{}}
    OBVIOUS
  <2>2. Iterates(f, op, arg, base, ms, 0)
    BY <2>1 DEF Iterates, Step
  <2> QED
    BY <2>2
<1>2. ASSUME NEW k \in Nat, k \in T PROVE k + 1 \in T
  <2>1. PICK f : Iterates(f, op, arg, base, ms, k)
    BY <1>2
  <2> DEFINE h == [s \in SUBSET (1..k + 1) |-> IF s \in SUBSET (1..k) THEN f[s] ELSE Apply(op, arg, f[s \ {k + 1}], ms[k + 1])]
  <2>2. ASSUME NEW s \in SUBSET (1..k + 1) PROVE h[s] = Step(h, op, arg, base, ms, s)
    <3>1. CASE s \in SUBSET (1..k)
      <4>1. h[s] = f[s] /\ f[s] = Step(f, op, arg, base, ms, s)
        BY <2>1, <3>1 DEF Iterates
      <4>2. s \ {Max(s)} \in SUBSET (1..k) /\ s \ {Max(s)} \in SUBSET (1..k + 1)
        BY <3>1
      <4>3. h[s \ {Max(s)}] = f[s \ {Max(s)}]
        BY <4>2
      <4> HIDE DEF h
      <4> QED
        BY <4>1, <4>3 DEF Step
    <3>2. CASE s \notin SUBSET (1..k)
      <4>1. k + 1 \in s
        BY <3>2
      <4>2. Max(s) = k + 1
        BY <4>1, MaxOfPrefix
      <4>3. s \ {k + 1} \in SUBSET (1..k) /\ s \ {k + 1} \in SUBSET (1..k + 1)
        OBVIOUS
      <4>4. h[s] = Apply(op, arg, f[s \ {k + 1}], ms[k + 1]) /\ h[s \ {k + 1}] = f[s \ {k + 1}]
        BY <3>2, <4>3
      <4> HIDE DEF h
      <4>5. s # {}
        BY <4>1
      <4> QED
        BY <4>2, <4>4, <4>5 DEF Step
    <3> QED
      BY <3>1, <3>2
  <2>3. h = [s \in SUBSET (1..k + 1) |-> h[s]]
    OBVIOUS
  <2> HIDE DEF h
  <2>4. Iterates(h, op, arg, base, ms, k + 1)
    BY <2>2, <2>3 DEF Iterates
  <2>5. k + 1 \in Nat
    OBVIOUS
  <2> QED
    BY <2>4, <2>5
<1> HIDE DEF T
<1>3. n \in T
  BY <1>1, <1>2, SetInduction
<1> QED
  BY <1>3 DEF T


FoldValue(op, arg, base, ms, n) == (CHOOSE f : Iterates(f, op, arg, base, ms, n))[1..n]

(* A fold and its values on the prefixes. *)
Folds(g, op, arg, base, ms, n) ==
    g[0] = base /\ \A k \in Nat : k < n => g[k + 1] = Apply(op, arg, g[k], ms[k + 1])

LEMMA FoldHasValues ==
    ASSUME NEW op, NEW arg, NEW base, NEW ms, NEW n \in Nat
    PROVE  \E g : Folds(g, op, arg, base, ms, n)
                   /\ FoldValue(op, arg, base, ms, n) = g[n]
<1> DEFINE f == CHOOSE f : Iterates(f, op, arg, base, ms, n)
           g == [k \in Nat |-> f[1..k]]
<1>1. Iterates(f, op, arg, base, ms, n)
  BY IterationExists, Zenon
<1> HIDE DEF f
<1>2. g[0] = base
  <2>1. 1..0 = {} /\ {} \in SUBSET (1..n)
    OBVIOUS
  <2> QED
    BY <1>1, <2>1 DEF Iterates, Step
<1>3. ASSUME NEW k \in Nat, k < n PROVE g[k + 1] = Apply(op, arg, g[k], ms[k + 1])
  <2>1. 1..k + 1 \in SUBSET (1..n) /\ (1..k + 1) \ {k + 1} = 1..k /\ 1..k + 1 # {}
    BY <1>3
  <2>2. Max(1..k + 1) = k + 1
    BY MaxOfPrefix
  <2>3. f[1..k + 1] = Step(f, op, arg, base, ms, 1..k + 1)
    BY <1>1, <2>1 DEF Iterates
  <2>4. f[1..k + 1] = Apply(op, arg, f[1..k], ms[k + 1])
    BY <2>1, <2>2, <2>3 DEF Step
  <2> QED
    BY <2>4
<1>4. g[n] = f[1..n]
  OBVIOUS
<1> HIDE DEF g
<1>5. Folds(g, op, arg, base, ms, n)
  BY <1>2, <1>3 DEF Folds
<1> QED
  BY <1>4, <1>5 DEF f, FoldValue

LEMMA FillFolds ==
    ASSUME NEW s, NEW n \in Nat, s.pending.calls = n
    PROVE  \E g : Folds(g, "fill", s, <<>>, [i \in 1..n |-> i], n) /\ Synthetic(s) = g[n]
<1> DEFINE ids == [i \in 1..n |-> i]
<1>1. DOMAIN ids = 1..n
  OBVIOUS
<1>2. Synthetic(s) = FoldLeft(LAMBDA results, i : Fill(s, results, i), <<>>, ids)
  BY DEF Synthetic
<1> HIDE DEF ids
<1>3. Synthetic(s) = (CHOOSE f : f = [t \in SUBSET DOMAIN ids |-> IF t = {} THEN <<>>
                                ELSE Fill(s, f[t \ {Max(t)}], ids[Max(t)])])[DOMAIN ids]
  BY <1>2 DEF FoldLeft, MapThenFoldSet
<1>4. Synthetic(s) = FoldValue("fill", s, <<>>, ids, n)
  BY <1>1, <1>3 DEF FoldValue, Iterates, Step, Apply
<1>5. \E g : Folds(g, "fill", s, <<>>, ids, n) /\ FoldValue("fill", s, <<>>, ids, n) = g[n]
  BY FoldHasValues
<1>6. \E g : Folds(g, "fill", s, <<>>, ids, n) /\ Synthetic(s) = g[n]
  BY <1>4, <1>5
<1> QED
  BY <1>6 DEF ids

Nothing == [sent |-> <<>>, pending |-> NothingPending, answered |-> {}]
LEMMA TransformFolds ==
    ASSUME NEW msgs, NEW n \in Nat, DOMAIN msgs = 1..n
    PROVE  \E g : Folds(g, "transform", 0, Nothing, msgs, n) /\ TransformMessages(msgs) = Settled(g[n]).sent
<1>1. TransformMessages(msgs) = Settled(FoldLeft(TransformOne, Nothing, msgs)).sent
  BY DEF TransformMessages, Nothing
<1>2. FoldLeft(TransformOne, Nothing, msgs)
        = (CHOOSE f : f = [s \in SUBSET DOMAIN msgs |-> IF s = {} THEN Nothing
                                ELSE TransformOne(f[s \ {Max(s)}], msgs[Max(s)])])[DOMAIN msgs]
  BY DEF FoldLeft, MapThenFoldSet
<1>3. FoldLeft(TransformOne, Nothing, msgs) = FoldValue("transform", 0, Nothing, msgs, n)
  BY <1>2 DEF FoldValue, Iterates, Step, Apply
<1>4. \E g : Folds(g, "transform", 0, Nothing, msgs, n) /\ FoldValue("transform", 0, Nothing, msgs, n) = g[n]
  BY FoldHasValues
<1> QED
  BY <1>1, <1>3, <1>4

-----------------------------------------------------------------------------
(* Results behind their reply *)

(* The messages of a conversation; users name theirs from U. *)
Said(U) ==
    [role : {"user"}, id : U]
    \cup [role : {"assistant"}, n : Nat, calls : Nat, broken : BOOLEAN]
    \cup [role : {"toolResult"}, call : Nat \X Nat]

LEMMA Fields ==
    /\ \A m : User(m).role = "user"
    /\ \A n, c, b : /\ Reply(n, c, b).role = "assistant" /\ Reply(n, c, b).broken = b
                    /\ Reply(n, c, b).n = n /\ Reply(n, c, b).calls = c
    /\ \A n, c : /\ Reply(n, c, FALSE).role = "assistant" /\ Reply(n, c, FALSE).broken = FALSE
                 /\ Reply(n, c, FALSE).n = n /\ Reply(n, c, FALSE).calls = c
    /\ \A n, i : Result(n, i).role = "toolResult" /\ Result(n, i).call = <<n, i>>
BY DEF User, Reply, Result

LEMMA SaidTypes ==
    ASSUME NEW U
    PROVE  /\ \A m \in U : User(m) \in Said(U)
           /\ \A n \in Nat, c \in Nat, b \in BOOLEAN : Reply(n, c, b) \in Said(U)
           /\ \A n \in Nat, c \in Nat : Reply(n, c, FALSE) \in Said(U)
           /\ \A n \in Nat, i \in Nat : Result(n, i) \in Said(U)
BY DEF User, Reply, Result, Said

LEMMA SaidRoles ==
    ASSUME NEW U, NEW m \in Said(U)
    PROVE  /\ m.role \in {"user", "assistant", "toolResult"}
           /\ m.role = "assistant" => /\ m.n \in Nat /\ m.calls \in Nat /\ m.broken \in BOOLEAN
                                      /\ m = Reply(m.n, m.calls, m.broken)
           /\ m.role = "toolResult" => m.call \in Nat \X Nat
BY DEF Said, Reply

(* A reply with its first k results, and the results it then lacks. *)
Block(n, c, k) == [i \in 1..k + 1 |-> IF i = 1 THEN Reply(n, c, FALSE) ELSE Result(n, i - 1)]
Rest(n, k, c) == [i \in 1..c - k |-> Result(n, k + i)]

LEMMA BlockType ==
    ASSUME NEW U, NEW n \in Nat, NEW c \in Nat, NEW k \in Nat
    PROVE  /\ Block(n, c, k) \in Seq(Said(U)) /\ Len(Block(n, c, k)) = k + 1
           /\ Block(n, c, k)[1] = Reply(n, c, FALSE)
           /\ \A i \in 1..k : Block(n, c, k)[i + 1] = Result(n, i)
<1> DEFINE b == Block(n, c, k)
<1>1. DOMAIN b = 1..k + 1 /\ b = [i \in 1..k + 1 |-> b[i]]
      /\ \A i \in 1..k + 1 : b[i] = IF i = 1 THEN Reply(n, c, FALSE) ELSE Result(n, i - 1)
  BY DEF Block
<1> HIDE DEF b
<1>2. ASSUME NEW i \in 1..k + 1 PROVE b[i] \in Said(U)
  <2>1. Reply(n, c, FALSE) \in Said(U) /\ \A j \in Nat : Result(n, j) \in Said(U)
    BY SaidTypes
  <2>2. b[i] = IF i = 1 THEN Reply(n, c, FALSE) ELSE Result(n, i - 1)
    BY <1>1
  <2>3. i # 1 => i - 1 \in Nat
    OBVIOUS
  <2> QED
    BY <2>1, <2>2, <2>3
<1>3. b \in Seq(Said(U)) /\ Len(b) = k + 1
  BY <1>1, <1>2
<1>4. \A i \in 1..k : b[i + 1] = Result(n, i)
  <2> SUFFICES ASSUME NEW i \in 1..k PROVE b[i + 1] = Result(n, i)
    OBVIOUS
  <2>1. i + 1 \in 1..k + 1 /\ i + 1 # 1 /\ (i + 1) - 1 = i
    OBVIOUS
  <2>2. b[i + 1] = IF i + 1 = 1 THEN Reply(n, c, FALSE) ELSE Result(n, (i + 1) - 1)
    BY <1>1, <2>1
  <2> QED
    BY <2>1, <2>2
<1>5. b[1] = Reply(n, c, FALSE)
  <2>1. 1 \in 1..k + 1
    OBVIOUS
  <2> QED
    BY <1>1, <2>1
<1> QED
  BY <1>3, <1>4, <1>5 DEF b

LEMMA RestType ==
    ASSUME NEW U, NEW n \in Nat, NEW c \in Nat, NEW k \in 0..c
    PROVE  /\ Rest(n, k, c) \in Seq(Said(U)) /\ Len(Rest(n, k, c)) = c - k
           /\ \A i \in 1..c - k : Rest(n, k, c)[i] = Result(n, k + i)
<1> DEFINE m == c - k
           r == Rest(n, k, c)
<1>1. m \in Nat /\ \A i \in 1..m : k + i \in Nat
  OBVIOUS
<1> HIDE DEF m
<1>2. r = [i \in 1..m |-> Result(n, k + i)]
  BY DEF Rest, m
<1>3. \A i \in 1..m : Result(n, k + i) \in Said(U)
  BY <1>1, SaidTypes
<1> HIDE DEF r
<1>4. r \in Seq(Said(U)) /\ Len(r) = m /\ \A i \in 1..m : r[i] = Result(n, k + i)
  BY <1>1, <1>2, <1>3
<1> QED
  BY <1>4 DEF r, m

(* One more result of a reply. *)
LEMMA BlockGrows ==
    ASSUME NEW n \in Nat, NEW c \in Nat, NEW k \in Nat
    PROVE  Append(Block(n, c, k), Result(n, k + 1)) = Block(n, c, k + 1)
<1> DEFINE b == Block(n, c, k)
           d == Block(n, c, k + 1)
           x == Result(n, k + 1)
<1>1. b \in Seq(Said({})) /\ Len(b) = k + 1 /\ b[1] = Reply(n, c, FALSE)
      /\ \A i \in 1..k : b[i + 1] = Result(n, i)
  BY BlockType
<1>2. d \in Seq(Said({})) /\ Len(d) = k + 2 /\ d[1] = Reply(n, c, FALSE)
      /\ \A i \in 1..k + 1 : d[i + 1] = Result(n, i)
  <2> DEFINE l == k + 1
  <2>1. l \in Nat /\ l + 1 = k + 2
    OBVIOUS
  <2> HIDE DEF l
  <2>2. Block(n, c, l) \in Seq(Said({})) /\ Len(Block(n, c, l)) = l + 1 /\ Block(n, c, l)[1] = Reply(n, c, FALSE)
        /\ \A i \in 1..l : Block(n, c, l)[i + 1] = Result(n, i)
    BY <2>1, BlockType
  <2> QED
    BY <2>1, <2>2 DEF l
<1>3. x \in Said({}) /\ \A i \in 1..k + 1 : i = k + 1 => Result(n, i) = x
  <2>1. k + 1 \in Nat
    OBVIOUS
  <2> QED
    BY <2>1, SaidTypes
<1> HIDE DEF b, d, x
<1>4. /\ Append(b, x) \in Seq(Said({})) /\ Len(Append(b, x)) = k + 2
      /\ Append(b, x)[k + 2] = x /\ \A i \in 1..k + 1 : Append(b, x)[i] = b[i]
  BY <1>1, <1>3
<1>5. ASSUME NEW i \in 1..k + 2 PROVE Append(b, x)[i] = d[i]
  <2>1. CASE i = 1
    <3>1. 1 \in 1..k + 1 /\ 1 <= k + 1
      BY <1>1
    <3> QED
      BY <1>1, <1>2, <1>4, <2>1, <3>1
  <2>2. CASE i = k + 2
    <3>1. k + 1 \in 1..k + 1 /\ (k + 1) + 1 = k + 2
      OBVIOUS
    <3>2. d[(k + 1) + 1] = Result(n, k + 1) /\ Result(n, k + 1) = x
      BY <1>2, <1>3, <3>1
    <3> QED
      BY <1>4, <2>2, <3>1, <3>2
  <2>3. CASE i # 1 /\ i # k + 2
    <3>1. i - 1 \in 1..k /\ i \in 1..k + 1 /\ i - 1 \in 1..k + 1 /\ (i - 1) + 1 = i
      BY <2>3
    <3>2. b[(i - 1) + 1] = Result(n, i - 1) /\ d[(i - 1) + 1] = Result(n, i - 1)
      BY <1>1, <1>2, <3>1
    <3> QED
      BY <1>4, <3>1, <3>2
  <2> QED
    BY <2>1, <2>2, <2>3
<1>6. Append(b, x) = d
  BY <1>2, <1>4, <1>5, SeqEqual
<1> QED
  BY <1>6 DEF b, d, x

LEMMA BlockCompleted ==
    ASSUME NEW n \in Nat, NEW c \in Nat, NEW k \in 0..c
    PROVE  Block(n, c, k) \o Rest(n, k, c) = Block(n, c, c)
<1> DEFINE b == Block(n, c, k)
           d == Block(n, c, c)
           r == Rest(n, k, c)
<1>0. k \in Nat /\ k <= c
  OBVIOUS
<1>1. b \in Seq(Said({})) /\ Len(b) = k + 1 /\ b[1] = Reply(n, c, FALSE)
      /\ \A i \in 1..k : b[i + 1] = Result(n, i)
  BY <1>0, BlockType
<1>2. d \in Seq(Said({})) /\ Len(d) = c + 1 /\ d[1] = Reply(n, c, FALSE)
      /\ \A i \in 1..c : d[i + 1] = Result(n, i)
  BY BlockType
<1>3. r \in Seq(Said({})) /\ Len(r) = c - k /\ \A i \in 1..c - k : r[i] = Result(n, k + i)
  BY RestType
<1> HIDE DEF b, d, r
<1>4. /\ b \o r \in Seq(Said({})) /\ Len(b \o r) = c + 1
      /\ \A i \in 1..c + 1 : (b \o r)[i] = IF i <= k + 1 THEN b[i] ELSE r[i - (k + 1)]
  <2>1. /\ b \o r \in Seq(Said({})) /\ Len(b \o r) = Len(b) + Len(r)
        /\ \A i \in 1..Len(b) + Len(r) : (b \o r)[i] = IF i <= Len(b) THEN b[i] ELSE r[i - Len(b)]
    BY <1>1, <1>3, ConcatProperties
  <2>2. Len(b) = k + 1 /\ Len(b) + Len(r) = c + 1
    BY <1>0, <1>1, <1>3
  <2> QED
    BY <2>1, <2>2
<1>5. ASSUME NEW i \in 1..c + 1 PROVE (b \o r)[i] = d[i]
  <2>1. CASE i = 1
    <3>1. 1 \in 1..c + 1 /\ 1 <= k + 1
      BY <1>0
    <3>2. (b \o r)[1] = b[1]
      BY <1>4, <3>1
    <3> QED
      BY <1>1, <1>2, <2>1, <3>2
  <2>2. CASE i # 1 /\ i <= k + 1
    <3>1. i - 1 \in 1..k /\ i - 1 \in 1..c /\ (i - 1) + 1 = i
      BY <1>0, <2>2
    <3>2. b[(i - 1) + 1] = Result(n, i - 1) /\ d[(i - 1) + 1] = Result(n, i - 1)
      BY <1>1, <1>2, <3>1
    <3> QED
      BY <1>4, <2>2, <3>1, <3>2
  <2>3. CASE ~(i <= k + 1)
    <3>1. i - (k + 1) \in 1..c - k /\ k + (i - (k + 1)) = i - 1 /\ i - 1 \in 1..c /\ (i - 1) + 1 = i
      BY <1>0, <2>3
    <3>2. (b \o r)[i] = r[i - (k + 1)] /\ r[i - (k + 1)] = Result(n, k + (i - (k + 1)))
      BY <1>3, <1>4, <2>3, <3>1
    <3>3. d[(i - 1) + 1] = Result(n, i - 1)
      BY <1>2, <3>1
    <3> QED
      BY <3>1, <3>2, <3>3
  <2> QED
    BY <2>1, <2>2, <2>3
<1>6. b \o r = d
  BY <1>2, <1>4, <1>5, SeqEqual
<1> QED
  BY <1>6 DEF b, d, r

(* One more of the results that a reply lacks. *)
LEMMA RestGrows ==
    ASSUME NEW n \in Nat, NEW j \in Nat, NEW k \in 0..j
    PROVE  Append(Rest(n, k, j), Result(n, j + 1)) = Rest(n, k, j + 1)
<1> DEFINE m == j - k
<1>1. PICK l \in Nat : l = j + 1
  OBVIOUS
<1> DEFINE r == Rest(n, k, j)
           d == Rest(n, k, l)
           x == Result(n, l)
<1>2. m \in Nat /\ k \in Nat /\ k \in 0..l /\ l - k = m + 1 /\ k + (m + 1) = l
  BY <1>1
<1>3. r \in Seq(Said({})) /\ Len(r) = m /\ \A i \in 1..m : r[i] = Result(n, k + i)
  BY RestType
<1>4. d \in Seq(Said({})) /\ Len(d) = l - k /\ \A i \in 1..l - k : d[i] = Result(n, k + i)
  <2>1. k \in 0..l
    BY <1>2
  <2> QED
    BY <2>1, RestType
<1>5. x \in Said({})
  BY SaidTypes
<1> HIDE DEF m, r, d
<1>6. Len(d) = m + 1 /\ \A i \in 1..m + 1 : d[i] = Result(n, k + i)
  BY <1>2, <1>4
<1>7. d[m + 1] = x
  <2>1. m + 1 \in 1..m + 1
    BY <1>2
  <2> QED
    BY <1>2, <1>6, <2>1
<1> HIDE DEF x
<1>8. /\ Append(r, x) \in Seq(Said({})) /\ Len(Append(r, x)) = m + 1
      /\ Append(r, x)[m + 1] = x /\ \A i \in 1..m : Append(r, x)[i] = r[i]
  BY <1>3, <1>5
<1>9. ASSUME NEW i \in 1..m + 1 PROVE Append(r, x)[i] = d[i]
  <2>1. CASE i = m + 1
    BY <1>7, <1>8, <2>1
  <2>2. CASE i # m + 1
    <3>1. i \in 1..m
      BY <1>2, <2>2
    <3> QED
      BY <1>3, <1>6, <1>8, <3>1
  <2> QED
    BY <2>1, <2>2
<1>10. Append(r, x) = d
  BY <1>4, <1>6, <1>8, <1>9, SeqEqual
<1> QED
  BY <1>1, <1>10 DEF r, d, x

(* The same behind what was said before. *)
LEMMA RestOfABlock ==
    ASSUME NEW U, NEW t \in Seq(Said(U)), NEW n \in Nat, NEW c \in Nat, NEW k \in 0..c
    PROVE  (t \o Block(n, c, k)) \o Rest(n, k, c) = t \o Block(n, c, c)
<1> DEFINE S == Said(U)
           b == Block(n, c, k)
           r == Rest(n, k, c)
<1>1. t \in Seq(S) /\ b \in Seq(S) /\ r \in Seq(S)
  <2>1. k \in Nat
    OBVIOUS
  <2> QED
    BY <2>1, BlockType, RestType
<1>2. b \o r = Block(n, c, c)
  BY BlockCompleted
<1> HIDE DEF S, b, r
<1>3. (t \o b) \o r = t \o (b \o r)
  BY <1>1, ConcatAssociative
<1> QED
  BY <1>2, <1>3 DEF b, r

(* A reply whose first k calls are answered is given the results of the others. *)
LEMMA SyntheticValue ==
    ASSUME NEW n \in Nat, NEW c \in Nat, NEW k \in 0..c, NEW s,
           s.pending.n = n, s.pending.calls = c, s.answered = {<<n, i>> : i \in 1..k}
    PROVE  Synthetic(s) = Rest(n, k, c)
<1>1. PICK g : Folds(g, "fill", s, <<>>, [i \in 1..c |-> i], c) /\ Synthetic(s) = g[c]
  BY FillFolds
<1> DEFINE T == {j \in Nat : j <= c => g[j] = IF j <= k THEN <<>> ELSE Rest(n, k, j)}
<1>2. 0 \in T
  BY <1>1 DEF Folds
<1>3. ASSUME NEW j \in Nat, j \in T PROVE j + 1 \in T
  <2> SUFFICES ASSUME j + 1 <= c PROVE g[j + 1] = IF j + 1 <= k THEN <<>> ELSE Rest(n, k, j + 1)
    OBVIOUS
  <2>1. j < c /\ j + 1 \in 1..c /\ g[j] = IF j <= k THEN <<>> ELSE Rest(n, k, j)
    BY <1>3
  <2>2. [i \in 1..c |-> i][j + 1] = j + 1
    BY <2>1
  <2>3. g[j + 1] = Fill(s, g[j], j + 1)
    BY <1>1, <2>1, <2>2 DEF Folds, Apply
  <2>4. CASE j + 1 <= k
    <3>1. <<n, j + 1>> \in s.answered
      BY <2>4
    <3> QED
      BY <2>1, <2>3, <2>4, <3>1 DEF Fill
  <2>5. CASE ~(j + 1 <= k)
    <3>1. <<n, j + 1>> \notin s.answered
      BY <2>5
    <3>2. g[j + 1] = Append(g[j], Result(n, j + 1))
      BY <2>3, <3>1 DEF Fill
    <3>3. g[j] = Rest(n, k, j)
      <4>1. CASE j <= k
        <5>1. j = k /\ 1..j - k = {}
          BY <2>5, <4>1
        <5>2. Rest(n, k, j) = <<>>
          BY <5>1 DEF Rest
        <5> QED
          BY <2>1, <4>1, <5>2
      <4>2. CASE ~(j <= k)
        BY <2>1, <4>2
      <4> QED
        BY <4>1, <4>2
    <3>4. k \in 0..j
      BY <2>5
    <3>5. Append(Rest(n, k, j), Result(n, j + 1)) = Rest(n, k, j + 1)
      BY <3>4, RestGrows
    <3> QED
      BY <2>5, <3>2, <3>3, <3>5
  <2> QED
    BY <2>4, <2>5
<1> HIDE DEF T
<1>4. c \in T
  BY <1>2, <1>3, SetInduction
<1>5. g[c] = IF c <= k THEN <<>> ELSE Rest(n, k, c)
  BY <1>4 DEF T
<1>6. CASE c <= k
  <2>1. 1..c - k = {}
    BY <1>6
  <2>2. Rest(n, k, c) = <<>>
    BY <2>1 DEF Rest
  <2> QED
    BY <1>1, <1>5, <1>6, <2>2
<1>7. CASE ~(c <= k)
  BY <1>1, <1>5, <1>7
<1> QED
  BY <1>6, <1>7

-----------------------------------------------------------------------------
(* What a provider accepts grows by one message or by one answered reply *)

(* What stands at a place of an acceptable conversation stays right when it grows. *)
RightAt(msgs, p) ==
    \/ msgs[p].role = "user"
    \/ /\ msgs[p].role = "assistant"
       /\ Len(msgs) >= p + msgs[p].calls
       /\ {msgs[p + k] : k \in 1..msgs[p].calls} = {Result(msgs[p].n, i) : i \in 1..msgs[p].calls}
    \/ /\ msgs[p].role = "toolResult"
       /\ \E q \in 1..(p - 1) : /\ msgs[q].role = "assistant"
                                /\ msgs[p].call \in CallsOf(msgs[q])
                                /\ p <= q + msgs[q].calls

LEMMA RightInLonger ==
    ASSUME NEW U, NEW t \in Seq(Said(U)), NEW s \in Seq(Said(U)), Len(t) <= Len(s),
           \A i \in 1..Len(t) : s[i] = t[i], NEW p \in 1..Len(t), RightAt(t, p)
    PROVE  RightAt(s, p)
<1> DEFINE m == Len(t)
           l == Len(s)
<1>1. m \in Nat /\ l \in Nat /\ m <= l /\ p \in 1..m /\ s[p] = t[p] /\ \A i \in 1..m : s[i] = t[i]
  OBVIOUS
<1>2. t[p] \in Said(U)
  OBVIOUS
<1>3. CASE t[p].role = "user"
  BY <1>1, <1>3 DEF RightAt
<1>4. CASE /\ t[p].role = "assistant" /\ m >= p + t[p].calls
           /\ {t[p + k] : k \in 1..t[p].calls} = {Result(t[p].n, i) : i \in 1..t[p].calls}
  <2> DEFINE c == t[p].calls
  <2>1. c \in Nat
    BY <1>2, <1>4, SaidRoles
  <2>2. m >= p + c
    BY <1>4
  <2> HIDE DEF c, m, l
  <2>3. \A k \in 1..c : p + k \in 1..m
    BY <1>1, <2>1, <2>2
  <2>4. \A k \in 1..c : s[p + k] = t[p + k]
    BY <1>1, <2>3
  <2>5. {s[p + k] : k \in 1..c} = {t[p + k] : k \in 1..c}
    BY <2>4
  <2>6. l >= p + c
    BY <1>1, <2>1, <2>2
  <2>7. s[p].calls = c /\ s[p].n = t[p].n /\ s[p].role = "assistant"
    BY <1>1, <1>4 DEF c
  <2>8. {t[p + k] : k \in 1..c} = {Result(t[p].n, i) : i \in 1..c}
    BY <1>4 DEF c
  <2>9. {s[p + k] : k \in 1..c} = {Result(s[p].n, i) : i \in 1..c}
    <3>1. Result(s[p].n, 0) = Result(t[p].n, 0) /\ s[p] = t[p]
      BY <1>1
    <3> QED
      BY <2>5, <2>8, <3>1
  <2> QED
    BY <2>6, <2>7, <2>9 DEF RightAt, l
<1>5. CASE /\ t[p].role = "toolResult"
           /\ \E q \in 1..(p - 1) : /\ t[q].role = "assistant" /\ t[p].call \in CallsOf(t[q])
                                    /\ p <= q + t[q].calls
  <2>1. PICK q \in 1..(p - 1) : t[q].role = "assistant" /\ t[p].call \in CallsOf(t[q]) /\ p <= q + t[q].calls
    BY <1>5
  <2>2. q \in 1..m
    <3> HIDE DEF m
    <3> QED
      BY <1>1
  <2>3. s[q] = t[q]
    BY <1>1, <2>2
  <2> QED
    BY <1>1, <1>5, <2>1, <2>3 DEF RightAt
<1> QED
  BY <1>3, <1>4, <1>5 DEF RightAt

LEMMA AcceptableAt ==
    ASSUME NEW U, NEW s \in Seq(Said(U))
    PROVE  Acceptable(s) <=> \A p \in 1..Len(s) : RightAt(s, p)
<1>1. DOMAIN s = 1..Len(s)
  OBVIOUS
<1> HIDE DEF Result, CallsOf
<1>2. Acceptable(s) <=> \A p \in DOMAIN s : RightAt(s, p)
  BY Zenon DEF Acceptable, RightAt
<1> QED
  BY <1>1, <1>2

LEMMA UserIsAcceptable ==
    ASSUME NEW U, NEW t \in Seq(Said(U)), Acceptable(t), NEW u \in Said(U), u.role = "user"
    PROVE  Acceptable(Append(t, u))
<1> DEFINE s == Append(t, u)
           m == Len(t)
<1>1. s \in Seq(Said(U)) /\ Len(s) = m + 1 /\ m \in Nat /\ s[m + 1] = u /\ \A i \in 1..m : s[i] = t[i]
  OBVIOUS
<1> HIDE DEF s
<1>2. \A p \in 1..m : RightAt(t, p)
  BY AcceptableAt
<1>3. Len(t) <= Len(s)
  BY <1>1
<1>4. ASSUME NEW p \in 1..m PROVE RightAt(s, p)
  <2>1. RightAt(t, p) /\ p \in 1..Len(t) /\ \A i \in 1..Len(t) : s[i] = t[i]
    BY <1>1, <1>2
  <2> QED
    BY <1>1, <1>3, <2>1, RightInLonger
<1>5. RightAt(s, m + 1)
  BY <1>1 DEF RightAt
<1> HIDE DEF m
<1>6. \A p \in 1..Len(s) : RightAt(s, p)
  BY <1>1, <1>4, <1>5
<1> QED
  BY <1>1, <1>6, AcceptableAt DEF s

LEMMA AnsweredIsAcceptable ==
    ASSUME NEW U, NEW t \in Seq(Said(U)), Acceptable(t), NEW n \in Nat, NEW c \in Nat
    PROVE  t \o Block(n, c, c) \in Seq(Said(U)) /\ Acceptable(t \o Block(n, c, c))
<1> DEFINE b == Block(n, c, c)
           s == t \o b
           m == Len(t)
<1>1. b \in Seq(Said(U)) /\ Len(b) = c + 1 /\ b[1] = Reply(n, c, FALSE)
      /\ \A i \in 1..c : b[i + 1] = Result(n, i)
  BY BlockType
<1> HIDE DEF b
<1>2. /\ s \in Seq(Said(U)) /\ Len(s) = m + Len(b) /\ m \in Nat
      /\ \A i \in 1..m + Len(b) : s[i] = IF i <= m THEN t[i] ELSE b[i - m]
  <2>1. /\ t \o b \in Seq(Said(U)) /\ Len(t \o b) = Len(t) + Len(b)
        /\ \A i \in 1..Len(t) + Len(b) : (t \o b)[i] = IF i <= Len(t) THEN t[i] ELSE b[i - Len(t)]
    BY <1>1, ConcatProperties
  <2>2. Len(t) \in Nat
    OBVIOUS
  <2> QED
    BY <2>1, <2>2
<1> HIDE DEF s
<1>3. Len(s) = m + (c + 1) /\ \A i \in 1..m + (c + 1) : s[i] = IF i <= m THEN t[i] ELSE b[i - m]
  BY <1>1, <1>2
<1>4. \A i \in 1..m : RightAt(t, i)
  BY AcceptableAt
<1>5. ASSUME NEW p \in 1..m PROVE RightAt(s, p)
  <2>1. m <= Len(s) /\ \A i \in 1..m : s[i] = t[i]
    <3> HIDE DEF m
    <3> QED
      BY <1>2, <1>3
  <2>2. RightAt(t, p)
    BY <1>4
  <2> QED
    BY <1>2, <2>1, <2>2, RightInLonger
<1> HIDE DEF m
<1>6. s[m + 1] = Reply(n, c, FALSE)
  <2>1. m + 1 \in 1..m + (c + 1) /\ ~(m + 1 <= m) /\ (m + 1) - m = 1
    BY <1>2
  <2> QED
    BY <1>1, <1>3, <2>1
<1>7. ASSUME NEW i \in 1..c PROVE s[(m + 1) + i] = Result(n, i)
  <2>1. (m + 1) + i \in 1..m + (c + 1) /\ ~((m + 1) + i <= m) /\ ((m + 1) + i) - m = i + 1
    BY <1>2
  <2>2. s[(m + 1) + i] = b[i + 1]
    BY <1>3, <2>1
  <2> QED
    BY <1>1, <2>2
<1>8. RightAt(s, m + 1)
  <2>1. s[m + 1].role = "assistant" /\ s[m + 1].calls = c /\ s[m + 1].n = n
    BY <1>6 DEF Reply
  <2>2. Len(s) >= (m + 1) + c
    BY <1>2, <1>3
  <2>3. {s[(m + 1) + k] : k \in 1..c} = {Result(n, i) : i \in 1..c}
    BY <1>7
  <2> QED
    BY <2>1, <2>2, <2>3 DEF RightAt
<1>9. ASSUME NEW i \in 1..c PROVE RightAt(s, (m + 1) + i)
  <2>1. s[(m + 1) + i].role = "toolResult" /\ s[(m + 1) + i].call = <<n, i>>
    BY <1>7, Fields
  <2>2. s[m + 1].role = "assistant" /\ s[m + 1].calls = c /\ s[m + 1].n = n
    BY <1>6 DEF Reply
  <2>3. <<n, i>> \in CallsOf(s[m + 1])
    BY <2>2 DEF CallsOf
  <2>4. m + 1 \in 1..((m + 1) + i) - 1 /\ (m + 1) + i <= (m + 1) + c
    BY <1>2
  <2> QED
    BY <2>1, <2>2, <2>3, <2>4 DEF RightAt
<1>10. ASSUME NEW p \in 1..Len(s) PROVE RightAt(s, p)
  <2>1. CASE p <= m
    <3>1. p \in 1..m
      BY <1>2, <2>1
    <3> QED
      BY <1>5, <3>1
  <2>2. CASE p = m + 1
    BY <1>8, <2>2
  <2>3. CASE p > m + 1
    <3>1. PICK i \in 1..c : p = (m + 1) + i
      <4>1. p - (m + 1) \in 1..c /\ p = (m + 1) + (p - (m + 1))
        BY <1>2, <1>3, <2>3
      <4> QED
        BY <4>1
    <3> QED
      BY <1>9, <3>1
  <2> QED
    BY <1>2, <2>1, <2>2, <2>3
<1>11. Acceptable(s)
  BY <1>2, <1>10, AcceptableAt
<1> QED
  BY <1>2, <1>11 DEF s, b

-----------------------------------------------------------------------------
(* What is sent of a conversation in which results follow their reply *)

(* k results stand right behind the reply at q. *)
Behind(msgs, q, n, c, k) ==
    msgs[q] = Reply(n, c, FALSE) /\ k <= c /\ \A i \in 1..k : msgs[q + i] = Result(n, i)
ResultsFollow(msgs) ==
    \A p \in 1..Len(msgs) : msgs[p].role = "toolResult" =>
        \E q \in 1..(p - 1), n \in Nat, c \in Nat : Behind(msgs, q, n, c, p - q)

(* The state of the transformation behind a reply that may lack results, and elsewhere. *)
Awaiting(s, msgs, j, U, q, n, c, t) ==
    /\ Behind(msgs, q, n, c, j - q)
    /\ s = [sent |-> t \o Block(n, c, j - q), pending |-> [n |-> n, calls |-> c],
            answered |-> {<<n, i>> : i \in 1..j - q}]
    /\ Acceptable(t)
Awaits(s, msgs, j, U) ==
    \E q \in 1..j, n \in Nat, c \in Nat, t \in Seq(Said(U)) : Awaiting(s, msgs, j, U, q, n, c, t)
Rests(s, msgs, j, U) ==
    /\ j > 0 => msgs[j].role # "toolResult" /\ ~(msgs[j].role = "assistant" /\ ~msgs[j].broken)
    /\ \E t \in Seq(Said(U)) :
          /\ s = [sent |-> t, pending |-> NothingPending, answered |-> {}]
          /\ Acceptable(t)
Sending(s, msgs, j, U) == Awaits(s, msgs, j, U) \/ Rests(s, msgs, j, U)

(* Whatever comes next, what is settled before it is acceptable. *)
LEMMA SettledValue ==
    ASSUME NEW U, NEW msgs, NEW j \in Nat, NEW s, Sending(s, msgs, j, U)
    PROVE  \E x \in Seq(Said(U)) :
               /\ Settled(s) = [sent |-> x, pending |-> NothingPending, answered |-> {}]
               /\ Acceptable(x)
<1>1. CASE Awaits(s, msgs, j, U)
  <2>1. PICK q \in 1..j, n \in Nat, c \in Nat, t \in Seq(Said(U)) : Awaiting(s, msgs, j, U, q, n, c, t)
    BY <1>1 DEF Awaits
  <2>2. PICK k \in Nat : k = j - q
    OBVIOUS
  <2>3. k <= c /\ k \in 0..c
    BY <2>1, <2>2 DEF Awaiting, Behind
  <2>4. /\ s.sent = t \o Block(n, c, k) /\ s.pending.n = n /\ s.pending.calls = c
        /\ s.answered = {<<n, i>> : i \in 1..k} /\ Acceptable(t)
    BY <2>1, <2>2 DEF Awaiting
  <2>5. Synthetic(s) = Rest(n, k, c)
    BY <2>3, <2>4, SyntheticValue
  <2>6. (t \o Block(n, c, k)) \o Rest(n, k, c) = t \o Block(n, c, c)
    BY <2>3, RestOfABlock
  <2>7. s.sent \o Synthetic(s) = t \o Block(n, c, c)
    BY <2>4, <2>5, <2>6
  <2>8. t \o Block(n, c, c) \in Seq(Said(U)) /\ Acceptable(t \o Block(n, c, c))
    BY <2>4, AnsweredIsAcceptable
  <2> QED
    BY <2>7, <2>8 DEF Settled
<1>2. CASE Rests(s, msgs, j, U)
  <2>1. PICK t \in Seq(Said(U)) : s = [sent |-> t, pending |-> NothingPending, answered |-> {}] /\ Acceptable(t)
    BY <1>2 DEF Rests
  <2>2. s.pending.n = 0 /\ s.pending.calls = 0 /\ s.answered = {} /\ s.sent = t
    BY <2>1 DEF NothingPending
  <2>3. s.answered = {<<0, i>> : i \in 1..0}
    BY <2>2
  <2>4. Synthetic(s) = Rest(0, 0, 0)
    <3>1. 0 \in Nat /\ 0 \in 0..0
      OBVIOUS
    <3> QED
      BY <2>2, <2>3, <3>1, SyntheticValue
  <2>5. Rest(0, 0, 0) = <<>>
    BY DEF Rest
  <2>6. t \o <<>> = t
    BY ConcatEmptySeq
  <2> QED
    BY <2>1, <2>2, <2>4, <2>5, <2>6 DEF Settled
<1> QED
  BY <1>1, <1>2 DEF Sending

(* A result that comes next is the next one of the reply before it. *)
LEMMA NextResult ==
    ASSUME NEW U, NEW msgs \in Seq(Said(U)), ResultsFollow(msgs), NEW j \in Nat, j + 1 <= Len(msgs),
           NEW s, Sending(s, msgs, j, U), msgs[j + 1].role = "toolResult"
    PROVE  \E q \in 1..j, n \in Nat, c \in Nat, k \in Nat, t \in Seq(Said(U)) :
               /\ k = j - q /\ Behind(msgs, q, n, c, k + 1) /\ msgs[j + 1] = Result(n, k + 1)
               /\ Awaiting(s, msgs, j, U, q, n, c, t)
<1>1. j + 1 \in 1..Len(msgs)
  OBVIOUS
<1>2. PICK q \in 1..((j + 1) - 1), n \in Nat, c \in Nat : Behind(msgs, q, n, c, (j + 1) - q)
  BY <1>1 DEF ResultsFollow
<1>3. PICK k \in Nat : k = j - q /\ (j + 1) - q = k + 1 /\ q \in 1..j /\ q + k = j /\ q + (k + 1) = j + 1
  OBVIOUS
<1>4. msgs[q] = Reply(n, c, FALSE) /\ k + 1 <= c /\ \A i \in 1..k + 1 : msgs[q + i] = Result(n, i)
  BY <1>2, <1>3 DEF Behind
<1>5. msgs[j + 1] = Result(n, k + 1)
  BY <1>3, <1>4
<1>6. ~Rests(s, msgs, j, U)
  <2>1. CASE k = 0
    <3>1. msgs[j].role = "assistant" /\ msgs[j].broken = FALSE
      BY <1>3, <1>4, <2>1 DEF Reply
    <3> QED
      BY <1>3, <3>1 DEF Rests
  <2>2. CASE k # 0
    <3>1. k \in 1..k + 1
      BY <2>2
    <3>2. msgs[j] = Result(n, k)
      BY <1>3, <1>4, <3>1
    <3>3. msgs[j].role = "toolResult"
      BY <3>2, Fields
    <3> QED
      BY <1>3, <3>3 DEF Rests
  <2> QED
    BY <2>1, <2>2
<1>7. PICK q2 \in 1..j, n2 \in Nat, c2 \in Nat, t \in Seq(Said(U)) : Awaiting(s, msgs, j, U, q2, n2, c2, t)
  BY <1>6 DEF Sending, Awaits
<1>8. msgs[q2] = Reply(n2, c2, FALSE) /\ \A i \in 1..j - q2 : msgs[q2 + i] = Result(n2, i)
  BY <1>7 DEF Awaiting, Behind
<1>9. msgs[q].role = "assistant" /\ msgs[q2].role = "assistant"
  BY <1>4, <1>8 DEF Reply
<1>10. q = q2
  <2>1. CASE q < q2
    <3>1. q2 - q \in 1..k + 1 /\ q + (q2 - q) = q2
      BY <1>3, <2>1
    <3>2. msgs[q2] = Result(n, q2 - q) /\ q2 - q \in Nat
      BY <1>4, <3>1
    <3>3. msgs[q2].role = "toolResult"
      BY <3>2, Fields
    <3> QED
      BY <1>9, <3>3
  <2>2. CASE q2 < q
    <3>1. q - q2 \in 1..j - q2 /\ q2 + (q - q2) = q
      BY <1>3, <2>2
    <3>2. msgs[q] = Result(n2, q - q2) /\ q - q2 \in Nat
      BY <1>8, <3>1
    <3>3. msgs[q].role = "toolResult"
      BY <3>2, Fields
    <3> QED
      BY <1>9, <3>3
  <2>3. q \in Nat /\ q2 \in Nat
    OBVIOUS
  <2> QED
    BY <2>1, <2>2, <2>3
<1>11. n = n2 /\ c = c2
  <2>1. Reply(n, c, FALSE) = Reply(n2, c2, FALSE)
    BY <1>4, <1>8, <1>10
  <2>2. Reply(n, c, FALSE).n = n /\ Reply(n2, c2, FALSE).n = n2 /\ Reply(n, c, FALSE).calls = c
        /\ Reply(n2, c2, FALSE).calls = c2
    BY DEF Reply
  <2> QED
    BY <2>1, <2>2
<1>12. Behind(msgs, q, n, c, k + 1) /\ Awaiting(s, msgs, j, U, q, n, c, t)
  BY <1>2, <1>3, <1>7, <1>10, <1>11
<1> QED
  BY <1>3, <1>5, <1>12

LEMMA ResultSent ==
    ASSUME NEW U, NEW j \in Nat, NEW q \in 1..j, NEW n \in Nat, NEW c \in Nat, NEW k \in Nat, k = j - q,
           NEW t \in Seq(Said(U)), NEW msgs, NEW s, Behind(msgs, q, n, c, k + 1),
           Awaiting(s, msgs, j, U, q, n, c, t)
    PROVE  Awaits(TransformOne(s, Result(n, k + 1)), msgs, j + 1, U)
<1> DEFINE S == Said(U)
           b == Block(n, c, k)
           x == Result(n, k + 1)
           new == [sent |-> t \o Block(n, c, k + 1), pending |-> [n |-> n, calls |-> c],
                   answered |-> {<<n, i>> : i \in 1..k + 1}]
<1>1. s = [sent |-> t \o b, pending |-> [n |-> n, calls |-> c],
           answered |-> {<<n, i>> : i \in 1..k}] /\ Acceptable(t)
  BY DEF Awaiting
<1>2. x.role = "toolResult" /\ x.call = <<n, k + 1>> /\ ~Incomplete(x)
  <2>1. x.role = "toolResult" /\ x.call = <<n, k + 1>>
    BY Fields
  <2> QED
    BY <2>1 DEF Incomplete
<1>3. TransformOne(s, x) = [s EXCEPT !.sent = Append(@, x), !.answered = @ \cup {x.call}]
  BY <1>2 DEF TransformOne
<1>4. Append(t \o b, x) = t \o Block(n, c, k + 1)
  <2>1. t \in Seq(S) /\ b \in Seq(S) /\ x \in S
    <3>1. k + 1 \in Nat
      OBVIOUS
    <3> QED
      BY <3>1, BlockType, SaidTypes
  <2>2. Append(b, x) = Block(n, c, k + 1)
    BY BlockGrows
  <2> DEFINE y == <<x>>
  <2> HIDE DEF S, b, x
  <2>3. t \o b \in Seq(S) /\ y \in Seq(S)
    BY <2>1, ConcatProperties
  <2>4. Append(t \o b, x) = (t \o b) \o y /\ Append(b, x) = b \o y
    BY <2>1, <2>3, AppendIsConcat
  <2> HIDE DEF y
  <2>5. (t \o b) \o y = t \o (b \o y)
    BY <2>1, <2>3, ConcatAssociative, SMTT(60)
  <2> QED
    BY <2>2, <2>4, <2>5
<1>5. {<<n, i>> : i \in 1..k} \cup {<<n, k + 1>>} = {<<n, i>> : i \in 1..k + 1}
  OBVIOUS
<1>6. TransformOne(s, x) = new
  BY <1>1, <1>2, <1>3, <1>4, <1>5
<1> HIDE DEF new, x
<1>7. Awaiting(new, msgs, j + 1, U, q, n, c, t)
  <2>1. (j + 1) - q = k + 1
    OBVIOUS
  <2> QED
    BY <1>1, <2>1 DEF Awaiting, new
<1>8. q \in 1..j + 1
  OBVIOUS
<1>9. Awaits(new, msgs, j + 1, U)
  BY <1>7, <1>8 DEF Awaits
<1> QED
  BY <1>6, <1>9 DEF x

LEMMA SendOne ==
    ASSUME NEW U, NEW msgs \in Seq(Said(U)), ResultsFollow(msgs), NEW j \in Nat, j + 1 <= Len(msgs),
           NEW s, Sending(s, msgs, j, U)
    PROVE  Sending(TransformOne(s, msgs[j + 1]), msgs, j + 1, U)
<1>1. PICK m \in Said(U) : m = msgs[j + 1]
  <2>1. j + 1 \in 1..Len(msgs)
    OBVIOUS
  <2> QED
    BY <2>1
<1>2. PICK x \in Seq(Said(U)) : Settled(s) = [sent |-> x, pending |-> NothingPending, answered |-> {}] /\ Acceptable(x)
  BY SettledValue
<1>3. m.role \in {"user", "assistant", "toolResult"}
      /\ (m.role = "assistant" => m.n \in Nat /\ m.calls \in Nat /\ m.broken \in BOOLEAN
                                  /\ m = Reply(m.n, m.calls, m.broken))
  BY SaidRoles
<1>4. CASE m.role = "toolResult"
  <2>1. PICK q \in 1..j, n \in Nat, c \in Nat, k \in Nat, t \in Seq(Said(U)) :
               /\ k = j - q /\ Behind(msgs, q, n, c, k + 1) /\ msgs[j + 1] = Result(n, k + 1)
               /\ Awaiting(s, msgs, j, U, q, n, c, t)
    BY <1>1, <1>4, NextResult
  <2>2. Awaits(TransformOne(s, Result(n, k + 1)), msgs, j + 1, U)
    BY <2>1, ResultSent
  <2> QED
    BY <2>1, <2>2 DEF Sending
<1>5. CASE m.role = "user"
  <2>1. Append(x, m) \in Seq(Said(U)) /\ Acceptable(Append(x, m))
    BY <1>2, <1>5, UserIsAcceptable
  <2>2. ~Incomplete(m)
    BY <1>5 DEF Incomplete
  <2>3. TransformOne(s, m) = [Settled(s) EXCEPT !.sent = Append(@, m)]
    BY <1>5, <2>2 DEF TransformOne
  <2>4. TransformOne(s, m) = [sent |-> Append(x, m), pending |-> NothingPending, answered |-> {}]
    <3> DEFINE y == Append(x, m)
               settled == Settled(s)
               none == {}
    <3>1. settled = [sent |-> x, pending |-> NothingPending, answered |-> none]
      BY <1>2
    <3>2. TransformOne(s, m) = [settled EXCEPT !.sent = y]
      <4>1. settled.sent = x
        BY <3>1
      <4> QED
        BY <2>3, <4>1
    <3> HIDE DEF y, settled, none
    <3>3. [settled EXCEPT !.sent = y] = [sent |-> y, pending |-> NothingPending, answered |-> none]
      BY <3>1
    <3> QED
      BY <3>2, <3>3 DEF y, none
  <2>5. Rests(TransformOne(s, m), msgs, j + 1, U)
    BY <1>1, <1>5, <2>1, <2>4 DEF Rests
  <2> QED
    BY <1>1, <2>5 DEF Sending
<1>6. CASE m.role = "assistant" /\ m.broken
  <2>0. Incomplete(m)
    BY <1>6 DEF Incomplete
  <2>1. TransformOne(s, m) = Settled(s)
    BY <1>6, <2>0 DEF TransformOne
  <2>2. Rests(TransformOne(s, m), msgs, j + 1, U)
    BY <1>1, <1>2, <1>6, <2>1 DEF Rests
  <2> QED
    BY <1>1, <2>2 DEF Sending
<1>7. CASE m.role = "assistant" /\ ~m.broken
  <2>1. PICK n \in Nat, c \in Nat : m = Reply(n, c, FALSE) /\ m.n = n /\ m.calls = c
    BY <1>3, <1>7
  <2> DEFINE new == [sent |-> Append(x, m), answered |-> {}, pending |-> [n |-> n, calls |-> c]]
  <2>0. ~Incomplete(m)
    BY <1>7 DEF Incomplete
  <2>2. TransformOne(s, m) = new
    <3>1. TransformOne(s, m) = [sent |-> Append(Settled(s).sent, m), answered |-> {},
                                pending |-> [n |-> m.n, calls |-> m.calls]]
      BY <1>7, <2>0 DEF TransformOne
    <3>2. Settled(s).sent = x
      BY <1>2
    <3> QED
      BY <2>1, <3>1, <3>2
  <2>3. Append(x, m) = x \o Block(n, c, 0)
    <3> DEFINE b == Block(n, c, 0)
    <3>1. b \in Seq(Said(U)) /\ Len(b) = 1 /\ b[1] = m
      <4>1. 0 \in Nat /\ 0 + 1 = 1
        OBVIOUS
      <4> QED
        BY <2>1, <4>1, BlockType
    <3>2. <<m>> \in Seq(Said(U)) /\ Len(<<m>>) = 1 /\ <<m>>[1] = m
      OBVIOUS
    <3> HIDE DEF b
    <3>3. \A i \in 1..Len(b) : b[i] = <<m>>[i]
      BY <3>1, <3>2
    <3>4. b = <<m>>
      BY <3>1, <3>2, <3>3, SeqEqual
    <3> QED
      BY <3>4, AppendIsConcat DEF b
  <2>4. {<<n, i>> : i \in 1..0} = {}
    OBVIOUS
  <2>5. (j + 1) - (j + 1) = 0 /\ j + 1 \in 1..j + 1
    OBVIOUS
  <2>6. Behind(msgs, j + 1, n, c, 0)
    BY <1>1, <2>1 DEF Behind
  <2>7. new = [sent |-> x \o Block(n, c, 0), pending |-> [n |-> n, calls |-> c],
               answered |-> {<<n, i>> : i \in 1..0}]
    BY <2>3, <2>4
  <2> HIDE DEF new
  <2>8. Awaiting(new, msgs, j + 1, U, j + 1, n, c, x)
    BY <1>2, <2>5, <2>6, <2>7 DEF Awaiting
  <2>9. Awaits(new, msgs, j + 1, U)
    BY <2>5, <2>8 DEF Awaits
  <2> QED
    BY <1>1, <2>2, <2>9 DEF Sending
<1> QED
  BY <1>3, <1>4, <1>5, <1>6, <1>7

(* What is sent of a conversation in which results follow their reply is acceptable:
   every call in it has its result, whatever was broken off (transform-messages.ts). *)
LEMMA TransformIsAcceptable ==
    ASSUME NEW U, NEW msgs \in Seq(Said(U)), ResultsFollow(msgs)
    PROVE  Acceptable(TransformMessages(msgs))
<1> DEFINE n == Len(msgs)
<1>1. n \in Nat /\ DOMAIN msgs = 1..n
  OBVIOUS
<1> HIDE DEF n
<1>2. PICK g : Folds(g, "transform", 0, Nothing, msgs, n) /\ TransformMessages(msgs) = Settled(g[n]).sent
  BY <1>1, TransformFolds
<1> DEFINE T == {j \in Nat : j <= n => Sending(g[j], msgs, j, U)}
<1>3. 0 \in T
  <2>1. g[0] = Nothing
    BY <1>2 DEF Folds
  <2>2. <<>> \in Seq(Said(U)) /\ Acceptable(<<>>)
    BY DEF Acceptable
  <2>3. Nothing = [sent |-> <<>>, pending |-> NothingPending, answered |-> {}] /\ ~(0 > 0)
    BY DEF Nothing
  <2>4. Rests(Nothing, msgs, 0, U)
    BY <2>2, <2>3 DEF Rests
  <2> QED
    BY <2>1, <2>4 DEF Sending
<1>4. ASSUME NEW j \in Nat, j \in T PROVE j + 1 \in T
  <2> SUFFICES ASSUME j + 1 <= n PROVE Sending(g[j + 1], msgs, j + 1, U)
    OBVIOUS
  <2>1. j < n /\ Sending(g[j], msgs, j, U)
    BY <1>1, <1>4
  <2>2. g[j + 1] = TransformOne(g[j], msgs[j + 1])
    BY <1>2, <2>1 DEF Folds, Apply
  <2> QED
    BY <2>1, <2>2, SendOne DEF n
<1> HIDE DEF T
<1>5. n \in T
  BY <1>1, <1>3, <1>4, SetInduction
<1>6. Sending(g[n], msgs, n, U)
  BY <1>1, <1>5 DEF T
<1>7. PICK x \in Seq(Said(U)) :
          Settled(g[n]) = [sent |-> x, pending |-> NothingPending, answered |-> {}] /\ Acceptable(x)
  BY <1>1, <1>6, SettledValue
<1> QED
  BY <1>2, <1>7



-----------------------------------------------------------------------------
(* The requests of the agent *)

(* Results follow their reply in the transcript, and the calls of the batch are those
   of the last reply. *)
TranscriptOK ==
    /\ ResultsFollow(messages)
    /\ pc \in Working => /\ Len(context) > 0 /\ context[Len(context)] = Reply(replies, batch.calls, FALSE)
                         /\ batch.next <= batch.calls + 1

LEMMA MessageIsSaid == Message = Said(Nat)
BY DEF Message, Said

(* What is no result needs nothing before it. *)
LEMMA OtherFollows ==
    ASSUME NEW m \in Seq(Message), ResultsFollow(m), NEW x \in Message, x.role # "toolResult"
    PROVE  ResultsFollow(Append(m, x))
<1> DEFINE l == Append(m, x)
           k == Len(m)
<1>1. l \in Seq(Message) /\ Len(l) = k + 1 /\ k \in Nat /\ l[k + 1] = x /\ \A i \in 1..k : l[i] = m[i]
  OBVIOUS
<1> HIDE DEF l
<1> SUFFICES ASSUME NEW p \in 1..k + 1, l[p].role = "toolResult"
             PROVE  \E q \in 1..(p - 1), n \in Nat, c \in Nat : Behind(l, q, n, c, p - q)
  BY <1>1 DEF ResultsFollow, l
<1>2. p \in 1..k
  <2> HIDE DEF k
  <2> QED
    BY <1>1
<1>3. m[p].role = "toolResult"
  BY <1>1, <1>2
<1>4. PICK q \in 1..(p - 1), n \in Nat, c \in Nat : Behind(m, q, n, c, p - q)
  BY <1>2, <1>3 DEF ResultsFollow
<1> HIDE DEF k
<1>5. q \in 1..k /\ \A i \in 1..p - q : q + i \in 1..k
  BY <1>1, <1>2
<1>6. Behind(l, q, n, c, p - q)
  BY <1>1, <1>4, <1>5 DEF Behind
<1> QED
  BY <1>6

(* Neither does one that is the next behind its reply, when those before it are there. *)
LEMMA ResultFollows ==
    ASSUME NEW c \in Seq(Message), NEW n \in Nat, NEW calls \in Nat, NEW k \in Nat, k + 1 <= calls,
           Len(c) > 0, c[Len(c)] = Reply(n, calls, FALSE),
           NEW m, m = c \o Results(n, k), ResultsFollow(m)
    PROVE  ResultsFollow(Append(m, Result(n, k + 1)))
<1> DEFINE e == Len(c)
           r == Results(n, k)
           x == Result(n, k + 1)
           l == Append(m, x)
<1>1. r \in Seq(Message) /\ Len(r) = k /\ \A i \in 1..k : r[i] = Result(n, i)
  BY ResultsType
<1>2. x \in Message /\ e \in Nat /\ e >= 1
  <2>1. k + 1 \in Nat
    OBVIOUS
  <2> QED
    BY <2>1, MessageTypes
<1> HIDE DEF r, x
<1>3. /\ m \in Seq(Message) /\ Len(m) = e + Len(r)
      /\ \A i \in 1..e + Len(r) : m[i] = IF i <= e THEN c[i] ELSE r[i - e]
  <2> DEFINE M == Message
  <2>1. c \in Seq(M) /\ r \in Seq(M) /\ m = c \o r
    BY <1>1 DEF r
  <2> HIDE DEF M, e
  <2>2. /\ c \o r \in Seq(M) /\ Len(c \o r) = Len(c) + Len(r)
        /\ \A i \in 1..Len(c) + Len(r) : (c \o r)[i] = IF i <= Len(c) THEN c[i] ELSE r[i - Len(c)]
    BY <2>1, ConcatProperties
  <2> QED
    BY <2>1, <2>2 DEF M, e
<1>4. Len(m) = e + k /\ \A i \in 1..e + k : m[i] = IF i <= e THEN c[i] ELSE r[i - e]
  BY <1>1, <1>3
<1>5. m[e] = Reply(n, calls, FALSE)
  <2>1. e \in 1..e + k /\ e <= e
    BY <1>2
  <2>2. m[e] = c[e]
    BY <1>4, <2>1
  <2>3. c[e] = Reply(n, calls, FALSE)
    OBVIOUS
  <2> QED
    BY <2>2, <2>3
<1> HIDE DEF e
<1>6. ASSUME NEW i \in 1..k PROVE m[e + i] = Result(n, i)
  <2>1. e + i \in 1..e + k /\ ~(e + i <= e) /\ (e + i) - e = i
    BY <1>2
  <2> QED
    BY <1>1, <1>4, <2>1
<1>7. /\ l \in Seq(Message) /\ Len(l) = (e + k) + 1
      /\ l[(e + k) + 1] = x /\ \A i \in 1..e + k : l[i] = m[i]
  <2> DEFINE M == Message
  <2>1. m \in Seq(M) /\ x \in M
    BY <1>2, <1>3
  <2> HIDE DEF M
  <2>2. l \in Seq(M) /\ Len(l) = Len(m) + 1 /\ l[Len(m) + 1] = x /\ \A i \in 1..Len(m) : l[i] = m[i]
    BY <2>1
  <2> QED
    BY <1>4, <2>2 DEF M
<1> HIDE DEF l
<1>8. ASSUME NEW p \in 1..(e + k) + 1, l[p].role = "toolResult"
      PROVE  \E q \in 1..(p - 1), n1 \in Nat, c1 \in Nat : Behind(l, q, n1, c1, p - q)
  <2>1. CASE p = (e + k) + 1
    <3>1. e \in 1..(p - 1) /\ p - e = k + 1
      BY <1>2, <2>1
    <3>2. l[e] = Reply(n, calls, FALSE)
      <4>1. e \in 1..e + k
        BY <1>2
      <4> QED
        BY <1>5, <1>7, <4>1
    <3>3. ASSUME NEW i \in 1..k + 1 PROVE l[e + i] = Result(n, i)
      <4>1. CASE i = k + 1
        <5>1. e + i = (e + k) + 1
          BY <1>2, <4>1
        <5> QED
          BY <1>7, <4>1, <5>1 DEF x
      <4>2. CASE i # k + 1
        <5>1. i \in 1..k /\ e + i \in 1..e + k
          BY <1>2, <4>2
        <5> QED
          BY <1>6, <1>7, <5>1
      <4> QED
        BY <4>1, <4>2
    <3>4. Behind(l, e, n, calls, p - e)
      BY <3>1, <3>2, <3>3 DEF Behind
    <3> QED
      BY <3>1, <3>4
  <2>2. CASE p # (e + k) + 1
    <3>1. p \in 1..e + k
      BY <1>2, <2>2
    <3>2. m[p].role = "toolResult"
      BY <1>7, <1>8, <3>1
    <3>3. PICK q \in 1..(p - 1), n1 \in Nat, c1 \in Nat : Behind(m, q, n1, c1, p - q)
      BY <1>4, <3>1, <3>2 DEF ResultsFollow
    <3>4. q \in 1..e + k /\ \A i \in 1..p - q : q + i \in 1..e + k
      BY <1>2, <3>1
    <3>5. Behind(l, q, n1, c1, p - q)
      BY <1>7, <3>3, <3>4 DEF Behind
    <3> QED
      BY <3>5
  <2> QED
    BY <2>1, <2>2
<1>9. ResultsFollow(l)
  BY <1>7, <1>8 DEF ResultsFollow
<1> QED
  BY <1>9 DEF l, x


(* The transcript gets what is no result, and no batch is at work after it. *)
LEMMA OtherKeepsTranscript ==
    ASSUME TypeOK, TranscriptOK, NEW x \in Message, x.role # "toolResult",
           messages' = Append(messages, x), pc' \notin Working
    PROVE  TranscriptOK'
<1>1. messages \in Seq(Message) /\ ResultsFollow(messages)
  BY DEF TypeOK, TranscriptOK
<1>2. ResultsFollow(messages')
  BY <1>1, OtherFollows
<1> QED
  BY <1>2 DEF TranscriptOK

(* The transcript stays, and no batch is at work. *)
LEMMA NothingSaid ==
    ASSUME TranscriptOK, messages' = messages, pc' \notin Working
    PROVE  TranscriptOK'
BY DEF TranscriptOK, ResultsFollow, Behind

(* A batch of calls moves on, and may show the next result. *)
LEMMA BatchKeepsTranscript ==
    ASSUME IInv, TranscriptOK, pc \in Working, Unaltered,
           batch'.calls = batch.calls, batch'.next <= batch.calls + 1,
           \/ messages' = messages
           \/ /\ Shown + 1 <= batch.calls
              /\ messages' = Append(messages, Result(replies, Shown + 1))
    PROVE  TranscriptOK'
<1>1. /\ messages \in Seq(Message) /\ context \in Seq(Message) /\ replies \in Nat
      /\ batch.calls \in Nat /\ Shown \in Nat
      /\ messages = context \o Results(replies, Shown)
  BY BatchFacts, ShownIsNatural DEF ContextOK
<1>2. Len(context) > 0 /\ context[Len(context)] = Reply(replies, batch.calls, FALSE) /\ ResultsFollow(messages)
  BY DEF TranscriptOK
<1>3. context' = context /\ replies' = replies
  BY DEF Unaltered
<1>4. ResultsFollow(messages')
  <2>1. CASE messages' = messages
    BY <1>2, <2>1
  <2>2. CASE Shown + 1 <= batch.calls /\ messages' = Append(messages, Result(replies, Shown + 1))
    <3>1. PICK n \in Nat, k \in Nat, calls \in Nat : n = replies /\ k = Shown /\ calls = batch.calls
      BY <1>1
    <3>2. ResultsFollow(Append(messages, Result(n, k + 1)))
      BY <1>1, <1>2, <2>2, <3>1, ResultFollows
    <3> QED
      BY <2>2, <3>1, <3>2
  <2> QED
    BY <2>1, <2>2
<1> QED
  BY <1>2, <1>3, <1>4 DEF TranscriptOK

LEMMA RefuseTruncatedKeepsTranscript ==
    ASSUME IInv, TranscriptOK, RefuseTruncated
    PROVE  TranscriptOK'
<1>1. /\ batch \in BatchType /\ Len(batch.out) = batch.calls /\ batch.calls \in Nat
      /\ batch.next \in Nat \ {0} /\ batch.next \in 1..batch.calls
  BY BatchFacts DEF BatchOK, RefuseTruncated
<1>2. batch'.calls = batch.calls /\ batch'.next = batch.next + 1
  <2>1. batch' = [batch EXCEPT !.out[batch.next] = "done", !.next = batch.next + 1]
    BY DEF RefuseTruncated
  <2> QED
    BY <1>1, <2>1 DEF BatchType
<1>3. pc = "prepare" /\ batch.how = "truncated" /\ messages' = Append(messages, Result(replies, batch.next))
      /\ Unaltered
  BY DEF RefuseTruncated
<1>4. Shown + 1 = batch.next /\ Shown + 1 <= batch.calls /\ batch'.next <= batch.calls + 1
  BY <1>1, <1>2, <1>3 DEF Shown
<1>5. pc \in Working
  BY <1>3 DEF Working
<1> QED
  BY <1>2, <1>3, <1>4, <1>5, BatchKeepsTranscript

LEMMA PrepareFailsKeepsTranscript ==
    ASSUME IInv, TranscriptOK, PrepareFails
    PROVE  TranscriptOK'
<1>1. /\ batch \in BatchType /\ Len(batch.out) = batch.calls /\ batch.calls \in Nat
      /\ batch.next \in Nat \ {0} /\ batch.next \in 1..batch.calls
  BY BatchFacts DEF BatchOK, PrepareFails
<1>2. batch'.calls = batch.calls /\ batch'.next = batch.next + 1
  <2>1. PICK o : batch' = [batch EXCEPT !.out[batch.next] = o, !.next = @ + 1]
    BY DEF PrepareFails
  <2> QED
    BY <1>1, <2>1 DEF BatchType
<1>3. /\ pc = "prepare" /\ Unaltered
      /\ messages' = IF batch.how = "sequential" THEN Append(messages, Result(replies, batch.next)) ELSE messages
  BY DEF PrepareFails
<1>4. batch'.next <= batch.calls + 1
  BY <1>1, <1>2
<1>5. batch.how = "sequential" => Shown + 1 = batch.next /\ Shown + 1 <= batch.calls
  BY <1>1, <1>3 DEF Shown
<1>6. pc \in Working
  BY <1>3 DEF Working
<1> QED
  BY <1>2, <1>3, <1>4, <1>5, <1>6, BatchKeepsTranscript

LEMMA PrepareKeepsTranscript ==
    ASSUME IInv, TranscriptOK, Prepare
    PROVE  TranscriptOK'
<1>1. /\ batch \in BatchType /\ Len(batch.out) = batch.calls /\ batch.calls \in Nat
      /\ batch.next \in Nat \ {0} /\ batch.next \in 1..batch.calls
  BY BatchFacts DEF BatchOK, Prepare
<1>2. batch'.calls = batch.calls /\ batch'.next = batch.next + 1
  <2>1. PICK o : batch' = [batch EXCEPT !.out[batch.next] = o, !.next = @ + 1]
    BY DEF Prepare
  <2> QED
    BY <1>1, <2>1 DEF BatchType
<1>3. batch'.next <= batch.calls + 1 /\ pc \in Working /\ Unaltered /\ messages' = messages
  BY <1>1, <1>2 DEF Prepare, Working
<1> QED
  BY <1>2, <1>3, BatchKeepsTranscript

LEMMA CheckKeepsTranscript ==
    ASSUME IInv, TranscriptOK, Check
    PROVE  TranscriptOK'
<1>1. pc \in Working /\ Unaltered /\ messages' = messages
  BY DEF Check, Working
<1>2. batch'.calls = batch.calls /\ batch'.next = batch.next
  <2>1. batch \in BatchType
    BY BatchFacts
  <2>2. batch' = Started(batch) \/ batch' = batch
    BY DEF Check
  <2> QED
    BY <2>1, <2>2 DEF Started, BatchType
<1>3. batch'.next <= batch.calls + 1
  BY <1>1, <1>2 DEF TranscriptOK
<1> QED
  BY <1>1, <1>2, <1>3, BatchKeepsTranscript

LEMMA FinishKeepsTranscript ==
    ASSUME IInv, TranscriptOK, NEW i \in 1..MaxCalls, i \in DOMAIN batch.out, Finish(i)
    PROVE  TranscriptOK'
<1>1. /\ batch \in BatchType /\ Len(batch.out) = batch.calls /\ batch.calls \in Nat
      /\ batch.next \in Nat \ {0} /\ BatchOK
  BY BatchFacts
<1>2. /\ pc = "execute" /\ Unaltered /\ batch.out[i] = "running"
      /\ messages' = IF batch.how = "sequential" THEN Append(messages, Result(replies, i)) ELSE messages
  BY DEF Finish
<1>3. batch'.calls = batch.calls /\ batch'.next = batch.next
  <2>1. PICK o : batch' = [batch EXCEPT !.out[i] = o]
    BY DEF Finish
  <2> QED
    BY <1>1, <2>1 DEF BatchType
<1>4. pc \in Working /\ batch'.next <= batch.calls + 1 /\ batch.next <= batch.calls + 1
  BY <1>2, <1>3 DEF Working, TranscriptOK
<1>5. i \in 1..batch.calls
  BY <1>1 DEF BatchType
<1>6. batch.how = "sequential" => Shown + 1 = i /\ Shown + 1 <= batch.calls
  BY <1>1, <1>2, <1>5 DEF Shown, BatchOK
<1> QED
  BY <1>2, <1>3, <1>4, <1>6, BatchKeepsTranscript

LEMMA ShowResultKeepsTranscript ==
    ASSUME IInv, TranscriptOK, ShowResult
    PROVE  TranscriptOK'
<1>1. /\ batch \in BatchType /\ batch.calls \in Nat /\ batch.shown \in Nat
      /\ batch.next \in Nat \ {0} /\ BatchOK
  BY BatchFacts
<1>2. /\ pc = "results" /\ Unaltered
      /\ messages' = Append(messages, Result(replies, batch.shown + 1))
      /\ batch' = [batch EXCEPT !.shown = batch.shown + 1]
  BY DEF ShowResult
<1>3. batch'.calls = batch.calls /\ batch'.next = batch.next
  BY <1>1, <1>2 DEF BatchType
<1>4. pc \in Working /\ batch.next <= batch.calls + 1
  BY <1>2 DEF Working, TranscriptOK
<1>5. Shown = batch.shown /\ Shown + 1 <= batch.calls
  BY <1>1, <1>2, <1>4 DEF Shown, BatchOK
<1> QED
  BY <1>2, <1>3, <1>4, <1>5, BatchKeepsTranscript

(* A reply with calls starts a batch, one without ends the turn. *)
LEMMA AnswerKeepsTranscript ==
    ASSUME IInv, TranscriptOK, Answer
    PROVE  TranscriptOK'
<1>1. /\ messages \in Seq(Message) /\ context \in Seq(Message) /\ replies \in Nat
      /\ pc = "answer" /\ context = messages /\ ResultsFollow(messages)
  BY BatchFacts DEF Answer, ContextOK, TranscriptOK
<1>2. PICK calls \in Nat, broken \in BOOLEAN :
        LET reply == Reply(replies + 1, calls, broken) IN
        /\ messages' = Append(messages, reply) /\ context' = Append(context, reply)
        /\ IF reply.broken \/ calls = 0
           THEN batch' = NoBatch /\ pc' = IF reply.broken THEN "end" ELSE "turn_end"
           ELSE \E how \in {"truncated", "sequential", "parallel"} :
                      batch' = [NoBatch EXCEPT !.calls = calls, !.how = how,
                                               !.out = [i \in 1..calls |-> "open"]]
  <2>1. PICK calls \in 0..(IF replies < MaxReplies THEN MaxCalls ELSE 0), stop \in Stops :
          LET reply == Reply(replies + 1, calls, stop = "broken")
              hows  == IF stop = "truncated" THEN {"truncated"} ELSE {"sequential", "parallel"}
          IN  /\ messages' = Append(messages, reply) /\ context' = Append(context, reply)
              /\ IF reply.broken \/ calls = 0
                 THEN batch' = NoBatch /\ pc' = IF reply.broken THEN "end" ELSE "turn_end"
                 ELSE /\ \E how \in hows :
                            batch' = [NoBatch EXCEPT !.calls = calls, !.how = how,
                                                     !.out = [i \in 1..calls |-> "open"]]
                      /\ pc' = "prepare"
    BY DEF Answer
  <2>2. calls \in Nat
    BY BoundsAssumption
  <2>3. PICK broken \in BOOLEAN : broken = (stop = "broken")
    OBVIOUS
  <2> QED
    BY <2>1, <2>2, <2>3
<1>3. PICK x \in Message : x = Reply(replies + 1, calls, broken)
  BY <1>1, MessageTypes
<1>4. x.role = "assistant" /\ x.broken = broken
  BY <1>3 DEF Reply
<1>5. ResultsFollow(messages')
  BY <1>1, <1>2, <1>3, <1>4, OtherFollows
<1>6. Len(context') > 0 /\ context'[Len(context')] = x
  BY <1>1, <1>2, <1>3
<1>7. replies' = replies + 1
  BY DEF Answer
<1>8. CASE broken
  <2>1. pc' = "end"
    BY <1>2, <1>3, <1>4, <1>8
  <2> QED
    BY <1>5, <2>1 DEF TranscriptOK, Working
<1>9. CASE ~broken
  <2>1. x = Reply(replies', calls, FALSE)
    BY <1>3, <1>7, <1>9 DEF Reply
  <2>2. batch'.calls = calls /\ batch'.next <= calls + 1
    <3>1. CASE calls = 0
      BY <1>2, <1>3, <1>4, <1>9, <3>1 DEF NoBatch
    <3>2. CASE calls # 0
      <4>1. ~(x.broken \/ calls = 0)
        BY <1>4, <1>9, <3>2
      <4>2. \E how : batch' = [NoBatch EXCEPT !.calls = calls, !.how = how,
                                              !.out = [i \in 1..calls |-> "open"]]
        BY <1>2, <1>3, <4>1
      <4>3. PICK how, out : batch' = [NoBatch EXCEPT !.calls = calls, !.how = how, !.out = out]
        BY <4>2
      <4>4. batch'.calls = calls /\ batch'.next = 1
        BY <4>3 DEF NoBatch
      <4> QED
        BY <4>4
    <3> QED
      BY <3>1, <3>2
  <2> QED
    BY <1>5, <1>6, <2>1, <2>2 DEF TranscriptOK
<1> QED
  BY <1>8, <1>9


(* What the run and the user do around the batches of calls. *)
LEMMA LoopKeepsTranscript ==
    ASSUME IInv, TranscriptOK, LoopStep
    PROVE  TranscriptOK'
<1>1. TypeOK
  BY DEF IInv
<1>2. \A m \in Ids : User(m) \in Message /\ User(m).role # "toolResult"
  BY <1>1, MessageTypes DEF Ids, TypeOK
<1>3. CASE InjectPrompt
  <2>1. PICK m \in Ids : messages' = Append(messages, User(m))
    BY <1>1, <1>3, BatchFacts DEF InjectPrompt, ControlOK, TypeOK
  <2>2. pc' \notin Working
    BY <1>3 DEF InjectPrompt, Working
  <2> QED
    BY <1>1, <1>2, <2>1, <2>2, OtherKeepsTranscript
<1>4. CASE Inject
  <2>1. PICK m \in Ids : messages' = Append(messages, User(m))
    BY <1>1, <1>4, BatchFacts DEF Inject, ControlOK, TypeOK
  <2>2. pc' \notin Working
    BY <1>4 DEF Inject, Working
  <2> QED
    BY <1>1, <1>2, <2>1, <2>2, OtherKeepsTranscript
<1>5. CASE HandleFailure
  <2>1. PICK n \in Nat : n = replies + 1
    BY <1>1 DEF TypeOK
  <2>2. PICK x \in Message : x = Reply(n, 0, TRUE)
    BY MessageTypes
  <2>3. x.role # "toolResult"
    BY <2>2 DEF Reply
  <2>4. messages' = Append(messages, x) /\ pc' \notin Working
    BY <1>5, <2>1, <2>2 DEF HandleFailure, Working
  <2> QED
    BY <1>1, <2>3, <2>4, OtherKeepsTranscript
<1>6. CASE Poll \/ Ask \/ TurnEnd \/ PollFollowUps \/ FinishRun
  <2>1. messages' = messages /\ pc' \notin Working
    BY <1>6 DEF Poll, Ask, TurnEnd, PollFollowUps, FinishRun, Idle, Working
  <2> QED
    BY <2>1, NothingSaid
<1>7. CASE \E i \in 1..MaxCalls : i \in DOMAIN batch.out /\ Finish(i)
  BY <1>7, FinishKeepsTranscript
<1> QED
  BY <1>3, <1>4, <1>5, <1>6, <1>7, AnswerKeepsTranscript, RefuseTruncatedKeepsTranscript,
     PrepareFailsKeepsTranscript, PrepareKeepsTranscript, CheckKeepsTranscript,
     ShowResultKeepsTranscript DEF LoopStep

LEMMA NextKeepsTranscript ==
    ASSUME IInv, TranscriptOK, [Next]_vars
    PROVE  TranscriptOK'
<1>1. CASE LoopStep
  BY <1>1, LoopKeepsTranscript
<1>2. CASE Throw \/ FailHandler \/ Prompt \/ ContinueQueued \/ Continue
  <2>1. messages' = messages /\ pc' \notin Working
    BY <1>2 DEF Throw, FailHandler, Idle, Prompt, ContinueQueued, Continue, Begin, Working
  <2> QED
    BY <2>1, NothingSaid
<1>3. CASE Reset
  <2>1. messages' = <<>> /\ pc' = pc /\ run = None
    BY <1>3 DEF Reset, loop
  <2>2. pc' \notin Working
    BY <2>1, BatchFacts DEF ControlOK, Working
  <2>3. ResultsFollow(messages')
    <3>1. Len(messages') = 0
      BY <2>1
    <3> QED
      BY <3>1 DEF ResultsFollow
  <2> QED
    BY <2>2, <2>3 DEF TranscriptOK
<1>4. CASE FinishStray \/ Steer \/ FollowUp \/ Abort \/ ClearAllQueues \/ UNCHANGED vars
  <2>1. /\ messages' = messages /\ context' = context /\ pc' = pc /\ batch' = batch
        /\ replies' = replies
    BY <1>4 DEF FinishStray, Steer, FollowUp, Abort, ClearAllQueues, loop, vars
  <2> QED
    BY <2>1 DEF TranscriptOK, ResultsFollow, Behind
<1> QED
  BY <1>1, <1>2, <1>3, <1>4 DEF Next

(* In every conversation the results of a reply's calls stand right behind it, in the
   order of the calls and without a gap, whoever aborted, steered or threw
   (agent-loop.ts emits them so): only the last of them may be missing. *)
LEMMA TranscriptInvariant == Spec => []TranscriptOK
<1>1. Init => TranscriptOK
  BY DEF Init, TranscriptOK, ResultsFollow, Working
<1>2. IInv /\ TranscriptOK /\ [Next]_vars => TranscriptOK'
  BY NextKeepsTranscript
<1> QED
  BY <1>1, <1>2, AgentInvariant, PTL DEF Spec

(* What a request is made of can be answered, whatever was aborted, cut short, steered
   or failed before: in what transform-messages.ts sends, every tool call has its result
   right behind it, for conversations of any length with any number of calls. *)
THEOREM RequestsCanBeAnswered == Spec => []RequestsAreAnswered
<1>1. IInv /\ TranscriptOK => RequestsAreAnswered
  <2> SUFFICES ASSUME IInv, TranscriptOK, pc = "answer"
               PROVE  Acceptable(TransformMessages(context))
    BY DEF RequestsAreAnswered
  <2>1. context = messages /\ messages \in Seq(Said(Nat)) /\ ResultsFollow(messages)
    BY BatchFacts, MessageIsSaid DEF ContextOK, TranscriptOK
  <2>2. Acceptable(TransformMessages(messages))
    BY <2>1, TransformIsAcceptable
  <2> QED
    BY <2>1, <2>2
<1> QED
  BY <1>1, AgentInvariant, TranscriptInvariant, PTL



-----------------------------------------------------------------------------
(* Compaction *)

(* Least and greatest numbers. *)
LEMMA MinIsThere ==
    ASSUME NEW T \in SUBSET Nat, T # {}
    PROVE  Min(T) \in T
<1> DEFINE P(x) == x \in T /\ \A y \in T : x <= y
<1>1. PICK x : P(x)
  BY LeastNumber
<1>2. P(CHOOSE z : P(z))
  BY <1>1, Zenon
<1>3. Min(T) = CHOOSE z : P(z)
  BY Zenon DEF Min
<1> QED
  BY <1>2, <1>3

LEMMA MaxIs ==
    ASSUME NEW T \in SUBSET Nat, NEW m \in T, \A y \in T : y <= m
    PROVE  Max(T) = m
<1> DEFINE P(x) == x \in T /\ \A y \in T : x >= y
           top == Max(T)
<1>1. P(m)
  OBVIOUS
<1>2. P(CHOOSE z : P(z))
  BY <1>1, Zenon
<1>3. Max(T) = CHOOSE z : P(z)
  BY Zenon DEF Max
<1>4. top \in T /\ top >= m
  BY <1>2, <1>3
<1> HIDE DEF top
<1>5. top = m
  BY <1>4
<1> QED
  BY <1>5 DEF top

LEMMA MaxIsThere ==
    ASSUME NEW m \in Nat, NEW T \in SUBSET (1..m), T # {}
    PROVE  Max(T) \in T
<1> DEFINE D == {m - x : x \in T}
<1>1. D \in SUBSET Nat /\ D # {}
  <2>1. \A x \in T : m - x \in Nat
    OBVIOUS
  <2>2. PICK x : x \in T
    OBVIOUS
  <2> QED
    BY <2>1, <2>2
<1>2. PICK d \in D : \A y \in D : d <= y
  <2> HIDE DEF D
  <2> QED
    BY <1>1, LeastNumber
<1>3. PICK x \in T : d = m - x
  BY <1>2
<1>4. ASSUME NEW y \in T PROVE y <= x
  <2>1. m - x <= m - y
    BY <1>2, <1>3
  <2> QED
    BY <2>1
<1>5. Max(T) = x
  <2> HIDE DEF D
  <2>1. T \in SUBSET Nat
    OBVIOUS
  <2> QED
    BY <1>4, <2>1, MaxIs
<1> QED
  BY <1>5

(* The last compaction of a path. *)
LEMMA LastCompactionIs ==
    ASSUME NEW path, Len(path) \in Nat, NEW c \in 1..Len(path), IsCompaction(path[c]),
           \A i \in 1..Len(path) : i > c => ~IsCompaction(path[i])
    PROVE  LastCompaction(path) = c
<1> DEFINE T == {i \in 1..Len(path) : IsCompaction(path[i])}
<1>1. T \in SUBSET Nat /\ c \in T /\ \A y \in T : y <= c
  OBVIOUS
<1>2. LastCompaction(path) = IF T # {} THEN Max(T) ELSE 0
  BY DEF LastCompaction, SelectLastInSeq
<1> HIDE DEF T
<1>3. Max(T) = c
  BY <1>1, MaxIs
<1> QED
  BY <1>1, <1>2, <1>3

LEMMA NoCompaction ==
    ASSUME NEW path, \A i \in 1..Len(path) : ~IsCompaction(path[i])
    PROVE  LastCompaction(path) = 0
BY DEF LastCompaction, SelectLastInSeq

(* A cut is made before a message that is no result. *)
LEMMA CutIsThere ==
    ASSUME NEW es \in Seq(Message), Len(es) > 0, es[1].role # "toolResult", NEW keep \in Nat
    PROVE  Cut(es, keep) \in 1..Len(es) /\ es[Cut(es, keep)].role # "toolResult"
<1> DEFINE C == CutPoints(es)
           A == {i \in CutPoints(es) : keep <= Len(es) /\ i >= Len(es) - keep + 1}
<1>1. C \in SUBSET Nat /\ A \subseteq C /\ C # {} /\ A \in SUBSET Nat
  BY DEF CutPoints
<1>2. Cut(es, keep) = IF C = {} THEN 1 ELSE IF A = {} THEN Min(C) ELSE Min(A)
  BY DEF Cut
<1>3. Cut(es, keep) \in C
  <2> HIDE DEF C, A
  <2>1. Min(C) \in C
    BY <1>1, MinIsThere
  <2>2. A # {} => Min(A) \in A
    BY <1>1, MinIsThere
  <2> QED
    BY <1>1, <1>2, <2>1, <2>2
<1> QED
  BY <1>3 DEF CutPoints

(* What is left out is summarized, the prefix of a turn that is split included. *)
LEMMA CompactIs ==
    ASSUME NEW path, NEW es \in Seq(Message), es = Compactable(path), Len(es) > 0,
           es[1].role # "toolResult", NEW keep \in Nat
    PROVE  \E cut \in 1..Len(es) : \E covers :
              /\ es[cut].role # "toolResult"
              /\ \A i \in 1..cut - 1 : es[i] \in covers
              /\ Compact(path, keep) = Append(path, Compacted(covers, SubSeq(es, cut, Len(es))))
<1> DEFINE cut == Cut(es, keep)
           start == TurnStart(es, cut)
           starts == {i \in 1..cut : es[i].role = "user"}
           history == {es[i] : i \in 1..((IF start = 0 THEN cut ELSE start) - 1)}
           prefix == IF start = 0 THEN {} ELSE {es[i] : i \in start..(cut - 1)}
           covers == IF start # 0 /\ history = {} THEN prefix
                     ELSE PreviouslyCovered(path) \cup history \cup prefix
<1>1. cut \in 1..Len(es) /\ es[cut].role # "toolResult" /\ Len(es) \in Nat
  BY CutIsThere
<1>2. Compact(path, keep) = Append(path, Compacted(covers, SubSeq(es, cut, Len(es))))
  BY DEF Compact
<1> HIDE DEF cut
<1>3. start \in 0..cut
  <2>1. cut \in Nat /\ starts \in SUBSET (1..cut)
    BY <1>1
  <2>2. start = IF es[cut].role = "user" \/ starts = {} THEN 0 ELSE Max(starts)
    BY DEF TurnStart
  <2> HIDE DEF start, starts
  <2>3. starts # {} => Max(starts) \in starts
    BY <2>1, MaxIsThere
  <2> QED
    BY <1>1, <2>1, <2>2, <2>3
<1> HIDE DEF start
<1>4. ASSUME NEW i \in 1..cut - 1 PROVE es[i] \in covers
  <2>1. es[i] \in history \/ es[i] \in prefix
    <3>1. CASE start = 0
      <4>1. i \in 1..((IF start = 0 THEN cut ELSE start) - 1)
        BY <3>1
      <4> QED
        BY <4>1
    <3>2. CASE start # 0 /\ i < start
      <4>1. i \in 1..((IF start = 0 THEN cut ELSE start) - 1)
        BY <1>1, <1>3, <3>2
      <4> QED
        BY <4>1
    <3>3. CASE start # 0 /\ ~(i < start)
      <4>1. i \in start..(cut - 1)
        BY <1>1, <1>3, <3>3
      <4> QED
        BY <3>3, <4>1
    <3> QED
      BY <3>1, <3>2, <3>3
  <2> HIDE DEF history, prefix
  <2> QED
    BY <2>1
<1> HIDE DEF covers
<1> QED
  BY <1>1, <1>2, <1>4


(* The end of a conversation, from d on. *)
LEMMA EndIs ==
    ASSUME NEW M, NEW msgs \in Seq(M), NEW d \in 1..Len(msgs), NEW r, r = SubSeq(msgs, d, Len(msgs))
    PROVE  /\ r \in Seq(M) /\ Len(r) = Len(msgs) - d + 1
           /\ \A i \in 1..Len(msgs) - d + 1 : d - 1 + i \in d..Len(msgs) /\ r[i] = msgs[d - 1 + i]
<1>1. Len(msgs) \in Nat /\ Len(msgs) <= Len(msgs)
  OBVIOUS
<1>2. r \in Seq(M) /\ Len(r) = Len(msgs) - d + 1
  BY <1>1
<1>3. ASSUME NEW i \in 1..Len(msgs) - d + 1
      PROVE  d - 1 + i \in d..Len(msgs) /\ r[i] = msgs[d - 1 + i]
  <2>1. d - 1 + i \in d..Len(msgs) /\ d + i - 1 = d - 1 + i
    BY <1>1
  <2>2. r[i] = msgs[d + i - 1]
    BY <1>1
  <2> QED
    BY <2>1, <2>2
<1> QED
  BY <1>2, <1>3

LEMMA ReverseIs ==
    ASSUME NEW M, NEW s \in Seq(M)
    PROVE  /\ Reverse(s) \in Seq(M) /\ Len(Reverse(s)) = Len(s)
           /\ \A i \in 1..Len(s) : Reverse(s)[i] = s[(Len(s) - i) + 1]
<1> DEFINE n == Len(s)
<1>1. n \in Nat /\ \A i \in 1..n : s[i] \in M
  OBVIOUS
<1> HIDE DEF n
<1>2. \A i \in 1..n : (n - i) + 1 \in 1..n
  BY <1>1
<1>3. Reverse(s) = [i \in 1..n |-> s[(n - i) + 1]]
  BY DEF Reverse, n
<1>4. \A i \in 1..n : s[(n - i) + 1] \in M
  BY <1>1, <1>2
<1> QED
  BY <1>1, <1>3, <1>4 DEF n

LEMMA EndIsSuffix ==
    ASSUME NEW M, NEW msgs \in Seq(M), NEW d \in 1..Len(msgs), NEW r, r = SubSeq(msgs, d, Len(msgs))
    PROVE  IsSuffix(r, msgs)
<1> DEFINE n == Len(msgs)
           k == Len(r)
           a == Reverse(r)
           b == Reverse(msgs)
<1>1. /\ r \in Seq(M) /\ k = n - d + 1 /\ n \in Nat /\ k \in Nat /\ d \in 1..n
      /\ \A i \in 1..n - d + 1 : r[i] = msgs[d - 1 + i]
  BY EndIs
<1>2. a \in Seq(M) /\ Len(a) = k /\ \A i \in 1..k : a[i] = r[(k - i) + 1]
  BY <1>1, ReverseIs
<1>3. b \in Seq(M) /\ Len(b) = n /\ \A i \in 1..n : b[i] = msgs[(n - i) + 1]
  BY ReverseIs
<1> HIDE DEF a, b, n, k
<1>4. ASSUME NEW i \in 1..k PROVE a[i] = b[i]
  <2>1. /\ i \in 1..n /\ (k - i) + 1 \in 1..n - d + 1
        /\ d - 1 + ((k - i) + 1) = (n - i) + 1
    BY <1>1
  <2>2. r[(k - i) + 1] = msgs[d - 1 + ((k - i) + 1)]
    BY <1>1, <2>1
  <2> QED
    BY <1>2, <1>3, <2>1, <2>2
<1>5. SubSeq(a, 1, k) = SubSeq(b, 1, k) /\ k <= n
  <2>1. k <= n
    BY <1>1
  <2>2. SubSeq(a, 1, k) \in Seq(M) /\ Len(SubSeq(a, 1, k)) = k /\ \A i \in 1..k : SubSeq(a, 1, k)[i] = a[i]
    BY <1>1, <1>2
  <2>3. SubSeq(b, 1, k) \in Seq(M) /\ Len(SubSeq(b, 1, k)) = k /\ \A i \in 1..k : SubSeq(b, 1, k)[i] = b[i]
    BY <1>1, <1>3, <2>1
  <2>4. PICK x \in Seq(M), y \in Seq(M) : x = SubSeq(a, 1, k) /\ y = SubSeq(b, 1, k)
    BY <2>2, <2>3
  <2>5. Len(x) = Len(y) /\ \A i \in 1..Len(x) : x[i] = y[i]
    BY <1>4, <2>2, <2>3, <2>4
  <2>6. x = y
    BY <2>5, SeqEqual
  <2> QED
    BY <2>1, <2>4, <2>6
<1> QED
  BY <1>2, <1>3, <1>5 DEF IsSuffix, IsPrefix, a, b

(* What is kept starts with a message that is no result, so that it can be sent behind
   a summary. *)
LEMMA EndIsAcceptable ==
    ASSUME NEW msgs \in Seq(Message), ResultsFollow(msgs), NEW d \in 1..Len(msgs),
           msgs[d].role # "toolResult", NEW r, r = SubSeq(msgs, d, Len(msgs))
    PROVE  /\ Acceptable(TransformMessages(<<Summary>> \o r))
           /\ Tail(<<Summary>> \o r) = r
<1> DEFINE U == Nat \cup {"summary"}
           S == Said(U)
           n == Len(msgs)
           x == <<Summary>> \o r
<1>1. Message \subseteq S /\ Summary \in S /\ Summary.role = "user"
  BY DEF Message, Said, Summary, User
<1>2. /\ r \in Seq(Message) /\ Len(r) = n - d + 1 /\ n \in Nat /\ d \in 1..n
      /\ \A i \in 1..n - d + 1 : r[i] = msgs[d - 1 + i]
  BY EndIs
<1>3. r \in Seq(S) /\ <<Summary>> \in Seq(S)
  BY <1>1, <1>2
<1> HIDE DEF U, S
<1>4. /\ x \in Seq(S) /\ Len(x) = n - d + 2 /\ x[1] = Summary
      /\ \A i \in 1..n - d + 1 : x[i + 1] = r[i]
  <2>1. /\ x \in Seq(S) /\ Len(x) = 1 + Len(r)
        /\ \A i \in 1..1 + Len(r) : x[i] = IF i <= 1 THEN <<Summary>>[i] ELSE r[i - 1]
    BY <1>3, ConcatProperties
  <2> HIDE DEF x, n
  <2>2. Len(x) = n - d + 2
    BY <1>2, <2>1
  <2>3. x[1] = Summary
    <3>1. 1 \in 1..1 + Len(r) /\ <<Summary>>[1] = Summary /\ 1 <= 1
      BY <1>2
    <3> QED
      BY <2>1, <3>1
  <2>4. ASSUME NEW i \in 1..n - d + 1 PROVE x[i + 1] = r[i]
    <3>1. i + 1 \in 1..1 + Len(r) /\ ~(i + 1 <= 1) /\ (i + 1) - 1 = i
      BY <1>2
    <3> QED
      BY <2>1, <3>1
  <2> QED
    BY <2>1, <2>2, <2>3, <2>4
<1>5. Tail(x) = r
  <2>1. Tail(x) \in Seq(S) /\ Len(Tail(x)) = n - d + 1
    BY <1>2, <1>4
  <2>2. \A i \in 1..n - d + 1 : Tail(x)[i] = x[i + 1]
    BY <1>2, <1>4
  <2>3. PICK y \in Seq(S) : y = Tail(x)
    BY <2>1
  <2>4. Len(y) = Len(r) /\ \A i \in 1..Len(y) : y[i] = r[i]
    BY <1>2, <1>4, <2>1, <2>2, <2>3
  <2>5. y = r
    BY <1>3, <2>4, SeqEqual
  <2> QED
    BY <2>3, <2>5
<1> HIDE DEF x, n
<1>6. ResultsFollow(x)
  <2> SUFFICES ASSUME NEW p \in 1..n - d + 2, x[p].role = "toolResult"
               PROVE  \E q \in 1..(p - 1), m \in Nat, c \in Nat : Behind(x, q, m, c, p - q)
    BY <1>4 DEF ResultsFollow
  <2>1. p > 1
    BY <1>1, <1>2, <1>4
  <2>2. PICK e \in 1..n : e = d + p - 2 /\ e >= d
    BY <1>2, <2>1
  <2>3. ASSUME NEW i \in d..n PROVE x[i - d + 2] = msgs[i]
    <3>1. i - d + 1 \in 1..n - d + 1 /\ (i - d + 1) + 1 = i - d + 2 /\ d - 1 + (i - d + 1) = i
      BY <1>2
    <3>2. x[(i - d + 1) + 1] = r[i - d + 1] /\ r[i - d + 1] = msgs[d - 1 + (i - d + 1)]
      BY <1>2, <1>4, <3>1
    <3> QED
      BY <3>1, <3>2
  <2>4. e - d + 2 = p /\ e \in d..n
    BY <1>2, <2>2
  <2>5. msgs[e].role = "toolResult"
    BY <2>3, <2>4
  <2>6. PICK q \in 1..(e - 1), m \in Nat, c \in Nat : Behind(msgs, q, m, c, e - q)
    BY <2>5 DEF ResultsFollow, n
  <2>7. q >= d
    <3> SUFFICES ASSUME ~(q >= d) PROVE FALSE
      OBVIOUS
    <3>1. d - q \in 1..e - q /\ q + (d - q) = d
      BY <1>2, <2>2
    <3>2. msgs[d] = Result(m, d - q)
      BY <2>6, <3>1 DEF Behind
    <3> QED
      BY <3>2 DEF Result
  <2>8. PICK h \in 1..(p - 1) : h = q - d + 2
    BY <1>2, <2>2, <2>7
  <2>9. p - h = e - q
    BY <1>2, <2>2, <2>8
  <2>10. x[h] = msgs[q]
    <3>1. q \in d..n
      BY <1>2, <2>7
    <3> QED
      BY <2>3, <2>8, <3>1
  <2>11. ASSUME NEW i \in 1..p - h PROVE x[h + i] = Result(m, i)
    <3>1. i \in 1..e - q
      BY <2>9
    <3>2. q + i \in d..n /\ (q + i) - d + 2 = h + i
      BY <1>2, <2>7, <2>8, <3>1
    <3>3. msgs[q + i] = Result(m, i)
      BY <2>6, <3>1 DEF Behind
    <3>4. x[(q + i) - d + 2] = msgs[q + i]
      BY <2>3, <3>2
    <3> QED
      BY <3>2, <3>3, <3>4
  <2>12. Behind(x, h, m, c, p - h)
    BY <2>6, <2>9, <2>10, <2>11 DEF Behind
  <2> QED
    BY <2>12
<1>7. Acceptable(TransformMessages(x))
  BY <1>4, <1>6, TransformIsAcceptable DEF S
<1> QED
  BY <1>5, <1>7 DEF x


(* A path that was just compacted: what is sent of it, and what its summary covers. *)
JustCompacted(new, path, covers, r) ==
    /\ ContextOf(new) = <<Summary>> \o r
    /\ Last(new).retained = r
    /\ covers \subseteq Summarized(new)
    /\ \A i \in 1..Len(path) : IsCompaction(path[i]) => path[i].covers \subseteq Summarized(new)
LEMMA AfterCompact ==
    ASSUME NEW E, NEW path \in Seq(E), NEW covers, NEW r \in Seq(Message),
           NEW new, new = Append(path, Compacted(covers, r))
    PROVE  JustCompacted(new, path, covers, r)
<1> DEFINE k == Len(path)
           x == Compacted(covers, r)
           F == E \cup {x}
           S == Said(Nat \cup {"summary"})
<1>1. x.role = "compaction" /\ x.covers = covers /\ x.retained = r /\ IsCompaction(x)
  BY DEF Compacted, IsCompaction
<1> HIDE DEF x
<1>2. path \in Seq(F) /\ x \in F /\ new = Append(path, x)
  BY DEF x
<1> HIDE DEF F
<1>3. /\ new \in Seq(F) /\ Len(new) = k + 1 /\ k \in Nat /\ new[k + 1] = x /\ DOMAIN new = 1..k + 1
      /\ \A i \in 1..k : new[i] = path[i]
  BY <1>2
<1> HIDE DEF k
<1>4. LastCompaction(new) = k + 1
  <2>1. PICK c \in 1..Len(new) : c = k + 1
    BY <1>3
  <2>2. IsCompaction(new[c]) /\ Len(new) \in Nat /\ \A i \in 1..Len(new) : i > c => ~IsCompaction(new[i])
    BY <1>1, <1>3, <2>1
  <2>3. LastCompaction(new) = c
    BY <2>2, LastCompactionIs
  <2> QED
    BY <2>1, <2>3
<1>5. SubSeq(new, k + 2, k + 1) = <<>>
  BY <1>3
<1>6. ContextOf(new) = (<<Summary>> \o r) \o <<>>
  <2>1. k + 1 # 0 /\ (k + 1) + 1 = k + 2
    BY <1>3
  <2>2. ContextOf(new) = <<Summary>> \o new[k + 1].retained \o SubSeq(new, (k + 1) + 1, Len(new))
    BY <1>4, <2>1 DEF ContextOf
  <2> QED
    BY <1>1, <1>3, <1>5, <2>1, <2>2
<1>7. ContextOf(new) = <<Summary>> \o r
  <2>1. Message \subseteq S /\ Summary \in S
    BY DEF Message, Said, Summary, User
  <2> HIDE DEF S
  <2>2. <<Summary>> \in Seq(S) /\ r \in Seq(S)
    BY <2>1
  <2>3. <<Summary>> \o r \in Seq(S)
    BY <2>2, ConcatProperties
  <2>4. (<<Summary>> \o r) \o <<>> = <<Summary>> \o r
    BY <2>3, ConcatEmptySeq
  <2> QED
    BY <1>6, <2>4
<1>8. Last(new).retained = r
  BY <1>1, <1>3 DEF Last
<1>9. ASSUME NEW i \in 1..k + 1, IsCompaction(new[i]) PROVE new[i].covers \subseteq Summarized(new)
  BY <1>3, <1>9 DEF Summarized
<1>10. covers \subseteq Summarized(new)
  <2>1. k + 1 \in 1..k + 1
    BY <1>3
  <2> QED
    BY <1>1, <1>3, <1>9, <2>1
<1>11. ASSUME NEW i \in 1..k, IsCompaction(path[i]) PROVE path[i].covers \subseteq Summarized(new)
  <2>1. i \in 1..k + 1 /\ new[i] = path[i]
    BY <1>3
  <2> QED
    BY <1>9, <1>11, <2>1
<1> QED
  BY <1>7, <1>8, <1>10, <1>11 DEF k, JustCompacted

(* A conversation whose messages before d were summarized and whose end was kept. *)
LEMMA EndIsKept ==
    ASSUME NEW msgs \in Seq(Message), ResultsFollow(msgs), NEW d \in 1..Len(msgs),
           msgs[d].role # "toolResult", NEW r, r = SubSeq(msgs, d, Len(msgs)),
           NEW path, ContextOf(path) = <<Summary>> \o r, Last(path).retained = r,
           \A i \in 1..d - 1 : msgs[i] \in Summarized(path)
    PROVE  KeepsTheEnd(msgs, path)
<1>1. /\ r \in Seq(Message) /\ Len(r) = Len(msgs) - d + 1 /\ Len(msgs) \in Nat
      /\ \A i \in 1..Len(msgs) - d + 1 : r[i] = msgs[d - 1 + i]
  BY EndIs
<1>2. Acceptable(TransformMessages(ContextOf(path))) /\ Tail(ContextOf(path)) = r
  BY EndIsAcceptable
<1>3. IsSuffix(r, msgs)
  BY EndIsSuffix
<1>4. ToSet(msgs) \subseteq Summarized(path) \cup ToSet(r)
  <2> SUFFICES ASSUME NEW i \in 1..Len(msgs) PROVE msgs[i] \in Summarized(path) \cup ToSet(r)
    BY DEF ToSet
  <2>1. CASE i < d
    BY <1>1, <2>1
  <2>2. CASE ~(i < d)
    <3>1. PICK j \in 1..Len(msgs) - d + 1 : j = i - d + 1 /\ d - 1 + j = i
      BY <1>1, <2>2
    <3>2. r[j] = msgs[i] /\ j \in DOMAIN r
      BY <1>1, <3>1
    <3> QED
      BY <3>2 DEF ToSet
  <2> QED
    BY <2>1, <2>2
<1> QED
  BY <1>2, <1>3, <1>4 DEF KeepsTheEnd


LEMMA MessageIsNoCompaction == \A m \in Message : ~IsCompaction(m)
BY DEF Message, IsCompaction

LEMMA EndOfEnd ==
    ASSUME NEW M, NEW msgs \in Seq(M), NEW c \in 1..Len(msgs),
           NEW es, es = SubSeq(msgs, c, Len(msgs)), NEW d \in 1..Len(es)
    PROVE  /\ c + d - 1 \in 1..Len(msgs)
           /\ SubSeq(es, d, Len(es)) = SubSeq(msgs, c + d - 1, Len(msgs))
<1> DEFINE n == Len(msgs)
           x == SubSeq(es, d, Len(es))
           y == SubSeq(msgs, c + d - 1, n)
<1>1. /\ es \in Seq(M) /\ Len(es) = n - c + 1 /\ n \in Nat /\ c \in 1..n
      /\ \A i \in 1..n - c + 1 : es[i] = msgs[c - 1 + i]
  BY EndIs
<1>2. /\ x \in Seq(M) /\ Len(x) = Len(es) - d + 1 /\ \A i \in 1..Len(es) - d + 1 : x[i] = es[d - 1 + i]
  BY <1>1, EndIs
<1>3. c + d - 1 \in 1..n
  <2> HIDE DEF n
  <2> QED
    BY <1>1
<1>4. PICK e \in 1..n : e = c + d - 1
  BY <1>3
<1>5. /\ y \in Seq(M) /\ Len(y) = n - e + 1 /\ \A i \in 1..n - e + 1 : y[i] = msgs[e - 1 + i]
  BY <1>4, EndIs
<1> HIDE DEF n, x, y
<1>6. Len(x) = Len(y)
  BY <1>1, <1>2, <1>4, <1>5
<1>7. ASSUME NEW i \in 1..Len(x) PROVE x[i] = y[i]
  <2>1. /\ i \in 1..Len(es) - d + 1 /\ i \in 1..n - e + 1 /\ d - 1 + i \in 1..n - c + 1
        /\ c - 1 + (d - 1 + i) = e - 1 + i
    BY <1>1, <1>2, <1>4, <1>5, <1>6
  <2>2. x[i] = es[d - 1 + i] /\ es[d - 1 + i] = msgs[c - 1 + (d - 1 + i)] /\ y[i] = msgs[e - 1 + i]
    BY <1>1, <1>2, <1>5, <2>1
  <2> QED
    BY <2>1, <2>2
<1>8. x = y
  BY <1>2, <1>5, <1>6, <1>7, SeqEqual
<1> QED
  BY <1>3, <1>8 DEF n, x, y

(* x is a and b behind it. *)
Joins(x, a, b) ==
    /\ Len(x) = Len(a) + Len(b)
    /\ \A e \in 1..Len(a) : x[e] = a[e]
    /\ \A e \in 1..Len(b) : x[Len(a) + e] = b[e]
LEMMA Joined ==
    ASSUME NEW M, NEW a \in Seq(M), NEW b \in Seq(M)
    PROVE  a \o b \in Seq(M) /\ Joins(a \o b, a, b)
<1> DEFINE x == a \o b
           i == Len(a)
           j == Len(b)
<1>1. /\ x \in Seq(M) /\ Len(x) = i + j /\ i \in Nat /\ j \in Nat
      /\ \A e \in 1..i + j : x[e] = IF e <= i THEN a[e] ELSE b[e - i]
  BY ConcatProperties
<1> HIDE DEF x, i, j
<1>2. ASSUME NEW e \in 1..i PROVE x[e] = a[e]
  <2>1. e \in 1..i + j /\ e <= i
    BY <1>1
  <2> QED
    BY <1>1, <2>1
<1>3. ASSUME NEW e \in 1..j PROVE x[i + e] = b[e]
  <2>1. i + e \in 1..i + j /\ ~(i + e <= i) /\ (i + e) - i = e
    BY <1>1
  <2> QED
    BY <1>1, <2>1
<1> QED
  BY <1>1, <1>2, <1>3 DEF x, i, j, Joins

(* A conversation that was compacted when it had n messages, and went on. *)
Path(msgs, n, C) == Append(SubSeq(msgs, 1, n), C) \o SubSeq(msgs, n + 1, Len(msgs))
IsPath(path, msgs, n, C) ==
    /\ path \in Seq(Message \cup {C}) /\ Len(path) = Len(msgs) + 1 /\ path[n + 1] = C
    /\ \A i \in 1..n : path[i] = msgs[i]
    /\ \A i \in 1..Len(msgs) : i > n => path[i + 1] = msgs[i]
LEMMA PathIs ==
    ASSUME NEW msgs \in Seq(Message), NEW n \in 1..Len(msgs), NEW C
    PROVE  /\ IsPath(Path(msgs, n, C), msgs, n, C)
           /\ n = Len(msgs) => Path(msgs, n, C) = Append(SubSeq(msgs, 1, n), C)
<1> DEFINE path == Path(msgs, n, C)
           es == SubSeq(msgs, 1, n)
           k == Len(msgs)
           E == Message \cup {C}
           a == Append(es, C)
           b == SubSeq(msgs, n + 1, k)
<1>1. k \in Nat /\ n \in 1..k
  OBVIOUS
<1>2. msgs \in Seq(E) /\ C \in E /\ DOMAIN msgs = 1..k /\ Len(msgs) = k
  OBVIOUS
<1> HIDE DEF E, k
<1>3. es \in Seq(E) /\ Len(es) = n /\ \A i \in 1..n : es[i] = msgs[i]
  BY <1>1, <1>2
<1>4. a \in Seq(E) /\ Len(a) = n + 1 /\ a[n + 1] = C /\ \A i \in 1..n : a[i] = msgs[i]
  BY <1>2, <1>3
<1>5. b \in Seq(E) /\ Len(b) = k - n
  BY <1>1, <1>2
<1>6. ASSUME NEW i \in 1..k - n PROVE b[i] = msgs[n + i]
  <2>1. n + 1 + i - 1 = n + i /\ i \in 1..(k - (n + 1) + 1)
    BY <1>1
  <2>2. b[i] = msgs[n + 1 + i - 1]
    BY <1>1, <1>2, <2>1
  <2> QED
    BY <2>1, <2>2
<1>7. path = a \o b
  BY DEF k, Path
<1> HIDE DEF a, b, es, path
<1>8. /\ path \in Seq(E) /\ Len(path) = k + 1
      /\ \A i \in 1..n + 1 : path[i] = a[i]
      /\ \A i \in 1..k - n : path[(n + 1) + i] = b[i]
  <2>1. PICK l \in Nat, j \in Nat : l = n + 1 /\ j = k - n /\ l + j = k + 1
    BY <1>1
  <2>2. Len(a) = l /\ Len(b) = j
    BY <1>4, <1>5, <2>1
  <2>3. a \o b \in Seq(E) /\ Joins(a \o b, a, b)
    BY <1>4, <1>5, Joined
  <2>4. path \in Seq(E) /\ Joins(path, a, b)
    BY <1>7, <2>3
  <2> QED
    BY <2>1, <2>2, <2>4 DEF Joins
<1>10. path[n + 1] = C
  <2>1. n + 1 \in 1..n + 1
    BY <1>1
  <2> QED
    BY <1>4, <1>8, <2>1
<1>11. ASSUME NEW i \in 1..n PROVE path[i] = msgs[i]
  <2>1. i \in 1..n + 1
    BY <1>1
  <2> QED
    BY <1>4, <1>8, <2>1
<1>12. ASSUME NEW i \in 1..k, i > n PROVE path[i + 1] = msgs[i]
  <2>1. i - n \in 1..k - n /\ n + (i - n) = i /\ (n + 1) + (i - n) = i + 1
    BY <1>1, <1>12
  <2>2. path[(n + 1) + (i - n)] = b[i - n] /\ b[i - n] = msgs[n + (i - n)]
    BY <1>6, <1>8, <2>1
  <2> QED
    BY <2>1, <2>2
<1>13. n = k => path = a
  <2> SUFFICES ASSUME n = k PROVE path = a
    OBVIOUS
  <2>1. Len(b) = 0
    BY <1>1, <1>5
  <2>2. b = <<>>
    BY <1>5, <2>1
  <2> QED
    BY <1>4, <1>7, <2>2, ConcatEmptySeq
<1> QED
  BY <1>8, <1>10, <1>11, <1>12, <1>13 DEF E, k, a, es, path, IsPath

(* s is the part of a conversation of l messages behind the first o. *)
IsPart(s, msgs, o, l) == s \in Seq(Message) /\ Len(s) = l /\ \A i \in 1..l : s[i] = msgs[o + i]

(* Its last compaction, and what came after it. *)
LEMMA LastIsThat ==
    ASSUME NEW msgs \in Seq(Message), NEW n \in 1..Len(msgs), n < Len(msgs), NEW C, IsCompaction(C),
           NEW path, IsPath(path, msgs, n, C)
    PROVE  /\ LastCompaction(path) = n + 1 /\ MayCompact(path)
           /\ IsPart(SubSeq(path, n + 2, Len(path)), msgs, n, Len(msgs) - n)
<1> DEFINE t == SubSeq(path, n + 2, Len(path))
           E == Message \cup {C}
           k == Len(msgs)
<1>0. /\ k \in Nat /\ n \in 1..k /\ n < k
      /\ path \in Seq(E) /\ Len(path) = k + 1 /\ path[n + 1] = C
      /\ \A i \in 1..n : path[i] = msgs[i]
      /\ \A i \in 1..k : i > n => path[i + 1] = msgs[i]
  BY DEF IsPath
<1> HIDE DEF E
<1>1. \A i \in 1..k : msgs[i] \in Message
  OBVIOUS
<1> HIDE DEF k
<1>2. ASSUME NEW i \in 1..k + 1, i # n + 1 PROVE ~IsCompaction(path[i]) /\ path[i] \in Message
  <2>1. CASE i <= n
    <3>1. i \in 1..n /\ i \in 1..k
      BY <1>0, <2>1
    <3>2. path[i] = msgs[i] /\ msgs[i] \in Message
      BY <1>0, <1>1, <3>1
    <3> QED
      BY <3>2, MessageIsNoCompaction
  <2>2. CASE i > n
    <3>1. PICK j \in 1..k : j = i - 1 /\ j > n /\ j + 1 = i
      BY <1>0, <1>2, <2>2
    <3>2. path[i] = msgs[j] /\ msgs[j] \in Message
      BY <1>0, <1>1, <3>1
    <3> QED
      BY <3>2, MessageIsNoCompaction
  <2> QED
    BY <1>0, <2>1, <2>2
<1>3. LastCompaction(path) = n + 1
  <2>1. PICK e \in 1..k + 1 : e = n + 1
    BY <1>0
  <2>2. IsCompaction(path[e]) /\ e \in 1..Len(path) /\ Len(path) \in Nat
    BY <1>0, <2>1
  <2>3. \A i \in 1..Len(path) : i > e => ~IsCompaction(path[i])
    <3>1. \A i \in 1..k + 1 : i > e => i # n + 1
      BY <1>0, <2>1
    <3> QED
      BY <1>0, <1>2, <3>1
  <2>4. LastCompaction(path) = e
    BY <1>0, <2>2, <2>3, LastCompactionIs
  <2> QED
    BY <2>1, <2>4
<1>4. MayCompact(path)
  <2>1. k + 1 \in 1..k + 1 /\ k + 1 # n + 1
    BY <1>0
  <2>2. ~IsCompaction(path[k + 1])
    BY <1>2, <2>1
  <2>3. path # <<>>
    BY <1>0
  <2> QED
    BY <1>0, <2>2, <2>3 DEF MayCompact, Last
<1>5. PICK d \in 1..Len(path) : d = n + 2
  BY <1>0
<1>6. /\ t \in Seq(E) /\ Len(t) = k - n
      /\ \A i \in 1..k - n : t[i] = path[(n + 1) + i]
  <2>1. /\ t \in Seq(E) /\ Len(t) = Len(path) - d + 1
        /\ \A i \in 1..Len(path) - d + 1 : t[i] = path[d - 1 + i]
    BY <1>0, <1>5, EndIs
  <2> HIDE DEF t
  <2>2. Len(path) - d + 1 = k - n /\ d - 1 = n + 1
    BY <1>0, <1>5
  <2> QED
    BY <2>1, <2>2
<1> HIDE DEF t
<1>7. ASSUME NEW i \in 1..k - n PROVE t[i] = msgs[n + i] /\ t[i] \in Message
  <2>1. n + i \in 1..k /\ n + i > n /\ (n + 1) + i = (n + i) + 1
    BY <1>0
  <2>2. path[(n + i) + 1] = msgs[n + i] /\ msgs[n + i] \in Message
    BY <1>0, <1>1, <2>1
  <2> QED
    BY <1>6, <2>1, <2>2
<1>8. t \in Seq(Message)
  <2>1. DOMAIN t = 1..Len(t) /\ k - n \in Nat /\ t = [i \in 1..Len(t) |-> t[i]]
    BY <1>0, <1>6, SeqDef
  <2>2. PICK l \in Nat : l = k - n /\ t = [i \in 1..l |-> t[i]]
    BY <1>0, <1>6, <2>1
  <2>3. \A i \in 1..l : t[i] \in Message
    BY <1>7, <2>2
  <2> QED
    BY <2>2, <2>3, SeqDef
<1> QED
  BY <1>3, <1>4, <1>6, <1>7, <1>8 DEF t, k, IsPart

(* What the second compaction finds: what the first one kept, and what came after it. *)
LEMMA EndsJoin ==
    ASSUME NEW msgs \in Seq(Message), NEW n \in 1..Len(msgs), NEW c \in 1..n,
           NEW r, IsPart(r, msgs, c - 1, n - c + 1), NEW t, IsPart(t, msgs, n, Len(msgs) - n)
    PROVE  r \o t = SubSeq(msgs, c, Len(msgs))
<1> DEFINE k == Len(msgs)
           x == r \o t
           y == SubSeq(msgs, c, Len(msgs))
<1>0. /\ k \in Nat /\ n \in 1..k
      /\ r \in Seq(Message) /\ Len(r) = n - c + 1 /\ \A i \in 1..n - c + 1 : r[i] = msgs[c - 1 + i]
      /\ t \in Seq(Message) /\ Len(t) = k - n /\ \A i \in 1..k - n : t[i] = msgs[n + i]
  BY DEF IsPart
<1>1. y \in Seq(Message) /\ Len(y) = k - c + 1 /\ \A i \in 1..k - c + 1 : y[i] = msgs[c - 1 + i]
  <2>1. c \in 1..Len(msgs)
    OBVIOUS
  <2> QED
    BY <2>1, EndIs
<1> HIDE DEF k
<1>2. x \in Seq(Message) /\ Joins(x, r, t)
  BY <1>0, Joined
<1> HIDE DEF x, y
<1>3. /\ Len(x) = k - c + 1
      /\ \A e \in 1..n - c + 1 : x[e] = r[e]
      /\ \A e \in 1..k - n : x[(n - c + 1) + e] = t[e]
  BY <1>0, <1>2 DEF Joins
<1>4. ASSUME NEW e \in 1..k - c + 1 PROVE x[e] = y[e]
  <2>1. CASE e <= n - c + 1
    <3>1. e \in 1..n - c + 1
      BY <2>1
    <3> QED
      BY <1>0, <1>1, <1>3, <3>1
  <2>2. CASE ~(e <= n - c + 1)
    <3>0. c \in Nat /\ n \in Nat /\ e \in Nat /\ e > n - c + 1 /\ e <= k - c + 1
      BY <1>0, <2>2
    <3>1. PICK i \in 1..k - n : i = e - (n - c + 1)
      BY <1>0, <3>0
    <3>2. (n - c + 1) + i = e /\ n + i = c - 1 + e
      BY <1>0, <3>1
    <3>3. x[(n - c + 1) + i] = t[i] /\ t[i] = msgs[n + i] /\ y[e] = msgs[c - 1 + e]
      BY <1>0, <1>1, <1>3
    <3> QED
      BY <3>2, <3>3
  <2> QED
    BY <1>0, <2>1, <2>2
<1>5. x = y
  BY <1>1, <1>2, <1>3, <1>4, SeqEqual
<1> QED
  BY <1>5 DEF x, y

LEMMA KeptAndAfter ==
    ASSUME NEW msgs \in Seq(Message), NEW n \in 1..Len(msgs), n < Len(msgs), NEW c \in 1..n,
           NEW covers
    PROVE  LET path == Path(msgs, n, Compacted(covers, SubSeq(SubSeq(msgs, 1, n), c, n)))
           IN  Compactable(path) = SubSeq(msgs, c, Len(msgs)) /\ MayCompact(path)
<1> DEFINE k == Len(msgs)
           es == SubSeq(msgs, 1, n)
           r == SubSeq(es, c, n)
           C == Compacted(covers, r)
           path == Path(msgs, n, C)
<1>1. k \in Nat /\ n \in 1..k /\ n < k
  OBVIOUS
<1>2. es \in Seq(Message) /\ Len(es) = n /\ \A i \in 1..n : es[i] = msgs[i]
  BY <1>1
<1> HIDE DEF es
<1>3. /\ r \in Seq(Message) /\ Len(r) = n - c + 1
      /\ \A i \in 1..n - c + 1 : c - 1 + i \in c..n /\ r[i] = es[c - 1 + i]
  BY <1>2, EndIs
<1>4. \A i \in 1..n - c + 1 : r[i] = msgs[c - 1 + i]
  <2> HIDE DEF r
  <2> SUFFICES ASSUME NEW i \in 1..n - c + 1 PROVE r[i] = msgs[c - 1 + i]
    OBVIOUS
  <2>1. c - 1 + i \in 1..n
    BY <1>1
  <2> QED
    BY <1>2, <1>3, <2>1
<1> HIDE DEF r
<1>11. IsPart(r, msgs, c - 1, n - c + 1)
  BY <1>3, <1>4 DEF IsPart
<1>5. IsCompaction(C) /\ C.retained = r
  BY DEF Compacted, IsCompaction
<1> HIDE DEF C
<1>6. IsPath(path, msgs, n, C)
  BY PathIs
<1> HIDE DEF path
<1> DEFINE t == SubSeq(path, n + 2, Len(path))
<1>7. LastCompaction(path) = n + 1 /\ MayCompact(path) /\ IsPart(t, msgs, n, Len(msgs) - n)
  BY <1>5, <1>6, LastIsThat
<1> HIDE DEF k
<1>9. Compactable(path) = r \o t
  <2>1. n + 1 # 0 /\ (n + 1) + 1 = n + 2
    BY <1>1
  <2>2. Compactable(path) = path[n + 1].retained \o SubSeq(path, (n + 1) + 1, Len(path))
    BY <1>7, <2>1 DEF Compactable
  <2>3. path[n + 1] = C
    BY <1>6 DEF IsPath
  <2> QED
    BY <1>5, <2>1, <2>2, <2>3
<1> HIDE DEF t
<1>10. r \o t = SubSeq(msgs, c, Len(msgs))
  BY <1>7, <1>11, EndsJoin
<1> QED
  BY <1>7, <1>9, <1>10 DEF k, path, C, r, es


(* The first compaction of a conversation. *)
LEMMA FirstCompaction ==
    ASSUME NEW msgs \in Seq(Message), ResultsFollow(msgs), NEW n \in 1..Len(msgs), NEW keep \in Nat
    PROVE  \E c \in 1..n : \E covers :
              /\ msgs[c].role # "toolResult"
              /\ \A i \in 1..c - 1 : msgs[i] \in covers
              /\ Compact(SubSeq(msgs, 1, n), keep)
                    = Append(SubSeq(msgs, 1, n), Compacted(covers, SubSeq(SubSeq(msgs, 1, n), c, n)))
<1> DEFINE es == SubSeq(msgs, 1, n)
<1>1. es \in Seq(Message) /\ Len(es) = n /\ n \in Nat /\ n > 0 /\ \A i \in 1..n : es[i] = msgs[i]
  OBVIOUS
<1>2. es[1].role # "toolResult"
  <2>1. 1 \in 1..Len(msgs) /\ 1 \in 1..n /\ 1..(1 - 1) = {}
    OBVIOUS
  <2>2. msgs[1].role # "toolResult"
    BY <2>1 DEF ResultsFollow
  <2> QED
    BY <1>1, <2>1, <2>2
<1> HIDE DEF es
<1>3. Compactable(es) = es
  <2>1. \A i \in 1..Len(es) : ~IsCompaction(es[i])
    BY <1>1, MessageIsNoCompaction
  <2>2. LastCompaction(es) = 0
    BY <2>1, NoCompaction
  <2> QED
    BY <2>2 DEF Compactable
<1>d. PICK c \in 1..Len(es) : \E covers :
        /\ es[c].role # "toolResult"
        /\ \A i \in 1..c - 1 : es[i] \in covers
        /\ Compact(es, keep) = Append(es, Compacted(covers, SubSeq(es, c, Len(es))))
  BY <1>1, <1>2, <1>3, CompactIs
<1>4. PICK covers :
        /\ es[c].role # "toolResult"
        /\ \A i \in 1..c - 1 : es[i] \in covers
        /\ Compact(es, keep) = Append(es, Compacted(covers, SubSeq(es, c, Len(es))))
  BY <1>d
<1>5. c \in 1..n /\ \A i \in 1..c - 1 : i \in 1..n
  BY <1>1
<1> QED
  BY <1>1, <1>4, <1>5 DEF es

(* A compaction keeps the end of a conversation, and so does one of what it left. *)
LEMMA TwiceKeepsTheEnd ==
    ASSUME NEW msgs \in Seq(Message), ResultsFollow(msgs), NEW n \in 1..Len(msgs),
           NEW first \in Nat, NEW second \in Nat
    PROVE  KeepsTheEnd(msgs, Twice(msgs, n, first, second))
<1> DEFINE k == Len(msgs)
           es == SubSeq(msgs, 1, n)
<1>a. PICK c \in 1..n : \E covers :
        /\ msgs[c].role # "toolResult"
        /\ \A i \in 1..c - 1 : msgs[i] \in covers
        /\ Compact(es, first) = Append(es, Compacted(covers, SubSeq(es, c, n)))
  BY FirstCompaction
<1>1. PICK covers :
        /\ msgs[c].role # "toolResult"
        /\ \A i \in 1..c - 1 : msgs[i] \in covers
        /\ Compact(es, first) = Append(es, Compacted(covers, SubSeq(es, c, n)))
  BY <1>a
<1> DEFINE r == SubSeq(es, c, n)
           C == Compacted(covers, r)
           path == Path(msgs, n, C)
<1>2. Twice(msgs, n, first, second) = IF MayCompact(path) THEN Compact(path, second) ELSE path
  BY <1>1 DEF Twice, Path
<1>3. k \in Nat /\ n \in 1..k /\ c \in 1..k
  OBVIOUS
<1>4. es \in Seq(Message) /\ Len(es) = n
  BY <1>3
<1>5. IsCompaction(C) /\ C.covers = covers
  BY DEF Compacted, IsCompaction
<1>6. CASE n = k
  <2>1. path = Append(es, C)
    BY <1>6, PathIs
  <2>2. es = msgs
    <3>1. es \in Seq(Message) /\ Len(es) = Len(msgs) /\ \A i \in 1..Len(es) : es[i] = msgs[i]
      BY <1>3, <1>6
    <3> HIDE DEF es
    <3> QED
      BY <3>1, SeqEqual
  <2>3. r = SubSeq(msgs, c, Len(msgs)) /\ c \in 1..Len(msgs)
    BY <1>3, <1>6, <2>2
  <2>4. r \in Seq(Message)
    BY <2>3, EndIs
  <2> HIDE DEF es, r
  <2> HIDE DEF path
  <2>5. JustCompacted(path, es, covers, r)
    BY <1>4, <2>1, <2>4, AfterCompact
  <2> HIDE DEF C
  <2>6. KeepsTheEnd(msgs, path)
    BY <1>1, <2>3, <2>5, EndIsKept DEF JustCompacted
  <2>7. ~MayCompact(path)
    <3>1. Len(path) = n + 1 /\ path[n + 1] = C
      BY <1>4, <2>1
    <3> QED
      BY <1>5, <3>1 DEF MayCompact, Last
  <2> QED
    BY <1>2, <2>6, <2>7
<1>7. CASE n < k
  <2>1. Compactable(path) = SubSeq(msgs, c, Len(msgs)) /\ MayCompact(path)
    BY <1>7, KeptAndAfter
  <2> HIDE DEF es, r, C
  <2>2. IsPath(path, msgs, n, C)
    BY PathIs
  <2> HIDE DEF path
  <2> DEFINE t == SubSeq(msgs, c, Len(msgs))
  <2>3. /\ t \in Seq(Message) /\ Len(t) = k - c + 1
        /\ \A i \in 1..k - c + 1 : t[i] = msgs[c - 1 + i]
    BY <1>3, EndIs
  <2> HIDE DEF t
  <2>4. Len(t) > 0 /\ t[1].role # "toolResult"
    <3>1. 1 \in 1..k - c + 1 /\ c - 1 + 1 = c /\ k - c + 1 > 0
      BY <1>3
    <3>2. t[1] = msgs[c]
      BY <2>3, <3>1
    <3> QED
      BY <1>1, <2>3, <3>1, <3>2
  <2>e. PICK e \in 1..Len(t) : \E more_covers :
          /\ t[e].role # "toolResult"
          /\ \A i \in 1..e - 1 : t[i] \in more_covers
          /\ Compact(path, second) = Append(path, Compacted(more_covers, SubSeq(t, e, Len(t))))
    <3>1. t = Compactable(path)
      BY <2>1 DEF t
    <3> QED
      BY <2>3, <2>4, <3>1, CompactIs
  <2>5. PICK more_covers :
          /\ t[e].role # "toolResult"
          /\ \A i \in 1..e - 1 : t[i] \in more_covers
          /\ Compact(path, second) = Append(path, Compacted(more_covers, SubSeq(t, e, Len(t))))
    BY <2>e
  <2>6. c + e - 1 \in 1..k /\ SubSeq(t, e, Len(t)) = SubSeq(msgs, c + e - 1, k)
    BY <1>3, EndOfEnd DEF t
  <2>7. PICK d \in 1..k : d = c + e - 1
    BY <2>6
  <2> DEFINE s == SubSeq(msgs, d, Len(msgs))
             new == Compact(path, second)
  <2>8. s \in Seq(Message)
    BY <2>7, EndIs
  <2>9. new = Append(path, Compacted(more_covers, s))
    BY <2>5, <2>6, <2>7
  <2> HIDE DEF s, new
  <2>10. path \in Seq(Message \cup {C}) /\ Len(path) = k + 1 /\ path[n + 1] = C
    BY <2>2 DEF IsPath
  <2>11. JustCompacted(new, path, more_covers, s)
    BY <2>8, <2>9, <2>10, AfterCompact
  <2>12. covers \subseteq Summarized(new)
    <3>1. n + 1 \in 1..Len(path)
      BY <1>3, <2>10
    <3> QED
      BY <1>5, <2>10, <2>11, <3>1 DEF JustCompacted
  <2>13. msgs[d].role # "toolResult"
    <3>1. e \in 1..k - c + 1 /\ c - 1 + e = d
      BY <1>3, <2>3, <2>7
    <3> QED
      BY <2>3, <2>5, <3>1
  <2>14. ASSUME NEW i \in 1..d - 1 PROVE msgs[i] \in Summarized(new)
    <3>1. CASE i < c
      <4>1. i \in 1..c - 1
        BY <1>3, <3>1
      <4> QED
        BY <1>1, <2>12, <4>1
    <3>2. CASE ~(i < c)
      <4>1. PICK j \in 1..e - 1 : j = i - c + 1
        BY <1>3, <2>3, <2>7, <3>2
      <4>2. j \in 1..k - c + 1 /\ c - 1 + j = i
        BY <1>3, <2>3, <4>1
      <4>3. msgs[i] = t[j] /\ t[j] \in more_covers
        BY <2>3, <2>5, <4>1, <4>2
      <4> QED
        BY <2>11, <4>3 DEF JustCompacted
    <3> QED
      BY <3>1, <3>2
  <2>15. KeepsTheEnd(msgs, new)
    BY <2>11, <2>13, <2>14, EndIsKept DEF s, JustCompacted
  <2> QED
    BY <1>2, <2>1, <2>15 DEF new
<1> QED
  BY <1>3, <1>6, <1>7

(* What is sent of a conversation that was compacted, and compacted again, can be answered,
   ends as the conversation does, and misses only messages that were summarized
   (compaction.ts:312, context.ts:90), wherever the first compaction was made. *)
THEOREM CompactionIsFaithful == Spec => []CompactionKeepsTheEnd
<1>1. IInv /\ TranscriptOK => CompactionKeepsTheEnd
  <2> SUFFICES ASSUME IInv, TranscriptOK, NEW n \in DOMAIN messages, NEW k \in Keeps, NEW l \in Keeps
               PROVE  KeepsTheEnd(messages, Twice(messages, n, k, l))
    BY DEF CompactionKeepsTheEnd, Compactions
  <2>1. messages \in Seq(Message) /\ ResultsFollow(messages)
    BY BatchFacts DEF TranscriptOK
  <2>2. n \in 1..Len(messages) /\ k \in Nat /\ l \in Nat
    BY <2>1 DEF Keeps
  <2> QED
    BY <2>1, <2>2, TwiceKeepsTheEnd
<1> QED
  BY <1>1, AgentInvariant, TranscriptInvariant, PTL
=============================================================================
