------------------------ MODULE CodexResponsesProofs ------------------------
(***************************************************************************)
(* Proofs about CodexResponses, for any number of requests, connections,   *)
(* accounts and retries. A connection is busy exactly while a request uses *)
(* it, as long as the cache knows it: a request that finds one that is not *)
(* busy there may take it, and one that it leaves has a timer. What the    *)
(* server remembers is what the client goes on from, but for the parts of  *)
(* an attempt that was given up, which only the client has.                *)
(***************************************************************************)
EXTENDS CodexResponses, SequenceTheorems, TLAPS

Utterance ==
    {Question(r) : r \in Requests} \cup {Reply(r) : r \in Requests} \cup {Mixed(r) : r \in Requests}
        \cup {<<"summary">>}
Conversation == Seq(Utterance)

Call ==
    [pc : {"new", "acquire", "connecting", "streaming", "fetch", "reading", "sleep", "done", "error"},
     account : Accounts \cup {None}, input : Conversation, socket : Sockets \cup {None},
     kept : BOOLEAN, seen : Conversation, delta : BOOLEAN, started : BOOLEAN, starts : Nat,
     part : BOOLEAN, stray : Nat, limit : BOOLEAN, missing : BOOLEAN, attempt : Nat, aborted : BOOLEAN]

Socket ==
    [open : BOOLEAN, busy : BOOLEAN, old : BOOLEAN, timer : BOOLEAN, account : Accounts \cup {None},
     continuation : Conversation \cup {None}, server : Conversation \cup {None}]

TypeOK ==
    /\ calls \in [Requests -> Call]
    /\ sockets \in [Sockets -> Socket]
    /\ cache \in [Accounts -> Sockets \cup {None}]
    /\ fallback \in BOOLEAN

(* What a reader has of a request: parts only behind the start event, and parts of an attempt
   that was given up only if the backend lost the response to go on from. *)
Told(c) ==
    /\ c.part => c.started
    /\ c.started \/ c.stray > 0 => c.starts = 1
    /\ c.starts <= 1
    /\ c.stray <= IF c.missing THEN 1 ELSE 0

(* A request on a connection has told the server the whole conversation; one that is not
   answering has not begun. *)
CallOK(c) ==
    /\ c.pc = "streaming" => c.socket \in Sockets /\ Answers(c.seen, c.input)
    /\ c.pc \in {"acquire", "connecting", "streaming"} => c.account \in Accounts
    /\ c.pc \notin {"streaming", "reading"} => ~c.started
    /\ c.pc = "reading" => c.starts = 1
    /\ Told(c)

CallsOK == \A r \in Requests : CallOK(calls[r])

(* The server remembers what the client goes on from, with its own replies. *)
Knows(e) == e.continuation # None =>
    /\ e.continuation \in Conversation /\ e.server \in Conversation
    /\ Answers(e.server, e.continuation)

ServerRemembers == \A s \in Sockets : Knows(sockets[s])

OneUser == \A r, q \in Requests, s \in Sockets : Uses(r, s) /\ Uses(q, s) => q = r
UserHasTheAccount == \A r \in Requests, s \in Sockets :
    Uses(r, s) /\ sockets[s].open => sockets[s].account = calls[r].account
EntryHasTheAccount == \A a \in Accounts, s \in Sockets :
    cache[a] = s /\ sockets[s].open => sockets[s].account = a
BusyIsUsed == \A s \in Sockets : sockets[s].busy => InUse(s)
CachedAndUsedIsBusy == \A s \in Sockets : Cached(s) /\ InUse(s) => sockets[s].busy
UnusedHasATimer == \A s \in Sockets : sockets[s].open => InUse(s) \/ sockets[s].timer

SocketsOK ==
    /\ ServerRemembers
    /\ OneUser
    /\ UserHasTheAccount
    /\ EntryHasTheAccount
    /\ BusyIsUsed
    /\ CachedAndUsedIsBusy
    /\ UnusedHasATimer

IInv == TypeOK /\ CallsOK /\ SocketsOK

-----------------------------------------------------------------------------
(* Conversations *)

(* Questions and replies are said in conversations. *)
LEMMA UtteranceType ==
    ASSUME NEW r \in Requests
    PROVE  Question(r) \in Utterance /\ Reply(r) \in Utterance /\ Mixed(r) \in Utterance
BY DEF Utterance

(* What a connection still has to be told completes what it has carried. *)
LEMMA DeltaCompletes ==
    ASSUME NEW input \in Conversation, NEW base \in Conversation, InputDelta(input, base) # None
    PROVE  /\ InputDelta(input, base) \in Conversation
           /\ base \o InputDelta(input, base) = input
<1> DEFINE delta == SubSeq(input, Len(base) + 1, Len(input))
<1>1. IsPrefix(base, input) /\ InputDelta(input, base) = delta
  BY DEF InputDelta
<1>2. /\ Len(base) \in Nat /\ Len(input) \in Nat /\ Len(base) <= Len(input)
      /\ SubSeq(base, 1, Len(base)) = SubSeq(input, 1, Len(base))
      /\ base \in Seq(Utterance) /\ input \in Seq(Utterance)
  BY <1>1 DEF IsPrefix, Conversation
<1>3. \A i \in 1..Len(base) : base[i] = input[i]
  <2> SUFFICES ASSUME NEW i \in 1..Len(base) PROVE base[i] = input[i]
    OBVIOUS
  <2>1. SubSeq(base, 1, Len(base))[i] = base[i]
    BY <1>2
  <2>2. SubSeq(input, 1, Len(base))[i] = input[i]
    BY <1>2
  <2> QED
    BY <1>2, <2>1, <2>2
<1>4. /\ delta \in Seq(Utterance) /\ Len(delta) = Len(input) - Len(base)
      /\ \A i \in 1..Len(delta) : delta[i] = input[Len(base) + i]
  BY <1>2
<1> HIDE DEF delta
<1>5. base \o delta \in Seq(Utterance) /\ Len(base \o delta) = Len(input)
  BY <1>2, <1>4
<1>6. \A i \in 1..Len(input) : (base \o delta)[i] = input[i]
  <2> SUFFICES ASSUME NEW i \in 1..Len(input) PROVE (base \o delta)[i] = input[i]
    OBVIOUS
  <2>1. CASE i <= Len(base)
    BY <1>2, <1>3, <1>4, <2>1
  <2>2. CASE i > Len(base)
    <3>1. i - Len(base) \in 1..Len(delta) /\ (base \o delta)[i] = delta[i - Len(base)]
      BY <1>2, <1>4, <2>2
    <3>2. delta[i - Len(base)] = input[Len(base) + (i - Len(base))]
      BY <1>4, <3>1
    <3>3. Len(base) + (i - Len(base)) = i
      BY <1>2
    <3> QED
      BY <3>1, <3>2, <3>3
  <2>3. i <= Len(base) \/ i > Len(base)
    BY <1>2
  <2> QED
    BY <2>1, <2>2, <2>3
<1>7. base \o delta = input
  BY <1>2, <1>5, <1>6, SeqEqual
<1> QED
  BY <1>1, <1>4, <1>7 DEF Conversation

(* A conversation answers itself. *)
LEMMA AnswersItself == ASSUME NEW h \in Conversation PROVE Answers(h, h)
BY DEF Answers

(* What is added to both sides is answered on both. *)
LEMMA AnswersMore ==
    ASSUME NEW seen \in Conversation, NEW base \in Conversation, NEW delta \in Conversation,
           Answers(seen, base)
    PROVE  seen \o delta \in Conversation /\ Answers(seen \o delta, base \o delta)
<1>1. /\ seen \in Seq(Utterance) /\ base \in Seq(Utterance) /\ delta \in Seq(Utterance)
      /\ Len(seen) = Len(base) /\ Len(base) \in Nat /\ Len(delta) \in Nat
  BY DEF Conversation, Answers
<1>2. /\ seen \o delta \in Seq(Utterance) /\ Len(seen \o delta) = Len(base \o delta)
      /\ Len(base \o delta) = Len(base) + Len(delta)
  BY <1>1
<1>3. ASSUME NEW i \in 1..Len(base \o delta)
      PROVE  \/ (seen \o delta)[i] = (base \o delta)[i]
             \/ \E q \in Requests : (base \o delta)[i] = Mixed(q) /\ (seen \o delta)[i] = Reply(q)
  <2>1. CASE i <= Len(base)
    <3>1. i \in 1..Len(base) /\ (seen \o delta)[i] = seen[i] /\ (base \o delta)[i] = base[i]
      BY <1>1, <1>2, <2>1
    <3> QED
      BY <3>1 DEF Answers
  <2>2. CASE i > Len(base)
    BY <1>1, <1>2, <2>2
  <2> QED
    BY <1>1, <1>2, <2>1, <2>2
<1> QED
  BY <1>2, <1>3 DEF Conversation, Answers

(* What a request may be made with is a conversation. *)
LEMMA InputsType ==
    ASSUME TypeOK, NEW r \in Requests
    PROVE  Inputs(r) \subseteq Conversation
<1>1. \A h \in Replied : h \in Conversation
  <2> SUFFICES ASSUME NEW q \in Requests PROVE Append(calls[q].input, Said(q)) \in Conversation
    BY DEF Replied
  <2>1. calls[q].input \in Conversation
    BY DEF TypeOK, Call
  <2>2. Said(q) \in Utterance
    BY UtteranceType DEF Said
  <2> QED
    BY <2>1, <2>2 DEF Conversation
<1>2. \A h \in Conversation : Rewritten(h) \in Conversation
  <2> SUFFICES ASSUME NEW h \in Seq(Utterance) PROVE [h EXCEPT ![1] = <<"summary">>] \in Seq(Utterance)
    BY DEF Rewritten, Conversation
  <2>1. <<"summary">> \in Utterance
    BY DEF Utterance
  <2>2. h \in [1..Len(h) -> Utterance] /\ Len(h) \in Nat
    OBVIOUS
  <2>3. [h EXCEPT ![1] = <<"summary">>] \in [1..Len(h) -> Utterance]
    BY <2>1, <2>2
  <2> QED
    BY <2>2, <2>3
<1>3. \A h \in Conversation : Append(h, Question(r)) \in Conversation
  BY UtteranceType DEF Conversation
<1>4. <<Question(r)>> \in Conversation
  BY UtteranceType DEF Conversation
<1> QED
  BY <1>1, <1>2, <1>3, <1>4 DEF Inputs

-----------------------------------------------------------------------------
(* Steps of one request *)

(* Only request r changes, and it stays well-formed. *)
Only(r) ==
    /\ calls' \in [Requests -> Call]
    /\ CallOK(calls'[r])
    /\ \A q \in Requests : q # r => calls'[q] = calls[q]

(* When only one request changes, the requests stay well-formed. *)
LEMMA OnlyCallsOK ==
    ASSUME CallsOK, NEW r \in Requests, Only(r)
    PROVE  CallsOK'
BY DEF CallsOK, Only, CallOK

(* A change of one request that is well-formed is a change of that request only. *)
LEMMA OnlyOne ==
    ASSUME TypeOK, NEW r \in Requests, NEW c \in Call, CallOK(c), calls' = [calls EXCEPT ![r] = c]
    PROVE  Only(r) /\ calls'[r] = c
BY DEF TypeOK, Only

(* A request that uses no connection before and after, or goes on using the one it uses,
   does not disturb the connections. *)
LEMMA QuietInv ==
    ASSUME IInv, NEW r \in Requests, Only(r), UNCHANGED <<sockets, cache>>, fallback' \in BOOLEAN,
           \/ calls[r].pc # "streaming" /\ calls'[r].pc # "streaming"
           \/ /\ calls[r].pc = "streaming" /\ calls'[r].pc = "streaming"
              /\ calls'[r].socket = calls[r].socket /\ calls'[r].account = calls[r].account
    PROVE  IInv'
<1>1. TypeOK' /\ CallsOK'
  BY OnlyCallsOK DEF IInv, TypeOK, Only
<1>2. \A q \in Requests, s \in Sockets : Uses(q, s)' <=> Uses(q, s)
  BY DEF Uses, Only
<1>3. \A s \in Sockets : (InUse(s)' <=> InUse(s)) /\ (Cached(s)' <=> Cached(s))
  BY <1>2 DEF InUse, Cached
<1>4. \A q \in Requests, s \in Sockets : Uses(q, s) => calls'[q].account = calls[q].account
  BY DEF Uses, Only
<1>5. OneUser'
  BY <1>2 DEF OneUser, IInv, SocketsOK
<1>6. UserHasTheAccount'
  BY <1>2, <1>4 DEF UserHasTheAccount, IInv, SocketsOK
<1>7. (ServerRemembers /\ EntryHasTheAccount)'
  BY DEF ServerRemembers, EntryHasTheAccount, IInv, SocketsOK
<1>8. (BusyIsUsed /\ CachedAndUsedIsBusy /\ UnusedHasATimer)'
  BY <1>3 DEF BusyIsUsed, CachedAndUsedIsBusy, UnusedHasATimer, IInv, SocketsOK
<1> QED
  BY <1>1, <1>5, <1>6, <1>7, <1>8 DEF IInv, SocketsOK

(* There may be no connection. *)
LEMMA NoSocketType ==
    NoSocket \in Socket /\ ~NoSocket.open /\ NoSocket.continuation = None
BY DEF NoSocket, Socket

(* Closing a connection leaves the others as they are, and of it only whether it is busy
   and has a timer. *)
LEMMA ShutEffect ==
    ASSUME NEW ss \in [Sockets -> Socket], NEW s \in Sockets
    PROVE  /\ Shut(ss, s) \in [Sockets -> Socket]
           /\ \A t \in Sockets : t # s => Shut(ss, s)[t] = ss[t]
           /\ ~Shut(ss, s)[s].open /\ Shut(ss, s)[s].continuation = None
           /\ Shut(ss, s)[s].busy = ss[s].busy /\ Shut(ss, s)[s].timer = ss[s].timer
<1> DEFINE shut == [NoSocket EXCEPT !.busy = ss[s].busy, !.timer = ss[s].timer]
<1>1. ss[s].busy \in BOOLEAN /\ ss[s].timer \in BOOLEAN
  BY DEF Socket
<1>2. /\ shut \in Socket /\ ~shut.open /\ shut.continuation = None
      /\ shut.busy = ss[s].busy /\ shut.timer = ss[s].timer
  BY <1>1, NoSocketType DEF Socket
<1>3. Shut(ss, s) = [ss EXCEPT ![s] = shut]
  BY DEF Shut
<1> HIDE DEF shut
<1> QED
  BY <1>2, <1>3

(* Taking a connection out of the cache leaves the other entries as they are. *)
LEMMA WithoutEffect ==
    ASSUME TypeOK, NEW s \in Sockets, cache' = Without(s)
    PROVE  /\ cache' \in [Accounts -> Sockets \cup {None}]
           /\ ~Cached(s)'
           /\ \A a \in Accounts, t \in Sockets : cache'[a] = t => cache[a] = t
           /\ \A t \in Sockets : Cached(t)' => Cached(t)
<1>1. \A a \in Accounts : cache'[a] = IF cache[a] = s THEN None ELSE cache[a]
  BY DEF Without
<1>2. cache' \in [Accounts -> Sockets \cup {None}]
  BY DEF Without, TypeOK
<1>3. \A a \in Accounts, t \in Sockets : cache'[a] = t => cache[a] = t /\ t # s
  BY <1>1, NoneAssumption
<1> QED
  BY <1>2, <1>3 DEF Cached

(* What a finished conversation leaves on a connection is what the client goes on from. *)
LEMMA KeptIsRemembered ==
    ASSUME TypeOK, CallsOK, NEW r \in Requests, calls[r].pc = "streaming"
    PROVE  /\ Append(calls[r].input, Said(r)) \in Conversation
           /\ Append(calls[r].seen, Reply(r)) \in Conversation
           /\ Answers(Append(calls[r].seen, Reply(r)), Append(calls[r].input, Said(r)))
<1> DEFINE input == calls[r].input
           seen == calls[r].seen
<1>1. input \in Conversation /\ seen \in Conversation /\ Answers(seen, input)
  BY DEF TypeOK, CallsOK, CallOK, Call
<1>2. Said(r) \in Utterance /\ Reply(r) \in Utterance
  BY UtteranceType DEF Said
<1>3. Said(r) = Reply(r) \/ Said(r) = Mixed(r)
  BY DEF Said
<1> HIDE DEF input, seen
<1>4. /\ input \in Seq(Utterance) /\ seen \in Seq(Utterance)
      /\ Len(seen) = Len(input) /\ Len(input) \in Nat
  BY <1>1 DEF Conversation, Answers
<1> DEFINE said == Append(input, Said(r))
           known == Append(seen, Reply(r))
<1>5. /\ said \in Seq(Utterance) /\ known \in Seq(Utterance)
      /\ Len(said) = Len(input) + 1 /\ Len(known) = Len(input) + 1
      /\ said[Len(input) + 1] = Said(r) /\ known[Len(input) + 1] = Reply(r)
      /\ \A i \in 1..Len(input) : said[i] = input[i] /\ known[i] = seen[i]
  BY <1>2, <1>4
<1> HIDE DEF said, known
<1>6. ASSUME NEW i \in 1..Len(said)
      PROVE  \/ known[i] = said[i]
             \/ \E q \in Requests : said[i] = Mixed(q) /\ known[i] = Reply(q)
  <2>1. CASE i = Len(input) + 1
    BY <1>3, <1>5, <2>1
  <2>2. CASE i \in 1..Len(input)
    BY <1>1, <1>5, <2>2 DEF Answers
  <2> QED
    BY <1>4, <1>5, <2>1, <2>2
<1>7. Answers(known, said)
  BY <1>5, <1>6 DEF Answers
<1> QED
  BY <1>5, <1>7 DEF Conversation, said, known, input, seen

(* A request that leaves its connection leaves it idle with a timer, or closed and forgotten;
   nobody else used it. *)
LEMMA LeaveInv ==
    ASSUME IInv, NEW r \in Requests, Only(r), calls[r].pc = "streaming", calls'[r].pc # "streaming",
           Keep(r) \/ Drop(r), fallback' \in BOOLEAN
    PROVE  IInv'
<1>1. TypeOK /\ CallsOK /\ SocketsOK
  BY DEF IInv
<1>s. PICK s \in Sockets : s = calls[r].socket
  BY <1>1 DEF CallsOK, CallOK
<1>2. s \in Sockets /\ sockets[s] \in Socket /\ Uses(r, s)
  BY <1>1, <1>s DEF TypeOK, Uses
<1>3. /\ sockets' \in [Sockets -> Socket] /\ cache' \in [Accounts -> Sockets \cup {None}]
      /\ \A t \in Sockets : t # s => sockets'[t] = sockets[t]
      /\ \A a \in Accounts, t \in Sockets : cache'[a] = t => cache[a] = t
      /\ \A t \in Sockets : Cached(t)' => Cached(t)
      /\ ~sockets'[s].busy
      /\ Knows(sockets'[s])
      /\ sockets'[s].open => sockets'[s].timer /\ sockets[s].open
                             /\ sockets'[s].account = sockets[s].account
  <2>1. CASE Drop(r)
    <3> DEFINE ss == [sockets EXCEPT ![s].busy = FALSE]
    <3>1. /\ ss \in [Sockets -> Socket] /\ ~ss[s].busy
          /\ \A t \in Sockets : t # s => ss[t] = sockets[t]
      BY <1>1, <1>2 DEF TypeOK, Socket
    <3>2. sockets' = Shut(ss, s) /\ cache' = Without(s)
      BY <1>s, <2>1 DEF Drop
    <3> HIDE DEF ss
    <3>3. Knows(sockets'[s])
      BY <1>2, <3>1, <3>2, ShutEffect DEF Knows
    <3> QED
      BY <1>1, <1>2, <3>1, <3>2, <3>3, ShutEffect, WithoutEffect
  <2>2. CASE Keep(r) /\ ~Drop(r)
    <3> DEFINE kept == [sockets[s] EXCEPT !.busy = FALSE, !.timer = TRUE,
                          !.continuation = Append(calls[r].input, Said(r)),
                          !.server = Append(calls[r].seen, Reply(r))]
    <3>1. sockets' = [sockets EXCEPT ![s] = kept] /\ cache' = cache
      BY <1>s, <2>2 DEF Keep, Drop
    <3>2. /\ kept \in Socket /\ ~kept.busy /\ kept.timer
          /\ kept.continuation = Append(calls[r].input, Said(r))
          /\ kept.server = Append(calls[r].seen, Reply(r))
          /\ kept.open = sockets[s].open /\ kept.account = sockets[s].account
      BY <1>1, <1>2, KeptIsRemembered DEF Socket
    <3> HIDE DEF kept
    <3>5. Knows(kept)
      BY <1>1, <3>2, KeptIsRemembered DEF Knows
    <3>3. sockets' \in [Sockets -> Socket] /\ sockets'[s] = kept
      BY <1>1, <1>2, <3>1, <3>2 DEF TypeOK
    <3>4. \A t \in Sockets : t # s => sockets'[t] = sockets[t]
      BY <1>1, <3>1 DEF TypeOK
    <3> QED
      BY <1>1, <3>1, <3>2, <3>3, <3>4, <3>5 DEF TypeOK, Cached
  <2> QED
    BY <2>1, <2>2
<1>4. TypeOK' /\ CallsOK'
  BY <1>1, <1>3, OnlyCallsOK DEF TypeOK, Only
<1>5. \A q \in Requests, t \in Sockets : Uses(q, t)' <=> Uses(q, t) /\ q # r
  BY DEF Uses, Only
<1>6. /\ \A t \in Sockets : t # s => (InUse(t)' <=> InUse(t))
      /\ ~InUse(s)'
  <2>1. ~InUse(s)'
    <3> SUFFICES ASSUME NEW q \in Requests, Uses(q, s)' PROVE FALSE
      BY DEF InUse
    <3>1. Uses(q, s) /\ q # r
      BY <1>2, <1>5
    <3> QED
      BY <1>1, <1>2, <3>1 DEF SocketsOK, OneUser
  <2>2. \A t \in Sockets : t # s => ~Uses(r, t)
    BY <1>s DEF Uses
  <2> QED
    BY <1>5, <2>1, <2>2 DEF InUse
<1>7. ServerRemembers'
  BY <1>1, <1>2, <1>3 DEF SocketsOK, ServerRemembers
<1>8. OneUser'
  BY <1>1, <1>5 DEF SocketsOK, OneUser
<1>9. UserHasTheAccount'
  <2> SUFFICES ASSUME NEW q \in Requests, NEW t \in Sockets, Uses(q, t)', sockets'[t].open
               PROVE  sockets'[t].account = calls'[q].account
    BY DEF UserHasTheAccount
  <2>1. Uses(q, t) /\ q # r /\ calls'[q] = calls[q] /\ t # s
    BY <1>1, <1>2, <1>5 DEF Only, SocketsOK, OneUser
  <2> QED
    BY <1>1, <1>3, <2>1 DEF SocketsOK, UserHasTheAccount
<1>10. EntryHasTheAccount'
  <2> SUFFICES ASSUME NEW a \in Accounts, NEW t \in Sockets, cache'[a] = t, sockets'[t].open
               PROVE  sockets'[t].account = a
    BY DEF EntryHasTheAccount
  <2>1. cache[a] = t /\ sockets[t].open /\ sockets'[t].account = sockets[t].account
    BY <1>3
  <2> QED
    BY <1>1, <2>1 DEF SocketsOK, EntryHasTheAccount
<1>11. BusyIsUsed'
  BY <1>1, <1>2, <1>3, <1>6 DEF SocketsOK, BusyIsUsed
<1>12. CachedAndUsedIsBusy'
  BY <1>1, <1>2, <1>3, <1>6 DEF SocketsOK, CachedAndUsedIsBusy
<1>13. UnusedHasATimer'
  BY <1>1, <1>2, <1>3, <1>6 DEF SocketsOK, UnusedHasATimer
<1> QED
  BY <1>4, <1>7, <1>8, <1>9, <1>10, <1>11, <1>12, <1>13 DEF IInv, SocketsOK

(* A request that is sent has told the server the whole conversation, whatever part of it
   it sent. *)
LEMMA SendEffect ==
    ASSUME TypeOK, NEW r \in Requests, NEW c \in Call, CallOK(c), c.account \in Accounts, ~c.started,
           NEW ss \in [Sockets -> Socket], NEW s \in Sockets,
           Knows(ss[s]), Send(r, c, ss, s)
    PROVE  /\ Only(r) /\ calls'[r].pc = "streaming" /\ calls'[r].socket = s
           /\ calls'[r].account = c.account
           /\ sockets' \in [Sockets -> Socket]
           /\ \A t \in Sockets : t # s => sockets'[t] = ss[t]
           /\ sockets'[s].open = ss[s].open /\ sockets'[s].busy = ss[s].busy
           /\ sockets'[s].account = ss[s].account
           /\ Knows(sockets'[s])
<1> DEFINE cont == ss[s].continuation
           delta == IF cont = None THEN None ELSE InputDelta(c.input, cont)
           seen == IF delta = None THEN c.input ELSE ss[s].server \o delta
           sent == [c EXCEPT !.pc = "streaming", !.socket = s, !.seen = seen, !.delta = delta # None,
                             !.started = FALSE]
<1>1. c.input \in Conversation
  BY DEF Call
<1>2. seen \in Conversation /\ Answers(seen, c.input)
  <2>1. CASE delta = None
    BY <1>1, <2>1, AnswersItself
  <2>2. CASE delta # None
    <3>1. /\ cont \in Conversation /\ ss[s].server \in Conversation /\ Answers(ss[s].server, cont)
          /\ InputDelta(c.input, cont) # None /\ delta = InputDelta(c.input, cont)
      BY <2>2 DEF Knows
    <3>2. delta \in Conversation /\ cont \o delta = c.input
      BY <1>1, <3>1, DeltaCompletes
    <3>3. seen = ss[s].server \o delta
      BY <2>2
    <3> HIDE DEF cont, delta, seen
    <3>4. ss[s].server \o delta \in Conversation /\ Answers(ss[s].server \o delta, cont \o delta)
      BY <3>1, <3>2, AnswersMore
    <3> QED
      BY <3>2, <3>3, <3>4
  <2> QED
    BY <2>1, <2>2
<1>3. calls' = [calls EXCEPT ![r] = sent]
  BY DEF Send
<1>4. sockets' = ss \/ sockets' = [ss EXCEPT ![s].continuation = None]
  BY DEF Send
<1> HIDE DEF seen, delta
<1>5. /\ sent \in Call /\ sent.pc = "streaming" /\ sent.socket = s /\ sent.seen = seen
      /\ sent.input = c.input /\ sent.account = c.account /\ ~sent.started
      /\ sent.starts = c.starts /\ sent.part = c.part /\ sent.stray = c.stray
      /\ sent.missing = c.missing
  BY <1>1, <1>2 DEF Call
<1> HIDE DEF sent
<1>6. CallOK(sent)
  BY <1>2, <1>5 DEF CallOK, Told
<1>7. Only(r) /\ calls'[r] = sent
  BY <1>3, <1>5, <1>6, OnlyOne
<1>8. /\ sockets' \in [Sockets -> Socket]
      /\ \A t \in Sockets : t # s => sockets'[t] = ss[t]
  BY <1>4 DEF Socket
<1>9. /\ sockets'[s].open = ss[s].open /\ sockets'[s].busy = ss[s].busy
      /\ sockets'[s].account = ss[s].account /\ sockets'[s].server = ss[s].server
      /\ sockets'[s].continuation = ss[s].continuation \/ sockets'[s].continuation = None
  BY <1>4 DEF Socket
<1>10. Knows(sockets'[s])
  BY <1>9 DEF Knows
<1> QED
  BY <1>5, <1>7, <1>8, <1>9, <1>10

(* A request that takes a connection that nobody uses, its own account's and busy if it is in
   the cache, is the only one on it. *)
LEMMA TakeInv ==
    ASSUME IInv, NEW r \in Requests, NEW s \in Sockets, Only(r), calls[r].pc # "streaming",
           calls'[r].pc = "streaming", calls'[r].socket = s, ~InUse(s), fallback' \in BOOLEAN,
           sockets' \in [Sockets -> Socket], cache' \in [Accounts -> Sockets \cup {None}],
           \A t \in Sockets : t # s => sockets'[t] = sockets[t],
           sockets'[s].open => sockets'[s].account = calls'[r].account,
           Knows(sockets'[s]),
           \A a \in Accounts, t \in Sockets : cache'[a] = t => cache[a] = t \/ t = s,
           \A a \in Accounts : cache'[a] = s =>
               sockets'[s].busy /\ (sockets'[s].open => sockets'[s].account = a)
    PROVE  IInv'
<1>1. TypeOK /\ CallsOK /\ SocketsOK
  BY DEF IInv
<1>2. TypeOK' /\ CallsOK'
  BY <1>1, OnlyCallsOK DEF TypeOK, Only
<1>3. \A q \in Requests, t \in Sockets : Uses(q, t)' <=> IF q = r THEN t = s ELSE Uses(q, t)
  BY DEF Uses, Only
<1>4. \A t \in Sockets : ~Uses(r, t)
  BY DEF Uses
<1>5. InUse(s)' /\ \A t \in Sockets : t # s => (InUse(t)' <=> InUse(t))
  BY <1>3, <1>4 DEF InUse
<1>6. ServerRemembers'
  BY <1>1 DEF SocketsOK, ServerRemembers
<1>7. OneUser'
  BY <1>1, <1>3 DEF SocketsOK, OneUser, InUse
<1>8. UserHasTheAccount'
  <2> SUFFICES ASSUME NEW q \in Requests, NEW t \in Sockets, Uses(q, t)', sockets'[t].open
               PROVE  sockets'[t].account = calls'[q].account
    BY DEF UserHasTheAccount
  <2>1. CASE q = r
    BY <1>3, <2>1
  <2>2. CASE q # r
    <3>1. Uses(q, t) /\ t # s /\ calls'[q] = calls[q]
      BY <1>3, <2>2 DEF InUse, Only
    <3> QED
      BY <1>1, <3>1 DEF SocketsOK, UserHasTheAccount
  <2> QED
    BY <2>1, <2>2
<1>9. EntryHasTheAccount'
  BY <1>1 DEF SocketsOK, EntryHasTheAccount
<1>10. BusyIsUsed'
  BY <1>1, <1>5 DEF SocketsOK, BusyIsUsed
<1>11. CachedAndUsedIsBusy'
  <2> SUFFICES ASSUME NEW t \in Sockets, Cached(t)', InUse(t)' PROVE sockets'[t].busy
    BY DEF CachedAndUsedIsBusy
  <2>1. CASE t = s
    BY <2>1 DEF Cached
  <2>2. CASE t # s
    <3>1. Cached(t) /\ InUse(t)
      BY <1>5, <2>2 DEF Cached
    <3> QED
      BY <1>1, <2>2, <3>1 DEF SocketsOK, CachedAndUsedIsBusy
  <2> QED
    BY <2>1, <2>2
<1>12. UnusedHasATimer'
  BY <1>1, <1>5 DEF SocketsOK, UnusedHasATimer
<1> QED
  BY <1>2, <1>6, <1>7, <1>8, <1>9, <1>10, <1>11, <1>12 DEF IInv, SocketsOK

(* A connection that is closed, out of use or not, or whose timer or age changes is no less
   well kept: what is open and unused keeps its timer. *)
LEMMA SocketInv ==
    ASSUME IInv, calls' \in [Requests -> Call], CallsOK',
           \A q \in Requests, t \in Sockets : Uses(q, t)' <=> Uses(q, t),
           \A q \in Requests, t \in Sockets : Uses(q, t) => calls'[q].account = calls[q].account,
           fallback' \in BOOLEAN,
           sockets' \in [Sockets -> Socket], cache' \in [Accounts -> Sockets \cup {None}],
           \A a \in Accounts, t \in Sockets : cache'[a] = t => cache[a] = t,
           \A t \in Sockets :
               /\ sockets'[t].busy = sockets[t].busy
               /\ sockets'[t].open => /\ sockets[t].open /\ sockets'[t].account = sockets[t].account
                                      /\ sockets'[t].timer = sockets[t].timer \/ InUse(t)
               /\ sockets'[t].continuation # None =>
                     /\ sockets'[t].continuation = sockets[t].continuation
                     /\ sockets'[t].server = sockets[t].server
    PROVE  IInv'
<1>1. TypeOK /\ CallsOK /\ SocketsOK
  BY DEF IInv
<1>2. TypeOK' /\ CallsOK'
  BY DEF TypeOK
<1>3. \A t \in Sockets : (InUse(t)' <=> InUse(t)) /\ (Cached(t)' => Cached(t))
  BY DEF InUse, Cached
<1>4. ServerRemembers'
  BY <1>1 DEF SocketsOK, ServerRemembers, Knows
<1>5. OneUser'
  BY <1>1 DEF SocketsOK, OneUser
<1>6. UserHasTheAccount'
  BY <1>1 DEF SocketsOK, UserHasTheAccount
<1>7. EntryHasTheAccount'
  BY <1>1 DEF SocketsOK, EntryHasTheAccount
<1>8. (BusyIsUsed /\ CachedAndUsedIsBusy /\ UnusedHasATimer)'
  BY <1>1, <1>3 DEF SocketsOK, BusyIsUsed, CachedAndUsedIsBusy, UnusedHasATimer
<1> QED
  BY <1>2, <1>4, <1>5, <1>6, <1>7, <1>8 DEF IInv, SocketsOK

-----------------------------------------------------------------------------
(* What becomes of a request *)

(* A request that ends is well-formed. *)
LEMMA EndEffect ==
    ASSUME TypeOK, CallsOK, NEW r \in Requests, NEW pc \in {"done", "error"}, End(r, pc)
    PROVE  Only(r) /\ calls'[r].pc # "streaming"
<1>1. <<>> \in Conversation
  BY DEF Conversation
<1>2. calls[r] \in Call /\ Told(calls[r])
  BY DEF TypeOK, CallsOK, CallOK
<1>3. CASE pc = "done"
  <2> DEFINE c == [NewCall EXCEPT !.pc = pc, !.input = calls[r].input, !.starts = calls[r].starts,
                                  !.stray = calls[r].stray, !.missing = calls[r].missing]
  <2>1. calls' = [calls EXCEPT ![r] = c]
    BY <1>3 DEF End
  <2>2. /\ NewCall \in Call /\ ~NewCall.started /\ ~NewCall.part
    BY <1>1 DEF NewCall, Call
  <2>3. /\ calls[r].input \in Conversation /\ calls[r].starts \in Nat
        /\ calls[r].stray \in Nat /\ calls[r].missing \in BOOLEAN
    BY <1>2 DEF Call
  <2>4. /\ c \in Call /\ c.pc = pc /\ ~c.started /\ ~c.part /\ c.starts = calls[r].starts
        /\ c.stray = calls[r].stray /\ c.missing = calls[r].missing
    BY <2>2, <2>3 DEF Call
  <2> HIDE DEF c
  <2>5. CallOK(c)
    BY <1>2, <2>4 DEF CallOK, Told
  <2> QED
    BY <2>1, <2>4, <2>5, OnlyOne
<1>4. CASE pc # "done"
  <2> DEFINE c == [NewCall EXCEPT !.pc = pc]
  <2>1. calls' = [calls EXCEPT ![r] = c]
    BY <1>4 DEF End
  <2>2. /\ c \in Call /\ c.pc = pc /\ ~c.started /\ ~c.part /\ c.starts = 0
        /\ c.stray = 0 /\ ~c.missing
    BY <1>1 DEF NewCall, Call
  <2> HIDE DEF c
  <2>3. CallOK(c)
    BY <2>2 DEF CallOK, Told
  <2> QED
    BY <2>1, <2>2, <2>3, OnlyOne
<1> QED
  BY <1>3, <1>4

(* A request that is off its connection has no part out of the attempt it has not made yet,
   and one attempt more behind it if it had. *)
LEMMA OffType ==
    ASSUME TypeOK, CallsOK, NEW r \in Requests
    PROVE  /\ Off(r) \in Call /\ ~Off(r).started /\ ~Off(r).part
           /\ Off(r).starts = calls[r].starts /\ Off(r).account = calls[r].account
           /\ Off(r).missing = calls[r].missing
           /\ Off(r).stray = IF calls[r].part THEN calls[r].stray + 1 ELSE calls[r].stray
<1>1. <<>> \in Conversation
  BY DEF Conversation
<1>2. calls[r] \in Call
  BY DEF TypeOK
<1> DEFINE stray == IF calls[r].part THEN calls[r].stray + 1 ELSE calls[r].stray
<1>3. stray \in Nat
  BY <1>2 DEF Call
<1> DEFINE c == [calls[r] EXCEPT !.socket = None, !.kept = FALSE, !.seen = <<>>, !.delta = FALSE,
                                  !.started = FALSE, !.part = FALSE, !.stray = stray]
<1>4. Off(r) = c
  BY <1>2 DEF Off, Call
<1> HIDE DEF stray
<1>5. /\ c \in Call /\ ~c.started /\ ~c.part /\ c.starts = calls[r].starts
      /\ c.account = calls[r].account /\ c.missing = calls[r].missing /\ c.stray = stray
  BY <1>1, <1>2, <1>3 DEF Call
<1> HIDE DEF c
<1>6. /\ Off(r) \in Call /\ ~Off(r).started /\ ~Off(r).part
      /\ Off(r).starts = calls[r].starts /\ Off(r).account = calls[r].account
      /\ Off(r).missing = calls[r].missing /\ Off(r).stray = stray
  BY <1>4, <1>5
<1> QED
  BY <1>6 DEF stray

(* A request that goes on over SSE is well-formed if nothing has come of its answer. *)
LEMMA UseSseEffect ==
    ASSUME TypeOK, CallsOK, NEW r \in Requests, ~calls[r].started, UseSse(r)
    PROVE  Only(r) /\ calls'[r].pc # "streaming"
<1> DEFINE c == [Off(r) EXCEPT !.pc = "fetch", !.limit = FALSE]
<1>0. Told(calls[r]) /\ calls[r].part \in BOOLEAN
  BY DEF TypeOK, CallsOK, CallOK, Call
<1>1. /\ c \in Call /\ c.pc = "fetch" /\ c.started = Off(r).started /\ c.part = Off(r).part
      /\ c.starts = Off(r).starts /\ c.stray = Off(r).stray /\ c.missing = Off(r).missing
  BY ZenonT(60), OffType DEF Call
<1>2. calls' = [calls EXCEPT ![r] = c]
  BY DEF UseSse
<1> HIDE DEF c
<1>3. Told(c)
  BY <1>0, <1>1, OffType DEF Told
<1>4. CallOK(c)
  BY <1>1, <1>3, OffType DEF CallOK
<1> QED
  BY <1>1, <1>2, <1>4, OnlyOne

(* A request that looks for another connection is well-formed, too: it may have parts out if
   the backend has lost the response, the first time. *)
LEMMA RetryEffect ==
    ASSUME TypeOK, CallsOK, NEW r \in Requests, calls[r].pc = "streaming",
           \/ ~calls[r].missing /\ Retry(r, "missing")
           \/ ~calls[r].started /\ Retry(r, "limit")
    PROVE  Only(r) /\ calls'[r].pc # "streaming"
<1>0. /\ calls[r].account \in Accounts /\ Told(calls[r]) /\ calls[r].part \in BOOLEAN
      /\ calls[r].stray \in Nat
  BY DEF TypeOK, CallsOK, CallOK, Call
<1>1. CASE ~calls[r].missing /\ Retry(r, "missing")
  <2> DEFINE c == [Off(r) EXCEPT !.pc = "acquire", !.missing = TRUE]
  <2>1. /\ c \in Call /\ c.pc = "acquire" /\ c.started = Off(r).started /\ c.part = Off(r).part
        /\ c.starts = Off(r).starts /\ c.stray = Off(r).stray /\ c.missing
        /\ c.account = Off(r).account
    BY OffType DEF Call
  <2>2. calls' = [calls EXCEPT ![r] = c]
    BY <1>1 DEF Retry
  <2> HIDE DEF c
  <2>3. Told(c)
    BY <1>0, <1>1, <2>1, OffType DEF Told
  <2>4. CallOK(c)
    BY <1>0, <2>1, <2>3, OffType DEF CallOK
  <2> QED
    BY <2>1, <2>2, <2>4, OnlyOne
<1>2. CASE ~calls[r].started /\ Retry(r, "limit")
  <2> DEFINE c == [Off(r) EXCEPT !.pc = "acquire", !.limit = TRUE]
  <2>1. /\ c \in Call /\ c.pc = "acquire" /\ c.started = Off(r).started /\ c.part = Off(r).part
        /\ c.starts = Off(r).starts /\ c.stray = Off(r).stray /\ c.missing = Off(r).missing
        /\ c.account = Off(r).account
    BY OffType DEF Call
  <2>2. calls' = [calls EXCEPT ![r] = c]
    BY <1>2 DEF Retry
  <2> HIDE DEF c
  <2>3. Told(c)
    BY <1>0, <1>2, <2>1, OffType DEF Told
  <2>4. CallOK(c)
    BY <1>0, <2>1, <2>3, OffType DEF CallOK
  <2> QED
    BY <2>1, <2>2, <2>4, OnlyOne
<1> QED
  BY <1>1, <1>2

(* The fallback ends a request that has begun to answer, and no other. *)
LEMMA FallBackEffect ==
    ASSUME TypeOK, CallsOK, NEW r \in Requests, FallBack(r)
    PROVE  Only(r) /\ calls'[r].pc # "streaming" /\ fallback' \in BOOLEAN
<1>1. CASE calls[r].started
  BY <1>1, EndEffect DEF FallBack
<1>2. CASE ~calls[r].started
  BY <1>2, UseSseEffect DEF FallBack
<1> QED
  BY <1>1, <1>2

-----------------------------------------------------------------------------
(* The invariant is inductive *)

(* The invariant holds when no request has been made. *)
LEMMA InitInv == Init => IInv
<1> SUFFICES ASSUME Init PROVE IInv
  OBVIOUS
<1>1. <<>> \in Conversation
  BY DEF Conversation
<1>2. NewCall \in Call /\ CallOK(NewCall) /\ NewCall.pc = "new"
  BY <1>1 DEF NewCall, Call, CallOK, Told
<1>3. TypeOK /\ CallsOK
  BY <1>2, NoSocketType DEF Init, TypeOK, CallsOK
<1>4. \A r \in Requests, s \in Sockets : ~Uses(r, s)
  BY <1>2 DEF Init, Uses
<1>5. \A s \in Sockets : ~sockets[s].busy /\ ~sockets[s].open /\ sockets[s].continuation = None
  BY DEF Init, NoSocket
<1>6. \A a \in Accounts, s \in Sockets : cache[a] # s
  BY NoneAssumption DEF Init
<1> QED
  BY <1>3, <1>4, <1>5, <1>6 DEF IInv, SocketsOK, ServerRemembers, Knows, OneUser, UserHasTheAccount,
     EntryHasTheAccount, BusyIsUsed, CachedAndUsedIsBusy, UnusedHasATimer, InUse, Cached

(* A request begins with an account and a conversation. *)
LEMMA BeginInv == ASSUME IInv, NEW r \in Requests, Begin(r) PROVE IInv'
<1>1. TypeOK /\ CallsOK /\ calls[r] \in Call
  BY DEF IInv, TypeOK
<1>2. PICK a \in AccountsOf[r], input \in Inputs(r) :
        calls' = [calls EXCEPT ![r].pc = IF fallback THEN "fetch" ELSE "acquire",
                               ![r].account = a, ![r].input = input]
  BY DEF Begin
<1>3. a \in Accounts /\ input \in Conversation
  BY <1>1, AccountsAssumption, InputsType DEF Requests
<1> DEFINE c == [calls[r] EXCEPT !.pc = IF fallback THEN "fetch" ELSE "acquire",
                                 !.account = a, !.input = input]
<1>4. /\ c \in Call /\ c.pc \in {"fetch", "acquire"} /\ c.account \in Accounts
      /\ c.started = calls[r].started /\ c.part = calls[r].part /\ c.stray = calls[r].stray
        /\ c.missing = calls[r].missing /\ c.starts = calls[r].starts
  BY <1>1, <1>3 DEF Call
<1>5. calls' = [calls EXCEPT ![r] = c]
  BY <1>1, <1>2 DEF TypeOK
<1>6. calls[r].pc = "new" /\ UNCHANGED <<sockets, cache, fallback>>
  BY DEF Begin
<1> HIDE DEF c
<1>7. CallOK(c)
  BY <1>1, <1>4, <1>6 DEF CallsOK, CallOK, Told
<1>8. Only(r) /\ calls'[r] = c
  BY <1>1, <1>4, <1>5, <1>7, OnlyOne
<1>9. fallback' \in BOOLEAN
  BY <1>1, <1>6 DEF TypeOK
<1> QED
  BY <1>4, <1>6, <1>8, <1>9, QuietInv

(* What a step that only connects makes of a request. *)
LEMMA ConnectingEffect ==
    ASSUME TypeOK, CallsOK, NEW r \in Requests, calls[r].pc = "acquire", NEW kept \in BOOLEAN,
           Connecting(r, kept)
    PROVE  /\ Only(r) /\ calls'[r].pc = "connecting"
           /\ \A q \in Requests, t \in Sockets : Uses(q, t)' <=> Uses(q, t)
           /\ \A q \in Requests, t \in Sockets : Uses(q, t) => calls'[q].account = calls[q].account
<1> DEFINE c == [calls[r] EXCEPT !.pc = "connecting", !.kept = kept]
<1>1. calls[r] \in Call /\ CallOK(calls[r])
  BY DEF TypeOK, CallsOK
<1>2. /\ c \in Call /\ c.pc = "connecting" /\ c.account = calls[r].account
      /\ c.started = calls[r].started /\ c.part = calls[r].part /\ c.stray = calls[r].stray
        /\ c.missing = calls[r].missing /\ c.starts = calls[r].starts
  BY <1>1 DEF Call
<1>3. calls' = [calls EXCEPT ![r] = c]
  BY DEF TypeOK, Connecting
<1> HIDE DEF c
<1>4. CallOK(c)
  BY <1>1, <1>2 DEF CallOK, Told
<1>5. Only(r) /\ calls'[r] = c
  BY <1>2, <1>3, <1>4, OnlyOne
<1> QED
  BY <1>2, <1>5 DEF Uses, Only

(* A request takes the connection of its account in the cache, closes it, leaves it to who
   uses it, or makes the first one. *)
LEMMA AcquireInv == ASSUME IInv, NEW r \in Requests, Acquire(r) PROVE IInv'
<1>1. TypeOK /\ CallsOK /\ SocketsOK /\ calls[r] \in Call /\ CallOK(calls[r])
  BY DEF IInv, TypeOK, CallsOK
<1>2. calls[r].pc = "acquire" /\ fallback' \in BOOLEAN
  BY <1>1 DEF Acquire, TypeOK
<1>3. CASE ConnectFirst(r)
  BY <1>1, <1>2, <1>3, ConnectingEffect, QuietInv DEF ConnectFirst
<1>4. ASSUME NEW s \in Sockets, cache[calls[r].account] = s, Reuse(r, s) PROVE IInv'
  <2> DEFINE taken == [sockets[s] EXCEPT !.busy = TRUE, !.timer = FALSE]
             ss == [sockets EXCEPT ![s].busy = TRUE, ![s].timer = FALSE]
             c == [calls[r] EXCEPT !.kept = TRUE]
  <2>1. calls[r].account \in Accounts /\ ~calls[r].started
    BY <1>1, <1>2 DEF CallOK
  <2>2. /\ c \in Call /\ c.pc = "acquire" /\ c.account = calls[r].account
        /\ c.started = calls[r].started /\ c.part = calls[r].part /\ c.stray = calls[r].stray
        /\ c.missing = calls[r].missing /\ c.starts = calls[r].starts
    BY <1>1, <1>2 DEF Call
  <2>3. CallOK(c)
    <3> HIDE DEF c
    <3> QED
      BY <1>1, <1>2, <2>2 DEF CallOK, Told
  <2>4. /\ ss \in [Sockets -> Socket] /\ ss[s].open /\ ss[s].busy
        /\ ss[s].account = sockets[s].account /\ ss[s].continuation = sockets[s].continuation
        /\ ss[s].server = sockets[s].server
        /\ \A t \in Sockets : t # s => ss[t] = sockets[t]
    <3>1. ss = [sockets EXCEPT ![s] = taken]
      BY <1>1 DEF TypeOK
    <3>2. sockets[s] \in Socket /\ sockets[s].open
      BY <1>1, <1>4 DEF TypeOK, Reuse
    <3>3. /\ taken \in Socket /\ taken.open /\ taken.busy /\ taken.account = sockets[s].account
          /\ taken.continuation = sockets[s].continuation /\ taken.server = sockets[s].server
      BY <3>2 DEF Socket
    <3> HIDE DEF taken, ss
    <3>4. ss \in [Sockets -> Socket] /\ ss[s] = taken /\ \A t \in Sockets : t # s => ss[t] = sockets[t]
      BY <1>1, <3>1, <3>3 DEF TypeOK
    <3> QED
      BY <3>3, <3>4
  <2>5. Send(r, c, ss, s) /\ cache' = cache /\ ~sockets[s].busy /\ sockets[s].open
    BY <1>4 DEF Reuse
  <2> HIDE DEF ss, c
  <2>6. Knows(ss[s])
    BY <1>1, <2>4 DEF SocketsOK, ServerRemembers, Knows
  <2>7. Cached(s)
    BY <1>4, <2>1 DEF Cached
  <2>8. ~InUse(s)
    BY <1>1, <2>5, <2>7 DEF SocketsOK, CachedAndUsedIsBusy
  <2>9. \A a \in Accounts : cache[a] = s => sockets[s].account = a
    BY <1>1, <2>5 DEF SocketsOK, EntryHasTheAccount
  <2>10. cache' \in [Accounts -> Sockets \cup {None}]
    BY <1>1, <2>5 DEF TypeOK
  <2>11. /\ Only(r) /\ calls'[r].pc = "streaming" /\ calls'[r].socket = s
         /\ calls'[r].account = calls[r].account
         /\ sockets' \in [Sockets -> Socket]
         /\ \A t \in Sockets : t # s => sockets'[t] = sockets[t]
         /\ sockets'[s].busy /\ sockets'[s].account = sockets[s].account
         /\ Knows(sockets'[s])
    BY <1>1, <2>1, <2>2, <2>3, <2>4, <2>5, <2>6, SendEffect
  <2> QED
    BY <1>2, <1>4, <2>1, <2>5, <2>8, <2>9, <2>10, <2>11, TakeInv
<1>5. ASSUME NEW s \in Sockets, cache[calls[r].account] = s, Discard(r, s) PROVE IInv'
  <2> DEFINE ss == [sockets EXCEPT ![s].timer = FALSE]
  <2>1. /\ ss \in [Sockets -> Socket] /\ ss[s].busy = sockets[s].busy
        /\ \A t \in Sockets : t # s => ss[t] = sockets[t]
    BY <1>1 DEF TypeOK, Socket
  <2>2. sockets' = Shut(ss, s) /\ cache' = Without(s) /\ Connecting(r, TRUE)
    BY <1>5 DEF Discard
  <2> HIDE DEF ss
  <2>3. /\ sockets' \in [Sockets -> Socket]
        /\ \A t \in Sockets : t # s => sockets'[t] = sockets[t]
        /\ ~sockets'[s].open /\ sockets'[s].continuation = None
        /\ sockets'[s].busy = sockets[s].busy
    BY <2>1, <2>2, ShutEffect
  <2>4. /\ cache' \in [Accounts -> Sockets \cup {None}]
        /\ \A a \in Accounts, t \in Sockets : cache'[a] = t => cache[a] = t
    BY <1>1, <2>2, WithoutEffect
  <2>5. /\ calls' \in [Requests -> Call] /\ CallsOK'
        /\ \A q \in Requests, t \in Sockets : Uses(q, t)' <=> Uses(q, t)
        /\ \A q \in Requests, t \in Sockets : Uses(q, t) => calls'[q].account = calls[q].account
    BY <1>1, <1>2, <2>2, ConnectingEffect, OnlyCallsOK DEF Only
  <2>6. \A t \in Sockets :
               /\ sockets'[t].busy = sockets[t].busy
               /\ sockets'[t].open => /\ sockets[t].open /\ sockets'[t].account = sockets[t].account
                                      /\ sockets'[t].timer = sockets[t].timer \/ InUse(t)
               /\ sockets'[t].continuation # None =>
                     /\ sockets'[t].continuation = sockets[t].continuation
                     /\ sockets'[t].server = sockets[t].server
    BY <2>3
  <2> QED
    BY <1>2, <2>3, <2>4, <2>5, <2>6, SocketInv
<1>6. ASSUME NEW s \in Sockets, cache[calls[r].account] = s, ConnectBeside(r, s) PROVE IInv'
  <2>1. sockets[s].busy /\ sockets' = [sockets EXCEPT ![s].timer = FALSE] /\ cache' = cache
        /\ Connecting(r, FALSE)
    BY <1>6 DEF ConnectBeside
  <2>2. InUse(s)
    BY <1>1, <2>1 DEF SocketsOK, BusyIsUsed
  <2>3. sockets' \in [Sockets -> Socket]
    BY ZenonT(60), <1>1, <2>1 DEF TypeOK, Socket
  <2>4. \A t \in Sockets :
               /\ sockets'[t].busy = sockets[t].busy
               /\ sockets'[t].open => /\ sockets[t].open /\ sockets'[t].account = sockets[t].account
                                      /\ sockets'[t].timer = sockets[t].timer \/ InUse(t)
               /\ sockets'[t].continuation # None =>
                     /\ sockets'[t].continuation = sockets[t].continuation
                     /\ sockets'[t].server = sockets[t].server
    BY <1>1, <2>1, <2>2 DEF TypeOK, Socket
  <2>5. /\ calls' \in [Requests -> Call] /\ CallsOK'
        /\ \A q \in Requests, t \in Sockets : Uses(q, t)' <=> Uses(q, t)
        /\ \A q \in Requests, t \in Sockets : Uses(q, t) => calls'[q].account = calls[q].account
    BY <1>1, <1>2, <2>1, ConnectingEffect, OnlyCallsOK DEF Only
  <2>6. /\ cache' \in [Accounts -> Sockets \cup {None}]
        /\ \A a \in Accounts, t \in Sockets : cache'[a] = t => cache[a] = t
    BY <1>1, <2>1 DEF TypeOK
  <2> QED
    BY <1>2, <2>3, <2>4, <2>5, <2>6, SocketInv
<1> QED
  BY <1>3, <1>4, <1>5, <1>6 DEF Acquire

(* A new connection is nobody else's. *)
LEMMA ConnectedInv == ASSUME IInv, NEW r \in Requests, Connected(r) PROVE IInv'
<1>1. TypeOK /\ CallsOK /\ SocketsOK /\ calls[r] \in Call /\ CallOK(calls[r])
  BY DEF IInv, TypeOK, CallsOK
<1>2. calls[r].pc = "connecting" /\ fallback' \in BOOLEAN
  BY <1>1 DEF Connected, TypeOK
<1>3. calls[r].account \in Accounts /\ ~calls[r].started /\ calls[r].kept \in BOOLEAN
  BY <1>1, <1>2 DEF CallOK, Call
<1>4. PICK s \in Sockets :
        /\ Free(s)
        /\ Send(r, calls[r], [sockets EXCEPT ![s] =
               [NoSocket EXCEPT !.open = TRUE, !.busy = calls[r].kept, !.account = calls[r].account]], s)
        /\ cache' = IF calls[r].kept THEN [cache EXCEPT ![calls[r].account] = s] ELSE cache
  BY DEF Connected
<1> DEFINE new == [NoSocket EXCEPT !.open = TRUE, !.busy = calls[r].kept, !.account = calls[r].account]
           ss == [sockets EXCEPT ![s] = new]
<1>5. /\ new \in Socket /\ new.open /\ new.busy = calls[r].kept /\ new.account = calls[r].account
      /\ new.continuation = None
  BY <1>3, NoSocketType DEF Socket
<1>6. Send(r, calls[r], ss, s)
  BY <1>4
<1> HIDE DEF new
<1>7. /\ ss \in [Sockets -> Socket] /\ ss[s] = new
      /\ \A t \in Sockets : t # s => ss[t] = sockets[t]
  BY <1>1, <1>5 DEF TypeOK
<1> HIDE DEF ss
<1>8. /\ Only(r) /\ calls'[r].pc = "streaming" /\ calls'[r].socket = s
      /\ calls'[r].account = calls[r].account
      /\ sockets' \in [Sockets -> Socket]
      /\ \A t \in Sockets : t # s => sockets'[t] = sockets[t]
      /\ sockets'[s].busy = calls[r].kept /\ sockets'[s].account = calls[r].account
      /\ Knows(sockets'[s])
  <2>1. Knows(ss[s])
    BY <1>5, <1>7 DEF Knows
  <2> QED
    BY <1>1, <1>3, <1>5, <1>6, <1>7, <2>1, SendEffect
<1>9. ~InUse(s) /\ \A a \in Accounts : cache[a] # s
  BY <1>4 DEF Free, Cached
<1>10. /\ cache' \in [Accounts -> Sockets \cup {None}]
       /\ \A a \in Accounts, t \in Sockets : cache'[a] = t => cache[a] = t \/ t = s
       /\ \A a \in Accounts : cache'[a] = s => calls[r].kept /\ a = calls[r].account
  BY <1>1, <1>3, <1>4, <1>9 DEF TypeOK
<1> QED
  BY <1>2, <1>8, <1>9, <1>10, TakeInv

(* The steps of a request that uses no connection, and the events of one that does. *)
LEMMA QuietSteps ==
    ASSUME IInv, NEW r \in Requests,
           \/ ConnectFails(r) \/ Event(r) \/ FetchAnswered(r) \/ FetchFails(r) \/ FetchRefused(r)
           \/ WakeUp(r) \/ Read(r) \/ Abort(r)
    PROVE  IInv'
<1>1. TypeOK /\ CallsOK /\ calls[r] \in Call /\ CallOK(calls[r]) /\ fallback \in BOOLEAN
  BY DEF IInv, TypeOK, CallsOK
<1>2. CASE ConnectFails(r)
  <2>1. calls[r].pc = "connecting" /\ FallBack(r) /\ UNCHANGED <<sockets, cache>>
    BY <1>2 DEF ConnectFails
  <2> QED
    BY <1>1, <2>1, FallBackEffect, QuietInv
<1>3. ASSUME NEW c \in Call, calls' = [calls EXCEPT ![r] = c], UNCHANGED <<sockets, cache, fallback>>,
             CallOK(c),
             \/ calls[r].pc # "streaming" /\ c.pc # "streaming"
             \/ /\ calls[r].pc = "streaming" /\ c.pc = "streaming"
                /\ c.socket = calls[r].socket /\ c.account = calls[r].account
      PROVE  IInv'
  BY <1>1, <1>3, OnlyOne, QuietInv
<1>4. CASE Event(r)
  <2>1. PICK part \in BOOLEAN :
          calls' = [calls EXCEPT ![r].started = TRUE,
                                 ![r].starts = IF calls[r].starts = 0 THEN 1 ELSE @,
                                 ![r].part = @ \/ part]
    BY <1>4 DEF Event
  <2> DEFINE starts == IF calls[r].starts = 0 THEN 1 ELSE calls[r].starts
             out == calls[r].part \/ part
             c == [calls[r] EXCEPT !.started = TRUE, !.starts = starts, !.part = out]
  <2>2. starts \in Nat /\ out \in BOOLEAN
    BY <1>1 DEF Call
  <2>3. calls' = [calls EXCEPT ![r] = c] /\ UNCHANGED <<sockets, cache, fallback>>
    BY <1>1, <1>4, <2>1 DEF Event, TypeOK
  <2>4. calls[r].pc = "streaming"
    BY <1>4 DEF Event, Answering, Streaming
  <2>5. /\ c \in Call /\ c.pc = "streaming" /\ c.socket = calls[r].socket /\ c.started
        /\ c.account = calls[r].account /\ c.seen = calls[r].seen /\ c.input = calls[r].input
        /\ c.starts = starts /\ c.stray = calls[r].stray /\ c.missing = calls[r].missing
    <3> HIDE DEF starts, out
    <3> QED
      BY <1>1, <2>2, <2>4 DEF Call
  <2>6. starts = 1
    BY <1>1 DEF CallOK, Told, Call
  <2> HIDE DEF c, starts
  <2>7. CallOK(c)
    BY <1>1, <2>4, <2>5, <2>6 DEF CallOK, Told
  <2> QED
    BY <1>3, <2>3, <2>4, <2>5, <2>7
<1>5. CASE FetchAnswered(r)
  <2> DEFINE c == [calls[r] EXCEPT !.pc = "reading", !.started = FALSE,
                                   !.starts = IF calls[r].starts = 0 THEN 1 ELSE @]
  <2>1. calls' = [calls EXCEPT ![r] = c] /\ UNCHANGED <<sockets, cache, fallback>>
    BY <1>1, <1>5 DEF FetchAnswered, TypeOK
  <2>2. calls[r].pc = "fetch"
    BY <1>5 DEF FetchAnswered, Fetching
  <2>3. /\ c \in Call /\ c.pc = "reading" /\ ~c.started /\ c.part = calls[r].part /\ c.stray = calls[r].stray
        /\ c.missing = calls[r].missing
        /\ c.starts = (IF calls[r].starts = 0 THEN 1 ELSE calls[r].starts)
    BY <1>1 DEF Call
  <2> HIDE DEF c
  <2>4. calls[r].starts \in Nat
    BY <1>1 DEF Call
  <2>5. CallOK(c)
    BY <1>1, <2>2, <2>3, <2>4 DEF CallOK, Told
  <2> QED
    BY <1>3, <2>1, <2>2, <2>3, <2>5
<1>6. ASSUME End(r, "done") \/ End(r, "error"), calls[r].pc # "streaming",
             UNCHANGED <<sockets, cache, fallback>>
      PROVE  IInv'
  BY <1>1, <1>6, EndEffect, QuietInv
<1>7. ASSUME calls' = [calls EXCEPT ![r].pc = "sleep", ![r].attempt = @ + 1], calls[r].pc = "fetch",
             UNCHANGED <<sockets, cache, fallback>>
      PROVE  IInv'
  <2> DEFINE attempt == calls[r].attempt + 1
             c == [calls[r] EXCEPT !.pc = "sleep", !.attempt = attempt]
  <2>0. attempt \in Nat
    BY <1>1 DEF Call
  <2>1. calls' = [calls EXCEPT ![r] = c]
    BY <1>1, <1>7 DEF TypeOK
  <2>2. /\ c \in Call /\ c.pc = "sleep" /\ c.started = calls[r].started
        /\ c.part = calls[r].part /\ c.stray = calls[r].stray
        /\ c.missing = calls[r].missing /\ c.starts = calls[r].starts
    <3> HIDE DEF attempt
    <3> QED
      BY <1>1, <2>0 DEF Call
  <2> HIDE DEF c
  <2>3. CallOK(c)
    BY <1>1, <1>7, <2>2 DEF CallOK, Told
  <2> QED
    BY <1>3, <1>7, <2>1, <2>2, <2>3
<1>8. CASE FetchFails(r)
  <2>1. calls[r].pc = "fetch"
    BY <1>8 DEF FetchFails, Fetching
  <2> QED
    BY <1>6, <1>7, <1>8, <2>1 DEF FetchFails, Sleep
<1>9. CASE FetchRefused(r)
  <2>1. calls[r].pc = "fetch"
    BY <1>9 DEF FetchRefused, Fetching
  <2> QED
    BY <1>6, <1>7, <1>9, <2>1 DEF FetchRefused
<1>10. CASE WakeUp(r)
  <2> DEFINE c == [calls[r] EXCEPT !.pc = "fetch"]
  <2>1. /\ calls' = [calls EXCEPT ![r] = c] /\ UNCHANGED <<sockets, cache, fallback>>
        /\ calls[r].pc = "sleep"
    BY <1>1, <1>10 DEF TypeOK, WakeUp
  <2>2. /\ c \in Call /\ c.pc = "fetch" /\ c.started = calls[r].started
        /\ c.part = calls[r].part /\ c.stray = calls[r].stray
        /\ c.missing = calls[r].missing /\ c.starts = calls[r].starts
    BY <1>1 DEF Call
  <2> HIDE DEF c
  <2>3. CallOK(c)
    BY <1>1, <2>1, <2>2 DEF CallOK, Told
  <2> QED
    BY <1>3, <2>1, <2>2, <2>3
<1>11. CASE Read(r)
  <2>1. calls[r].pc = "reading" /\ UNCHANGED <<sockets, cache, fallback>>
    BY <1>11 DEF Read
  <2>2. CASE calls' = [calls EXCEPT ![r].started = TRUE, ![r].part = TRUE]
    <3> DEFINE c == [calls[r] EXCEPT !.started = TRUE, !.part = TRUE]
    <3>1. calls' = [calls EXCEPT ![r] = c]
      BY <1>1, <2>2 DEF TypeOK
    <3>2. /\ c \in Call /\ c.pc = "reading" /\ c.started /\ c.starts = calls[r].starts
          /\ c.stray = calls[r].stray /\ c.missing = calls[r].missing
      BY <1>1, <2>1 DEF Call
    <3> HIDE DEF c
    <3>3. CallOK(c)
      BY <1>1, <2>1, <3>2 DEF CallOK, Told
    <3> QED
      BY <1>3, <2>1, <3>1, <3>2, <3>3
  <2>3. CASE End(r, "done") \/ End(r, "error")
    BY <1>6, <2>1, <2>3
  <2> QED
    BY <1>11, <2>2, <2>3 DEF Read
<1>12. CASE Abort(r)
  <2> DEFINE c == [calls[r] EXCEPT !.aborted = TRUE]
  <2>1. calls' = [calls EXCEPT ![r] = c] /\ UNCHANGED <<sockets, cache, fallback>>
    BY <1>1, <1>12 DEF TypeOK, Abort
  <2>2. /\ c \in Call /\ c.pc = calls[r].pc /\ c.started = calls[r].started
        /\ c.part = calls[r].part /\ c.stray = calls[r].stray
        /\ c.missing = calls[r].missing /\ c.starts = calls[r].starts /\ c.socket = calls[r].socket
        /\ c.account = calls[r].account /\ c.seen = calls[r].seen /\ c.input = calls[r].input
    BY <1>1 DEF Call
  <2> HIDE DEF c
  <2>3. CallOK(c)
    BY <1>1, <2>2 DEF CallOK, Told
  <2> QED
    BY <1>3, <2>1, <2>2, <2>3
<1> QED
  BY <1>2, <1>4, <1>5, <1>8, <1>9, <1>10, <1>11, <1>12

(* A request leaves its connection when it is answered, fails or is made again. *)
LEMMA LeavingSteps ==
    ASSUME IInv, NEW r \in Requests,
           \/ Completed(r) \/ CompletedBadly(r) \/ MissingResponse(r) \/ ConnectionLimit(r)
           \/ ApiError(r) \/ TransportFails(r)
    PROVE  IInv'
<1>1. TypeOK /\ CallsOK /\ fallback \in BOOLEAN
  BY DEF IInv, TypeOK
<1>2. calls[r].pc = "streaming"
  BY DEF Completed, CompletedBadly, MissingResponse, ConnectionLimit, ApiError, TransportFails,
     Answering, Streaming
<1>3. ASSUME Keep(r) \/ Drop(r), End(r, "done") \/ End(r, "error"), UNCHANGED fallback
      PROVE  IInv'
  BY <1>1, <1>2, <1>3, EndEffect, LeaveInv
<1>4. ASSUME Keep(r) \/ Drop(r), FallBack(r) PROVE IInv'
  BY <1>1, <1>2, <1>4, FallBackEffect, LeaveInv
<1>5. ASSUME Drop(r), UNCHANGED fallback,
             \/ ~calls[r].missing /\ Retry(r, "missing")
             \/ ~calls[r].started /\ Retry(r, "limit")
      PROVE  IInv'
  BY <1>1, <1>2, <1>5, RetryEffect, LeaveInv
<1>6. CASE Completed(r)
  BY <1>3, <1>6 DEF Completed
<1>7. CASE CompletedBadly(r)
  BY <1>4, <1>7 DEF CompletedBadly
<1>8. CASE MissingResponse(r)
  BY <1>3, <1>5, <1>8 DEF MissingResponse
<1>9. CASE ConnectionLimit(r)
  BY <1>4, <1>5, <1>9 DEF ConnectionLimit
<1>10. CASE ApiError(r)
  BY <1>3, <1>10 DEF ApiError
<1>11. CASE TransportFails(r)
  BY <1>4, <1>11 DEF TransportFails
<1> QED
  BY <1>6, <1>7, <1>8, <1>9, <1>10, <1>11

(* A request that is aborted leaves its connection, if it has one. *)
LEMMA HandleAbortInv == ASSUME IInv, NEW r \in Requests, HandleAbort(r) PROVE IInv'
<1>1. TypeOK /\ CallsOK /\ fallback \in BOOLEAN
  BY DEF IInv, TypeOK
<1>2. End(r, "error") /\ UNCHANGED fallback
  BY DEF HandleAbort
<1>3. CASE calls[r].pc = "streaming"
  BY <1>1, <1>2, <1>3, EndEffect, LeaveInv DEF HandleAbort
<1>4. CASE calls[r].pc # "streaming"
  BY <1>1, <1>2, <1>4, EndEffect, QuietInv DEF HandleAbort
<1> QED
  BY <1>3, <1>4

(* The server and the clock close connections, a busy one only the server. *)
LEMMA ClosingSteps ==
    ASSUME IInv, (\E s \in Sockets : ServerCloses(s) \/ Age(s) \/ IdleTimeout(s)) \/ CloseSessions
    PROVE  IInv'
<1>1. TypeOK /\ CallsOK /\ SocketsOK
  BY DEF IInv
<1>2. calls' = calls /\ fallback' = fallback
  BY DEF ServerCloses, Age, IdleTimeout, CloseSessions
<1>3. /\ calls' \in [Requests -> Call] /\ CallsOK' /\ fallback' \in BOOLEAN
      /\ \A q \in Requests, t \in Sockets : Uses(q, t)' <=> Uses(q, t)
      /\ \A q \in Requests, t \in Sockets : Uses(q, t) => calls'[q].account = calls[q].account
  BY <1>1, <1>2 DEF TypeOK, CallsOK, CallOK, Uses
<1> DEFINE Kept(t) ==
        /\ sockets'[t].busy = sockets[t].busy
        /\ sockets'[t].open => /\ sockets[t].open /\ sockets'[t].account = sockets[t].account
                               /\ sockets'[t].timer = sockets[t].timer \/ InUse(t)
        /\ sockets'[t].continuation # None =>
              /\ sockets'[t].continuation = sockets[t].continuation
              /\ sockets'[t].server = sockets[t].server
<1>4. ASSUME sockets' \in [Sockets -> Socket], cache' \in [Accounts -> Sockets \cup {None}],
             \A a \in Accounts, t \in Sockets : cache'[a] = t => cache[a] = t,
             \A t \in Sockets : Kept(t)
      PROVE  IInv'
  BY <1>3, <1>4, SocketInv
<1>5. ASSUME NEW s \in Sockets, ServerCloses(s) PROVE IInv'
  <2>1. sockets' = Shut(sockets, s) /\ cache' = cache
    BY <1>5 DEF ServerCloses
  <2>2. /\ sockets' \in [Sockets -> Socket]
        /\ \A t \in Sockets : t # s => sockets'[t] = sockets[t]
        /\ ~sockets'[s].open /\ sockets'[s].continuation = None
        /\ sockets'[s].busy = sockets[s].busy
    BY <1>1, <2>1, ShutEffect DEF TypeOK
  <2>3. cache' \in [Accounts -> Sockets \cup {None}]
    BY <1>1, <2>1 DEF TypeOK
  <2>4. \A t \in Sockets : Kept(t)
    BY <2>2
  <2> QED
    BY <1>4, <2>1, <2>2, <2>3, <2>4
<1>6. ASSUME NEW s \in Sockets, Age(s) PROVE IInv'
  <2>1. sockets' = [sockets EXCEPT ![s].old = TRUE] /\ cache' = cache
    BY <1>6 DEF Age
  <2>2. sockets' \in [Sockets -> Socket] /\ \A t \in Sockets : Kept(t)
    BY ZenonT(60), <1>1, <2>1 DEF TypeOK, Socket
  <2>3. cache' \in [Accounts -> Sockets \cup {None}]
    BY <1>1, <2>1 DEF TypeOK
  <2> QED
    BY <1>4, <2>1, <2>2, <2>3
<1>7. ASSUME NEW s \in Sockets, IdleTimeout(s) PROVE IInv'
  <2> DEFINE ss == [sockets EXCEPT ![s].timer = FALSE]
  <2>1. /\ ss \in [Sockets -> Socket] /\ ss[s].busy = sockets[s].busy /\ ss[s].open = sockets[s].open
        /\ ss[s].account = sockets[s].account /\ ss[s].continuation = sockets[s].continuation
        /\ ss[s].server = sockets[s].server
        /\ \A t \in Sockets : t # s => ss[t] = sockets[t]
    BY <1>1 DEF TypeOK, Socket
  <2>2. CASE sockets[s].busy
    <3>1. sockets' = ss /\ cache' = cache
      BY <1>7, <2>2 DEF IdleTimeout
    <3>2. InUse(s)
      BY <1>1, <2>2 DEF SocketsOK, BusyIsUsed
    <3> HIDE DEF ss
    <3>3. \A t \in Sockets : Kept(t)
      BY <2>1, <3>1, <3>2
    <3>4. sockets' \in [Sockets -> Socket] /\ cache' \in [Accounts -> Sockets \cup {None}]
      BY <1>1, <2>1, <3>1 DEF TypeOK
    <3> HIDE DEF Kept
    <3> QED
      BY <1>4, <3>1, <3>3, <3>4
  <2>3. CASE ~sockets[s].busy
    <3>1. sockets' = Shut(ss, s) /\ cache' = Without(s)
      BY <1>7, <2>3 DEF IdleTimeout
    <3> HIDE DEF ss
    <3>2. /\ sockets' \in [Sockets -> Socket]
          /\ \A t \in Sockets : t # s => sockets'[t] = sockets[t]
          /\ ~sockets'[s].open /\ sockets'[s].continuation = None
          /\ sockets'[s].busy = sockets[s].busy
      BY <2>1, <3>1, ShutEffect
    <3>3. /\ cache' \in [Accounts -> Sockets \cup {None}]
          /\ \A a \in Accounts, t \in Sockets : cache'[a] = t => cache[a] = t
      BY <1>1, <3>1, WithoutEffect
    <3>4. \A t \in Sockets : Kept(t)
      BY <3>2
    <3> HIDE DEF Kept
    <3> QED
      BY <1>4, <3>2, <3>3, <3>4
  <2> QED
    BY <2>2, <2>3
<1>8. CASE CloseSessions
  <2>1. /\ sockets' = [s \in Sockets |-> IF Cached(s) THEN [NoSocket EXCEPT !.busy = sockets[s].busy]
                                         ELSE sockets[s]]
        /\ cache' = [a \in Accounts |-> None]
    BY <1>8 DEF CloseSessions
  <2>2. ASSUME NEW s \in Sockets
        PROVE  /\ sockets[s] \in Socket
               /\ [NoSocket EXCEPT !.busy = sockets[s].busy] \in Socket
               /\ ~[NoSocket EXCEPT !.busy = sockets[s].busy].open
               /\ [NoSocket EXCEPT !.busy = sockets[s].busy].continuation = None
               /\ [NoSocket EXCEPT !.busy = sockets[s].busy].busy = sockets[s].busy
    <3>1. sockets[s] \in Socket /\ sockets[s].busy \in BOOLEAN
      BY <1>1 DEF TypeOK, Socket
    <3> QED
      BY <3>1, NoSocketType DEF Socket
  <2>3. sockets' \in [Sockets -> Socket] /\ \A t \in Sockets : Kept(t)
    BY <2>1, <2>2
  <2>4. /\ cache' \in [Accounts -> Sockets \cup {None}]
        /\ \A a \in Accounts, t \in Sockets : cache'[a] = t => cache[a] = t
    BY <2>1, NoneAssumption
  <2> HIDE DEF Kept
  <2> QED
    BY <1>4, <2>3, <2>4
<1> QED
  BY <1>5, <1>6, <1>7, <1>8

(* The invariant is preserved by every step. *)
LEMMA NextInv == IInv /\ [Next]_vars => IInv'
<1> SUFFICES ASSUME IInv, [Next]_vars PROVE IInv'
  OBVIOUS
<1>1. ASSUME NEW r \in Requests, Begin(r) PROVE IInv'
  BY <1>1, BeginInv
<1>2. ASSUME NEW r \in Requests, Acquire(r) PROVE IInv'
  BY <1>2, AcquireInv
<1>3. ASSUME NEW r \in Requests, Connected(r) PROVE IInv'
  BY <1>3, ConnectedInv
<1>4. ASSUME NEW r \in Requests,
             \/ ConnectFails(r) \/ Event(r) \/ FetchAnswered(r) \/ FetchFails(r) \/ FetchRefused(r)
             \/ WakeUp(r) \/ Read(r) \/ Abort(r)
      PROVE  IInv'
  BY <1>4, QuietSteps
<1>5. ASSUME NEW r \in Requests,
             \/ Completed(r) \/ CompletedBadly(r) \/ MissingResponse(r) \/ ConnectionLimit(r)
             \/ ApiError(r) \/ TransportFails(r)
      PROVE  IInv'
  BY <1>5, LeavingSteps
<1>6. ASSUME NEW r \in Requests, HandleAbort(r) PROVE IInv'
  BY <1>6, HandleAbortInv
<1>7. CASE (\E s \in Sockets : ServerCloses(s) \/ Age(s) \/ IdleTimeout(s)) \/ CloseSessions
  BY <1>7, ClosingSteps
<1>8. CASE UNCHANGED vars
  BY <1>8 DEF vars, IInv, TypeOK, CallsOK, CallOK, SocketsOK, ServerRemembers, Knows, OneUser,
     UserHasTheAccount, EntryHasTheAccount, BusyIsUsed, CachedAndUsedIsBusy, UnusedHasATimer,
     Uses, InUse, Cached
<1> QED
  BY <1>1, <1>2, <1>3, <1>4, <1>5, <1>6, <1>7, <1>8 DEF Next

-----------------------------------------------------------------------------
(* Results *)

(* For any requests, accounts and connections, whenever the server closes and the clock
   runs out: two requests never read from one connection, and none from one opened with
   the key of another account. *)
THEOREM NoConnectionIsShared == Spec => []ConnectionsAreNotShared
<1>1. IInv => ConnectionsAreNotShared
  BY DEF IInv, SocketsOK, OneUser, UserHasTheAccount, ConnectionsAreNotShared
<1> QED
  BY <1>1, InitInv, NextInv, PTL DEF Spec

(* For any requests: whatever part of a conversation is sent, the server answers the whole, in
   which only what an attempt that was given up has left in a reply is not known to it. *)
THEOREM TheServerSeesAll == Spec => []ServerSeesTheWholeInput
<1>1. IInv => ServerSeesTheWholeInput
  BY DEF IInv, CallsOK, CallOK, ServerSeesTheWholeInput
<1> QED
  BY <1>1, InitInv, NextInv, PTL DEF Spec

(* For any requests: an open connection that nobody uses has a timer, whether it is in the
   cache or not, and the cache has none that is busy for nobody. *)
THEOREM IdleConnectionsHaveATimer == Spec => []IdleConnectionsExpire
<1>1. IInv => IdleConnectionsExpire
  BY DEF IInv, SocketsOK, BusyIsUsed, UnusedHasATimer, IdleConnectionsExpire
<1> QED
  BY <1>1, InitInv, NextInv, PTL DEF Spec

(* For any requests and retries: every part of an answer comes behind one start event, and parts
   of a second attempt only when the backend has lost the response to go on from, once. *)
THEOREM AnswersMixOnlyOnALostResponse == Spec => []AnswersAreNotMixed
<1>1. IInv => AnswersAreNotMixed
  BY DEF IInv, CallsOK, CallOK, Told, AnswersAreNotMixed
<1> QED
  BY <1>1, InitInv, NextInv, PTL DEF Spec
=============================================================================
