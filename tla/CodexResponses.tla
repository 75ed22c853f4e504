--------------------------- MODULE CodexResponses ---------------------------
(* The requests of one session to the Codex backend
   (ai/src/api/openai-codex-responses.ts). A request goes over a WebSocket that
   is kept, per account, for the next request, which then sends only what is new
   in the conversation; when no event has come yet a failure is made good by
   another connection or by an ordinary request (SSE) with its retries, and when
   the backend has lost the response to go on from, even after events. The
   requests of a session may overlap, and the server closes, forgets and fails
   whenever it likes. Time is not counted: whatever has a timeout may run out. *)
EXTENDS Naturals, Sequences, FiniteSets, FiniteSetsExt, SequencesExt, TLC

CONSTANTS
    Accounts,       \* account ids of the keys the requests are made with
    AccountsOf,     \* the accounts a request may be made with
    MaxRequests,    \* requests of the session
    MaxOverlap,     \* requests under way at a time
    MaxSockets,     \* connections that exist at a time
    MaxRetries,     \* options.maxRetries
    None

ASSUME AccountsAssumption == AccountsOf \in [1..MaxRequests -> SUBSET Accounts]
ASSUME BoundsAssumption == {MaxRequests, MaxOverlap, MaxSockets, MaxRetries} \subseteq Nat

Requests == 1..MaxRequests
Sockets == 1..MaxSockets

ASSUME NoneAssumption == None \notin Sockets

VARIABLES
    calls,      \* the requests
    sockets,    \* connections, with their cache entries
    cache,      \* websocketSessionCache of the session: account -> connection
    fallback    \* the session is in websocketSseFallbackSessions

vars == <<calls, sockets, cache, fallback>>

(* What is said in a conversation, up to what distinguishes it. *)
Question(r) == <<"question", r>>
Reply(r) == <<"reply", r>>
(* What the client has of a reply before which an attempt was given up with parts
   of it out: they stay in the content. *)
Mixed(r) == <<"mixed", r>>

(* part: parts of this attempt are out; stray: attempts given up after that. *)
NewCall ==
    [pc |-> "new", account |-> None, input |-> <<>>, socket |-> None, kept |-> FALSE,
     seen |-> <<>>, delta |-> FALSE, started |-> FALSE, starts |-> 0, part |-> FALSE,
     stray |-> 0, limit |-> FALSE, missing |-> FALSE, attempt |-> 0, aborted |-> FALSE]

NoSocket ==
    [open |-> FALSE, busy |-> FALSE, old |-> FALSE, timer |-> FALSE,
     account |-> None, continuation |-> None, server |-> None]

Init ==
    /\ calls = [r \in Requests |-> NewCall]
    /\ sockets = [s \in Sockets |-> NoSocket]
    /\ cache = [a \in Accounts |-> None]
    /\ fallback = FALSE

Ended(r) == calls[r].pc \in {"done", "error"}
Uses(r, s) == calls[r].pc = "streaming" /\ calls[r].socket = s
InUse(s) == \E r \in Requests : Uses(r, s)
Cached(s) == \E a \in Accounts : cache[a] = s
Free(s) == ~sockets[s].open /\ ~sockets[s].timer /\ ~InUse(s) /\ ~Cached(s)

(* closeWebSocketSilently: what the entry remembers is of no use any more. *)
Shut(ss, s) == [ss EXCEPT ![s] = [NoSocket EXCEPT !.busy = ss[s].busy, !.timer = ss[s].timer]]
(* The entry is taken out of the cache if it is still the one there. *)
Without(s) == [a \in Accounts |-> IF cache[a] = s THEN None ELSE cache[a]]

-----------------------------------------------------------------------------
(* What a connection still has to be told of a conversation, or None if the
   conversation does not go on from the last response on it. *)
(* Mutant of InputDelta: only the lengths are compared. *)
DeltaByLength(input, base) ==
    IF Len(input) >= Len(base) THEN SubSeq(input, Len(base) + 1, Len(input)) ELSE None
InputDelta(input, base) ==
    IF IsPrefix(base, input) THEN SubSeq(input, Len(base) + 1, Len(input)) ELSE None

(* Request r, in call c, is sent on connection s of ss; the server puts what it
   was told behind what it remembers of the response it is told to go on from. *)
Send(r, c, ss, s) ==
    LET cont  == ss[s].continuation
        delta == IF cont = None THEN None ELSE InputDelta(c.input, cont)
        seen  == IF delta = None THEN c.input ELSE ss[s].server \o delta
    IN  /\ calls' = [calls EXCEPT ![r] =
              [c EXCEPT !.pc = "streaming", !.socket = s, !.seen = seen, !.delta = delta # None,
                        !.started = FALSE]]
        /\ sockets' = IF delta = None THEN [ss EXCEPT ![s].continuation = None] ELSE ss

Connecting(r, kept) == calls' = [calls EXCEPT ![r].pc = "connecting", ![r].kept = kept]

(* A conversation is new, goes on from a reply, or has been rewritten since. *)
Said(r) == IF calls[r].stray = 0 THEN Reply(r) ELSE Mixed(r)
Replied == {Append(calls[r].input, Said(r)) : r \in {q \in Requests : calls[q].pc = "done"}}
Rewritten(h) == [h EXCEPT ![1] = <<"summary">>]
Inputs(r) == {<<Question(r)>>} \union UNION {{Append(h, Question(r)), Append(Rewritten(h), Question(r))} : h \in Replied}

Begin(r) ==
    /\ calls[r].pc = "new"
    /\ r > 1 => calls[r - 1].pc # "new"
    /\ Cardinality({q \in Requests : calls[q].pc # "new" /\ ~Ended(q)}) < MaxOverlap
    /\ \E a \in AccountsOf[r], input \in Inputs(r) :
          calls' = [calls EXCEPT ![r].pc = IF fallback THEN "fetch" ELSE "acquire",
                                 ![r].account = a, ![r].input = input]
    /\ UNCHANGED <<sockets, cache, fallback>>

-----------------------------------------------------------------------------
(* acquireWebSocket, up to its first await. *)
(* Mutant of Reuse: a connection that is busy is used as well. *)
ReuseBusy(r, s) ==
    /\ ~sockets[s].old /\ sockets[s].open
    /\ Send(r, [calls[r] EXCEPT !.kept = TRUE], [sockets EXCEPT ![s].busy = TRUE, ![s].timer = FALSE], s)
    /\ UNCHANGED cache

Reuse(r, s) ==
    /\ ~sockets[s].busy /\ ~sockets[s].old /\ sockets[s].open
    /\ Send(r, [calls[r] EXCEPT !.kept = TRUE], [sockets EXCEPT ![s].busy = TRUE, ![s].timer = FALSE], s)
    /\ UNCHANGED cache

Discard(r, s) ==
    /\ ~sockets[s].busy /\ (sockets[s].old \/ ~sockets[s].open)
    /\ sockets' = Shut([sockets EXCEPT ![s].timer = FALSE], s)
    /\ cache' = Without(s)
    /\ Connecting(r, TRUE)

ConnectBeside(r, s) ==
    /\ sockets[s].busy
    /\ sockets' = [sockets EXCEPT ![s].timer = FALSE]
    /\ Connecting(r, FALSE)
    /\ UNCHANGED cache

ConnectFirst(r) ==
    /\ cache[calls[r].account] = None
    /\ Connecting(r, TRUE)
    /\ UNCHANGED <<sockets, cache>>

Acquire(r) ==
    /\ calls[r].pc = "acquire" /\ ~calls[r].aborted
    /\ \/ ConnectFirst(r)
       \/ \E s \in Sockets :
             /\ cache[calls[r].account] = s
             /\ Reuse(r, s) \/ Discard(r, s) \/ ConnectBeside(r, s)
    /\ UNCHANGED fallback

(* connectWebSocket resolves. A connection that is to be kept takes the place of
   one that another request has put into the cache meanwhile. *)
Connected(r) ==
    /\ calls[r].pc = "connecting" /\ ~calls[r].aborted
    /\ \E s \in Sockets :
          /\ Free(s) /\ \A q \in 1..(s - 1) : ~Free(q)
          /\ LET new == [NoSocket EXCEPT !.open = TRUE, !.busy = calls[r].kept, !.account = calls[r].account]
             IN  Send(r, calls[r], [sockets EXCEPT ![s] = new], s)
          /\ cache' = IF calls[r].kept THEN [cache EXCEPT ![calls[r].account] = s] ELSE cache
    /\ UNCHANGED fallback

(* release({ keep }): the connection is closed and forgotten, or, if it is still
   open and has an entry, left idle with what the next request can go on from. *)
Drop(r) ==
    /\ sockets' = Shut([sockets EXCEPT ![calls[r].socket].busy = FALSE], calls[r].socket)
    /\ cache' = Without(calls[r].socket)

Keep(r) ==
    LET s == calls[r].socket
        c == calls[r]
    IN  IF c.kept /\ sockets[s].open
        THEN /\ sockets' = [sockets EXCEPT ![s] = [@ EXCEPT !.busy = FALSE, !.timer = TRUE,
                    !.continuation = Append(c.input, Said(r)), !.server = Append(c.seen, Reply(r))]]
             /\ UNCHANGED cache
        ELSE Drop(r)

-----------------------------------------------------------------------------
(* What becomes of the request. *)
Off(r) == [calls[r] EXCEPT !.socket = None, !.kept = FALSE, !.seen = <<>>, !.delta = FALSE, !.started = FALSE,
                           !.part = FALSE, !.stray = IF calls[r].part THEN @ + 1 ELSE @]
Retry(r, flag) == calls' = [calls EXCEPT ![r] = [Off(r) EXCEPT !.pc = "acquire", ![flag] = TRUE]]
UseSse(r) == calls' = [calls EXCEPT ![r] = [Off(r) EXCEPT !.pc = "fetch", !.limit = FALSE]]
End(r, pc) == calls' = [calls EXCEPT ![r] =
                  IF pc = "done"
                  THEN [NewCall EXCEPT !.pc = pc, !.input = calls[r].input, !.starts = calls[r].starts,
                                       !.stray = calls[r].stray, !.missing = calls[r].missing]
                  ELSE [NewCall EXCEPT !.pc = pc]]

(* Mutant of FallBack: the request goes on over SSE whatever has come already. *)
FallBackAnyway(r) == UseSse(r) /\ fallback' = TRUE
(* The session gives up WebSockets; the request goes on over SSE, if nothing of
   the answer has come yet. *)
FallBack(r) ==
    /\ IF calls[r].started THEN End(r, "error") ELSE UseSse(r)
    /\ fallback' = TRUE

(* The connection attempt fails or takes too long. *)
ConnectFails(r) ==
    /\ calls[r].pc = "connecting" /\ ~calls[r].aborted
    /\ FallBack(r)
    /\ UNCHANGED <<sockets, cache>>

Streaming(r) == calls[r].pc = "streaming" /\ ~calls[r].aborted
Answering(r) == Streaming(r) /\ sockets[calls[r].socket].open

(* An event: the first one, whether it carries a part of the answer or not,
   starts the stream. *)
Event(r) ==
    /\ Answering(r)
    /\ \E part \in BOOLEAN :
          calls' = [calls EXCEPT ![r].started = TRUE, ![r].starts = IF calls[r].starts = 0 THEN 1 ELSE @,
                                 ![r].part = @ \/ part]
    /\ UNCHANGED <<sockets, cache, fallback>>

Completed(r) ==
    /\ Answering(r) /\ calls[r].started
    /\ Keep(r)
    /\ End(r, "done")
    /\ UNCHANGED fallback

(* The response is complete but no success (assertSuccessfulOutput). *)
CompletedBadly(r) ==
    /\ Answering(r) /\ calls[r].started
    /\ Keep(r)
    /\ FallBack(r)

(* CodexApiError: the backend answers with an error. It may have lost the
   response that a request goes on from (one that names none it cannot miss): the
   request is made again, whatever has been handed on, and what has been stays. *)
MissingResponse(r) ==
    /\ Streaming(r) /\ calls[r].delta
    /\ Drop(r)
    /\ IF calls[r].missing THEN End(r, "error") ELSE Retry(r, "missing")
    /\ UNCHANGED fallback

ConnectionLimit(r) ==
    /\ Streaming(r) /\ ~calls[r].started
    /\ Drop(r)
    /\ \/ ~calls[r].limit /\ Retry(r, "limit") /\ UNCHANGED fallback
       \/ calls[r].limit /\ FallBack(r)

(* Any other error it reports, or a frame that is not JSON. *)
ApiError(r) ==
    /\ Streaming(r)
    /\ Drop(r)
    /\ End(r, "error")
    /\ UNCHANGED fallback

(* The connection fails, is closed, or is silent for too long. *)
TransportFails(r) ==
    /\ Streaming(r)
    /\ Drop(r)
    /\ FallBack(r)

-----------------------------------------------------------------------------
(* The request over SSE. *)
Fetching(r) == calls[r].pc = "fetch" /\ ~calls[r].aborted
Sleep(r) == calls' = [calls EXCEPT ![r].pc = "sleep", ![r].attempt = @ + 1]

FetchAnswered(r) ==
    /\ Fetching(r)
    /\ calls' = [calls EXCEPT ![r].pc = "reading", ![r].started = FALSE, ![r].starts = IF calls[r].starts = 0 THEN 1 ELSE @]
    /\ UNCHANGED <<sockets, cache, fallback>>

(* No answer, or one with an error status. The error thrown for a status that is
   not retryable meets the handler for network errors: only one that speaks of a
   usage limit, or a delay that is too long, ends the request. *)
FetchFails(r) ==
    /\ Fetching(r)
    /\ \/ calls[r].attempt < MaxRetries /\ Sleep(r)
       \/ End(r, "error")
    /\ UNCHANGED <<sockets, cache, fallback>>

FetchRefused(r) ==
    /\ Fetching(r)
    /\ IF calls[r].attempt < MaxRetries
       THEN calls' = [calls EXCEPT ![r].pc = "sleep", ![r].attempt = @ + 1]
       ELSE End(r, "error")
    /\ UNCHANGED <<sockets, cache, fallback>>

WakeUp(r) ==
    /\ calls[r].pc = "sleep" /\ ~calls[r].aborted
    /\ calls' = [calls EXCEPT ![r].pc = "fetch"]
    /\ UNCHANGED <<sockets, cache, fallback>>

Read(r) ==
    /\ calls[r].pc = "reading" /\ ~calls[r].aborted
    /\ \/ calls' = [calls EXCEPT ![r].started = TRUE, ![r].part = TRUE]
       \/ \E pc \in {"done", "error"} : End(r, pc)
    /\ UNCHANGED <<sockets, cache, fallback>>

-----------------------------------------------------------------------------
(* The user, the server and the clock. *)
Abort(r) ==
    /\ calls[r].pc # "new" /\ ~Ended(r) /\ ~calls[r].aborted
    /\ calls' = [calls EXCEPT ![r].aborted = TRUE]
    /\ UNCHANGED <<sockets, cache, fallback>>

(* Every await of a request is woken by its signal. *)
HandleAbort(r) ==
    /\ calls[r].aborted /\ ~Ended(r)
    /\ IF calls[r].pc = "streaming" THEN Drop(r) ELSE UNCHANGED <<sockets, cache>>
    /\ End(r, "error")
    /\ UNCHANGED fallback

ServerCloses(s) ==
    /\ sockets[s].open
    /\ sockets' = Shut(sockets, s)
    /\ UNCHANGED <<calls, cache, fallback>>

(* SESSION_WEBSOCKET_MAX_AGE_MS has passed since the connection was made, which
   is looked at only when it is idle. *)
Age(s) ==
    /\ sockets[s].open /\ Cached(s) /\ ~sockets[s].busy /\ ~sockets[s].old
    /\ sockets' = [sockets EXCEPT ![s].old = TRUE]
    /\ UNCHANGED <<calls, cache, fallback>>

(* Mutant of IdleTimeout: only the connection in the cache is closed. *)
IdleTimeoutOfCached(s) ==
    /\ sockets[s].timer
    /\ sockets' = IF sockets[s].busy \/ ~Cached(s) THEN [sockets EXCEPT ![s].timer = FALSE]
                  ELSE Shut([sockets EXCEPT ![s].timer = FALSE], s)
    /\ cache' = IF sockets[s].busy THEN cache ELSE Without(s)
    /\ UNCHANGED <<calls, fallback>>

(* The timer of scheduleSessionWebSocketExpiry fires. *)
IdleTimeout(s) ==
    /\ sockets[s].timer
    /\ IF sockets[s].busy
       THEN sockets' = [sockets EXCEPT ![s].timer = FALSE] /\ UNCHANGED cache
       ELSE sockets' = Shut([sockets EXCEPT ![s].timer = FALSE], s) /\ cache' = Without(s)
    /\ UNCHANGED <<calls, fallback>>

(* cleanupSessionResources: the cached connections are closed, in use or not. *)
CloseSessions ==
    /\ \E a \in Accounts : cache[a] # None
    /\ sockets' = [s \in Sockets |-> IF Cached(s) THEN [NoSocket EXCEPT !.busy = sockets[s].busy] ELSE sockets[s]]
    /\ cache' = [a \in Accounts |-> None]
    /\ UNCHANGED <<calls, fallback>>

Next ==
    \/ \E r \in Requests :
          \/ Begin(r)
          \/ Acquire(r)
          \/ Connected(r)
          \/ ConnectFails(r)
          \/ Event(r)
          \/ Completed(r)
          \/ CompletedBadly(r)
          \/ MissingResponse(r)
          \/ ConnectionLimit(r)
          \/ ApiError(r)
          \/ TransportFails(r)
          \/ FetchAnswered(r)
          \/ FetchFails(r)
          \/ FetchRefused(r)
          \/ WakeUp(r)
          \/ Read(r)
          \/ Abort(r)
          \/ HandleAbort(r)
    \/ \E s \in Sockets :
          \/ ServerCloses(s)
          \/ Age(s)
          \/ IdleTimeout(s)
    \/ CloseSessions

Spec == Init /\ [][Next]_vars

-----------------------------------------------------------------------------
(* Two requests never read the events of one connection, and none uses a
   connection opened with the key of another account (acquireWebSocket). *)
ConnectionsAreNotShared ==
    \A r, q \in Requests, s \in Sockets : Uses(r, s) =>
        /\ sockets[s].open => sockets[s].account = calls[r].account
        /\ Uses(q, s) => q = r

(* Whatever part of the conversation is sent, the server, which adds it to what
   the connection has carried, answers the whole (getCachedWebSocketInputDelta).
   Of a reply that the client has with parts of a given-up attempt in it, the
   server knows its own. *)
Answers(seen, input) ==
    /\ Len(seen) = Len(input)
    /\ \A i \in 1..Len(input) :
          \/ seen[i] = input[i]
          \/ \E q \in Requests : input[i] = Mixed(q) /\ seen[i] = Reply(q)

ServerSeesTheWholeInput ==
    \A r \in Requests : calls[r].pc = "streaming" => Answers(calls[r].seen, calls[r].input)

(* "connections are reused per session and expire after 5 minutes of inactivity"
   (packages/ai/README.md:1559): one that nobody uses has a timer, also if
   another has taken its place in the cache, and is not taken for busy. *)
IdleConnectionsExpire ==
    \A s \in Sockets :
        /\ sockets[s].open => InUse(s) \/ sockets[s].timer
        /\ sockets[s].busy /\ Cached(s) => InUse(s)

(* A reader sees one start event, ahead of every part, and parts of two attempts
   only when the backend has lost the response to go on from, of one attempt too
   many at most: no failure of a connection, limit or fallback makes a request
   again when a part of its answer is out (stream). *)
AnswersAreNotMixed ==
    \A r \in Requests : LET c == calls[r] IN
        /\ c.part \/ c.stray > 0 => c.starts = 1
        /\ c.starts <= 1
        /\ c.stray <= IF c.missing THEN 1 ELSE 0
=============================================================================
