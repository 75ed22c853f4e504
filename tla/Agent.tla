------------------------------- MODULE Agent --------------------------------
(* One agent (agent.ts) and the loop of a run (agent-loop.ts). At most one run
   is active. A run injects its prompts, asks the model, executes the tool calls
   of the reply one after the other or in parallel, and asks again until nothing
   is left to answer; meanwhile the user queues steering and follow-up messages,
   or aborts. Between two steps of the model the program awaits its listeners, a
   hook, the model or a tool, and anything the user can do may come in between.
   The hooks that replace the context between turns are left out. *)
EXTENDS Compaction, TLC

CONSTANTS
    MaxMessages,    \* messages the user sends
    MaxCalls,       \* tool calls in a reply
    MaxReplies,     \* replies of the model with tool calls
    None

ASSUME BoundsAssumption == MaxMessages \in Nat /\ MaxCalls \in Nat /\ MaxReplies \in Nat
ASSUME NoneAssumption == None \notin [aborted : BOOLEAN, skip : BOOLEAN, doomed : BOOLEAN]

VARIABLES
    mode,       \* queueing mode: "all" or "one-at-a-time"
    messages,   \* state.messages: the transcript
    context,    \* currentContext.messages: the copy of the run
    steering, followUp,     \* the two queues of messages
    run,        \* None, or the active run: aborted, skip the first poll, asked after the abort
    pc,         \* what the run awaits
    pending,    \* pendingMessages: taken from a queue (or the prompts), not yet injected
    more,       \* hasMoreToolCalls
    batch,      \* the tool calls of the last reply: how far each has come
    replies,    \* replies so far
    strays,     \* calls still executing though their run is over
    sent,       \* how each message of the user was sent; its place here is its name
    gone,       \* messages that were cleared or lost
    waited      \* requests that were made while the same steering message was next

queues == <<steering, followUp>>
loop == <<pc, pending, more, batch, replies>>
vars == <<mode, messages, context, queues, run, loop, strays, sent, gone, waited>>

NoBatch == [calls |-> 0, how |-> "none", next |-> 1, out |-> <<>>, shown |-> 0]
NextMessage == Len(sent) + 1
Users(ms) == [i \in DOMAIN ms |-> User(ms[i])]

Init ==
    /\ mode \in {"all", "one-at-a-time"}
    /\ messages = <<>> /\ context = <<>>
    /\ steering = <<>> /\ followUp = <<>>
    /\ run = None /\ pc = "idle" /\ pending = <<>>
    /\ more = FALSE /\ batch = NoBatch /\ replies = 0
    /\ strays = {} /\ sent = <<>> /\ gone = {} /\ waited = 0

-----------------------------------------------------------------------------
(* The user. *)

(* PendingMessageQueue.drain: what it returns, and what it leaves. *)
Drained(q) == IF mode = "all" \/ q = <<>> THEN q ELSE <<Head(q)>>
Left(q) == IF mode = "all" \/ q = <<>> THEN <<>> ELSE Tail(q)

Begin(ms, skip) ==
    /\ run' = [aborted |-> FALSE, skip |-> skip, doomed |-> FALSE]
    /\ pending' = ms /\ pc' = "prompt"
    /\ context' = messages \o Users(ms)
    /\ more' = TRUE /\ batch' = NoBatch

Prompt ==
    /\ run = None /\ NextMessage <= MaxMessages
    /\ sent' = Append(sent, "prompt")
    /\ Begin(<<NextMessage>>, FALSE)
    /\ UNCHANGED <<mode, messages, queues, replies, strays, gone, waited>>

(* continue: after a reply of the model, with what is queued; steering first. *)
ContinueQueued ==
    /\ run = None /\ messages # <<>> /\ Last(messages).role = "assistant"
    /\ IF steering # <<>>
       THEN /\ Begin(Drained(steering), TRUE)
            /\ steering' = Left(steering) /\ UNCHANGED followUp
       ELSE /\ followUp # <<>>
            /\ Begin(Drained(followUp), FALSE)
            /\ followUp' = Left(followUp) /\ UNCHANGED steering
    /\ waited' = 0
    /\ UNCHANGED <<mode, messages, replies, strays, sent, gone>>

Continue ==
    /\ run = None /\ messages # <<>> /\ Last(messages).role # "assistant"
    /\ run' = [aborted |-> FALSE, skip |-> FALSE, doomed |-> FALSE]
    /\ pending' = <<>> /\ pc' = "poll"
    /\ context' = messages
    /\ more' = TRUE /\ batch' = NoBatch
    /\ UNCHANGED <<mode, messages, queues, replies, strays, sent, gone, waited>>

Steer ==
    /\ NextMessage <= MaxMessages
    /\ sent' = Append(sent, "steer")
    /\ steering' = Append(steering, NextMessage)
    /\ UNCHANGED <<mode, messages, context, followUp, run, loop, strays, gone, waited>>

FollowUp ==
    /\ NextMessage <= MaxMessages
    /\ sent' = Append(sent, "followUp")
    /\ followUp' = Append(followUp, NextMessage)
    /\ UNCHANGED <<mode, messages, context, steering, run, loop, strays, gone, waited>>

Abort ==
    /\ run # None /\ ~run.aborted
    /\ run' = [run EXCEPT !.aborted = TRUE]
    /\ UNCHANGED <<mode, messages, context, queues, loop, strays, sent, gone, waited>>

ClearAllQueues ==
    /\ steering \o followUp # <<>>
    /\ steering' = <<>> /\ followUp' = <<>>
    /\ gone' = gone \cup ToSet(steering) \cup ToSet(followUp)
    /\ waited' = 0
    /\ UNCHANGED <<mode, messages, context, run, loop, strays, sent>>

UsersIn(msgs) == {msgs[i].id : i \in {j \in DOMAIN msgs : msgs[j].role = "user"}}
Reset ==
    /\ run = None /\ messages # <<>>
    /\ messages' = <<>> /\ steering' = <<>> /\ followUp' = <<>>
    /\ gone' = gone \cup ToSet(steering) \cup ToSet(followUp) \cup UsersIn(messages)
    /\ waited' = 0
    /\ UNCHANGED <<mode, context, run, loop, strays, sent>>

-----------------------------------------------------------------------------
(* The loop. *)

(* A prompt reaches the transcript with its message_end. *)
InjectPrompt ==
    /\ pc = "prompt"
    /\ messages' = Append(messages, User(Head(pending)))
    /\ pending' = Tail(pending)
    /\ pc' = IF Len(pending) = 1 THEN "poll" ELSE "prompt"
    /\ UNCHANGED <<mode, context, queues, run, more, batch, replies, strays, sent, gone, waited>>

(* Mutant of Poll: the turn goes on at once when tool calls are to be answered. *)
PollWhenDone ==
    /\ pc = "poll"
    /\ IF run.skip \/ (more /\ replies > 0)
       THEN pending' = <<>> /\ UNCHANGED steering /\ run' = [run EXCEPT !.skip = FALSE]
       ELSE pending' = Drained(steering) /\ steering' = Left(steering) /\ UNCHANGED run
    /\ pc' = IF pending' # <<>> THEN "inject" ELSE IF more THEN "ask" ELSE "follow_up"
    /\ waited' = IF run.skip \/ (more /\ replies > 0) THEN waited ELSE 0
    /\ UNCHANGED <<mode, messages, context, followUp, more, batch, replies, strays, sent, gone>>

(* getSteeringMessages, at the start and after every turn. *)
Poll ==
    /\ pc = "poll"
    /\ IF run.skip
       THEN pending' = <<>> /\ UNCHANGED steering /\ run' = [run EXCEPT !.skip = FALSE]
       ELSE pending' = Drained(steering) /\ steering' = Left(steering) /\ UNCHANGED run
    /\ pc' = IF pending' # <<>> THEN "inject" ELSE IF more THEN "ask" ELSE "follow_up"
    /\ waited' = IF run.skip THEN waited ELSE 0
    /\ UNCHANGED <<mode, messages, context, followUp, more, batch, replies, strays, sent, gone>>

(* Mutant of Inject: only the transcript gets the message. *)
InjectUnseen ==
    /\ pc = "inject"
    /\ messages' = Append(messages, User(Head(pending)))
    /\ pending' = Tail(pending)
    /\ pc' = IF Len(pending) = 1 THEN "ask" ELSE "inject"
    /\ UNCHANGED <<mode, context, queues, run, more, batch, replies, strays, sent, gone, waited>>

Inject ==
    /\ pc = "inject"
    /\ messages' = Append(messages, User(Head(pending)))
    /\ context' = Append(context, User(Head(pending)))
    /\ pending' = Tail(pending)
    /\ pc' = IF Len(pending) = 1 THEN "ask" ELSE "inject"
    /\ UNCHANGED <<mode, queues, run, more, batch, replies, strays, sent, gone, waited>>

(* The request is made, with the signal of the run. *)
Ask ==
    /\ pc = "ask"
    /\ run' = [run EXCEPT !.doomed = run.aborted]
    /\ pc' = "answer"
    /\ waited' = IF steering = <<>> THEN 0 ELSE waited + 1
    /\ UNCHANGED <<mode, messages, context, queues, pending, more, batch, replies, strays, sent, gone>>

(* The stop reasons of the reply, as far as the loop tells them apart. *)
Stops == {"broken"} \cup IF run.doomed THEN {} ELSE {"truncated", "complete"}

(* The reply; one that broke off (an error or an abort) may hold calls too. *)
Answer ==
    /\ pc = "answer"
    /\ \E calls \in 0..(IF replies < MaxReplies THEN MaxCalls ELSE 0), stop \in Stops :
          LET reply == Reply(replies + 1, calls, stop = "broken")
              hows  == IF stop = "truncated" THEN {"truncated"} ELSE {"sequential", "parallel"}
          IN  /\ messages' = Append(messages, reply) /\ context' = Append(context, reply)
              /\ IF reply.broken \/ calls = 0
                 THEN batch' = NoBatch /\ pc' = IF reply.broken THEN "end" ELSE "turn_end"
                 ELSE /\ \E how \in hows :
                            batch' = [NoBatch EXCEPT !.calls = calls, !.how = how,
                                                     !.out = [i \in 1..calls |-> "open"]]
                      /\ pc' = "prepare"
    /\ replies' = replies + 1
    /\ UNCHANGED <<mode, queues, run, pending, more, strays, sent, gone, waited>>

-----------------------------------------------------------------------------
(* The tool calls of a reply: "open", "ready" to run, "running", or done, with
   ("stop") or without ("done") the wish to end the run. *)
Over(b) == b.next > b.calls
AfterCalls(b) ==
    IF b.how # "parallel" THEN "turn_end"
    ELSE IF \E i \in 1..b.calls : b.out[i] = "running" THEN "execute"
    ELSE "results"
Started(b) == [b EXCEPT !.out = [i \in 1..b.calls |-> IF @[i] = "ready" THEN "running" ELSE @[i]]]
Unaltered == UNCHANGED <<mode, context, queues, run, pending, more, replies, strays, sent, gone, waited>>

(* failToolCallsFromTruncatedMessage *)
RefuseTruncated ==
    /\ pc = "prepare" /\ batch.how = "truncated"
    /\ LET i == batch.next
           b == [batch EXCEPT !.out[i] = "done", !.next = i + 1]
       IN  /\ batch' = b
           /\ messages' = Append(messages, Result(replies, i))
           /\ pc' = IF Over(b) THEN "turn_end" ELSE "prepare"
    /\ Unaltered

(* prepareToolCall settles the call at once: there is no such tool, its
   arguments are wrong, the hook blocks it, or the run is aborted. *)
PrepareFails ==
    /\ pc = "prepare" /\ batch.how # "truncated"
    /\ \E result \in {"done"} \cup (IF run.aborted THEN {} ELSE {"stop"}) :
          batch' = [batch EXCEPT !.out[batch.next] = result, !.next = @ + 1]
    /\ messages' = IF batch.how = "sequential"
                   THEN Append(messages, Result(replies, batch.next)) ELSE messages
    /\ pc' = "check"
    /\ Unaltered

(* The call may run: now, or with the others. *)
Prepare ==
    /\ pc = "prepare" /\ batch.how # "truncated" /\ ~run.aborted
    /\ IF batch.how = "sequential"
       THEN /\ batch' = [batch EXCEPT !.out[batch.next] = "running", !.next = @ + 1]
            /\ pc' = "execute"
       ELSE /\ batch' = [batch EXCEPT !.out[batch.next] = "ready", !.next = @ + 1]
            /\ pc' = "check"
    /\ messages' = messages
    /\ Unaltered

(* An abort cuts the batch short; parallel calls start when all are prepared. *)
Check ==
    /\ pc = "check"
    /\ IF run.aborted \/ Over(batch)
       THEN batch' = Started(batch) /\ pc' = AfterCalls(Started(batch))
       ELSE batch' = batch /\ pc' = "prepare"
    /\ messages' = messages
    /\ Unaltered

(* A tool ends, well or not, and so does the hook behind it. *)
Finish(i) ==
    /\ pc = "execute" /\ batch.out[i] = "running"
    /\ \E result \in {"done", "stop"} :
          LET b == [batch EXCEPT !.out[i] = result] IN
          /\ batch' = b
          /\ pc' = IF b.how = "sequential" THEN "check" ELSE AfterCalls(b)
    /\ messages' = IF batch.how = "sequential" THEN Append(messages, Result(replies, i)) ELSE messages
    /\ Unaltered

(* The results of parallel calls join the transcript in the order of the calls. *)
ShowResult ==
    /\ pc = "results"
    /\ LET i == batch.shown + 1 IN
       /\ messages' = Append(messages, Result(replies, i))
       /\ batch' = [batch EXCEPT !.shown = i]
       /\ pc' = IF i = batch.next - 1 THEN "turn_end" ELSE "results"
    /\ Unaltered

Taken == 1..(batch.next - 1)
Terminates == Taken # {} /\ batch.how # "truncated" /\ \A i \in Taken : batch.out[i] = "stop"

(* turn_end; the hook shouldStopAfterTurn may end the run. *)
TurnEnd ==
    /\ pc = "turn_end"
    /\ context' = context \o [i \in Taken |-> Result(replies, i)]
    /\ more' = (Taken # {} /\ ~Terminates)
    /\ batch' = NoBatch
    /\ pc' \in {"poll", "end"}
    /\ UNCHANGED <<mode, messages, queues, run, pending, replies, strays, sent, gone, waited>>

(* Mutant of PollFollowUps: the messages stay in their queue. *)
PeekFollowUps ==
    /\ pc = "follow_up"
    /\ pending' = Drained(followUp) /\ followUp' = followUp
    /\ IF pending' # <<>> THEN pc' = "inject" /\ more' = TRUE ELSE pc' = "end" /\ UNCHANGED more
    /\ UNCHANGED <<mode, messages, context, steering, run, batch, replies, strays, sent, gone, waited>>

PollFollowUps ==
    /\ pc = "follow_up"
    /\ pending' = Drained(followUp) /\ followUp' = Left(followUp)
    /\ IF pending' # <<>> THEN pc' = "inject" /\ more' = TRUE ELSE pc' = "end" /\ UNCHANGED more
    /\ UNCHANGED <<mode, messages, context, steering, run, batch, replies, strays, sent, gone, waited>>

-----------------------------------------------------------------------------
(* The end of a run. *)
Idle ==
    /\ run' = None /\ pc' = "idle" /\ pending' = <<>>
    /\ more' = FALSE /\ batch' = NoBatch /\ context' = <<>>

(* Mutant of FinishRun: a run that failed is not finished. *)
FinishIfWell ==
    /\ pc = "end"
    /\ Idle
    /\ UNCHANGED <<mode, messages, queues, replies, strays, sent, gone, waited>>

(* agent_end has been heard by all: finishRun. *)
FinishRun ==
    /\ pc \in {"end", "settle"}
    /\ Idle
    /\ UNCHANGED <<mode, messages, queues, replies, strays, sent, gone, waited>>

(* A listener or a hook throws: executor rejects. Parallel calls that run are
   not waited for; what was taken from a queue is lost. *)
Throw ==
    /\ run # None /\ pc \notin {"failing", "settle"}
    /\ pc' = "failing"
    /\ strays' = strays \cup {<<replies, i>> : i \in {j \in 1..batch.calls : batch.out[j] = "running"}}
    /\ gone' = gone \cup ToSet(pending)
    /\ pending' = <<>> /\ batch' = NoBatch /\ more' = FALSE /\ context' = <<>>
    /\ UNCHANGED <<mode, messages, queues, run, replies, sent, waited>>

(* handleRunFailure; its listeners may throw before it added its message. *)
HandleFailure ==
    /\ pc = "failing"
    /\ messages' = Append(messages, Reply(replies + 1, 0, TRUE))
    /\ replies' = replies + 1
    /\ pc' = "settle"
    /\ UNCHANGED <<mode, context, queues, run, pending, more, batch, strays, sent, gone, waited>>
FailHandler ==
    /\ pc = "failing"
    /\ Idle
    /\ UNCHANGED <<mode, messages, queues, replies, strays, sent, gone, waited>>

FinishStray ==
    /\ \E c \in strays : strays' = strays \ {c}
    /\ UNCHANGED <<mode, messages, context, queues, run, loop, sent, gone, waited>>

LoopStep ==
    \/ InjectPrompt
    \/ Poll
    \/ Inject
    \/ Ask
    \/ Answer
    \/ RefuseTruncated
    \/ PrepareFails
    \/ Prepare
    \/ Check
    \/ \E i \in 1..MaxCalls : i \in DOMAIN batch.out /\ Finish(i)
    \/ ShowResult
    \/ TurnEnd
    \/ PollFollowUps
    \/ FinishRun
    \/ HandleFailure

Next ==
    \/ LoopStep
    \/ Throw
    \/ FailHandler
    \/ FinishStray
    \/ Prompt
    \/ Steer
    \/ FollowUp
    \/ ContinueQueued
    \/ Continue
    \/ Abort
    \/ ClearAllQueues
    \/ Reset

(* The model and the tools answer, hooks and listeners return. *)
Spec == Init /\ [][Next]_vars /\ WF_vars(LoopStep)

-----------------------------------------------------------------------------
(* Whatever was aborted, cut short, steered or failed before, a request can be
   answered: every tool call in it has its result right behind it (agent-loop.ts
   breaks batches off; transform-messages.ts fills the gaps). *)
RequestsAreAnswered == pc = "answer" => Acceptable(TransformMessages(context))

(* Every message of the user is in one place: a queue, on its way into the run,
   in the transcript, once, or cleared, or lost by a run that failed; and those
   that were sent in the same way appear in the order they were sent. What the
   model is asked is that transcript: the copy a run works on never drifts from
   the one listeners build from its events (agent.ts processEvents). *)
At(m) == {i \in DOMAIN messages : messages[i].role = "user" /\ messages[i].id = m}
Count(s, m) == Cardinality({i \in DOMAIN s : s[i] = m})
EachMessageOnce ==
    /\ \A m \in DOMAIN sent :
          Count(steering, m) + Count(followUp, m) + Count(pending, m) + Cardinality(At(m))
             + (IF m \in gone THEN 1 ELSE 0) = 1
    /\ \A m, n \in DOMAIN sent : m < n /\ sent[m] = sent[n] =>
          \A a \in At(m), b \in At(n) : a < b
    /\ pc \in {"ask", "answer"} => context = messages

(* A steering message is "injected after the current assistant turn finishes"
   (agent.ts:282): no second request is made while the same message is next. *)
SteeringWaitsOneTurn == waited <= 1

(* When the conversation is compacted after a run, and was compacted in between,
   the next request still can be answered and holds the end of it, and what is
   left out of it was summarized (compaction.ts:312, context.ts:90). *)
Keeps == 1..2
(* Only the messages matter: one state of the rest is enough. *)
AllSaid == pc = "end" /\ queues = <<<<>>, <<>>>> /\ mode = "all" /\ strays = {} /\ ~run.aborted
Compactions(m) == {Twice(m, n, k, l) : n \in DOMAIN m, k \in Keeps, l \in Keeps}
CompactionKeepsTheEnd ==
    AllSaid => \A path \in Compactions(messages) : KeepsTheEnd(messages, path)

(* A run that is aborted ends, whatever it awaited (agent.ts:318). *)
AbortEnds == run # None /\ run.aborted ~> run = None
=============================================================================
