----------------------------- MODULE Transcript -----------------------------
(* The conversation an agent keeps, and what is sent of it to a model
   (ai/api/transform-messages.ts). A message of the user, a reply of the model
   with some tool calls (broken when it ended in an error or an abort), or the
   result of one call; a call is named by the number of its reply and its place
   there. Texts, images, thinking and the form of ids are left out. *)
EXTENDS Naturals, Sequences, FiniteSets, SequencesExt

User(m) == [role |-> "user", id |-> m]
Reply(n, calls, broken) == [role |-> "assistant", n |-> n, calls |-> calls, broken |-> broken]
Result(n, i) == [role |-> "toolResult", call |-> <<n, i>>]

CallsOf(reply) == {<<reply.n, i>> : i \in 1..reply.calls}
Incomplete(msg) == msg.role = "assistant" /\ msg.broken

(* insertSyntheticToolResults: a result for each pending call that has none. *)
Fill(s, results, i) ==
    IF <<s.pending.n, i>> \in s.answered THEN results ELSE Append(results, Result(s.pending.n, i))
Synthetic(s) ==
    FoldLeft(LAMBDA results, i : Fill(s, results, i), <<>>, [i \in 1..s.pending.calls |-> i])
NothingPending == [n |-> 0, calls |-> 0]
Settled(s) == [sent |-> s.sent \o Synthetic(s), pending |-> NothingPending, answered |-> {}]

TransformOne(s, msg) ==
    CASE Incomplete(msg) -> Settled(s)
      [] msg.role = "assistant" /\ ~Incomplete(msg) ->
            [sent |-> Append(Settled(s).sent, msg), answered |-> {},
             pending |-> [n |-> msg.n, calls |-> msg.calls]]
      [] msg.role = "toolResult" ->
            [s EXCEPT !.sent = Append(@, msg), !.answered = @ \cup {msg.call}]
      [] msg.role = "user" -> [Settled(s) EXCEPT !.sent = Append(@, msg)]

(* Mutant of TransformMessages: a gap is filled only at the end. *)
FillAtTheEnd(msgs) ==
    LET complete == SelectSeq(msgs, LAMBDA m : ~Incomplete(m)) IN
    IF complete = <<>> \/ Last(complete).role # "assistant" THEN complete
    ELSE complete \o [i \in 1..Last(complete).calls |-> Result(Last(complete).n, i)]

(* Replies that ended in an error or an abort are left out; every tool call of
   the others is given a result before anything else follows. *)
TransformMessages(msgs) ==
    Settled(FoldLeft(TransformOne, [sent |-> <<>>, pending |-> NothingPending, answered |-> {}], msgs)).sent

(* What the providers accept: the results of a reply's calls stand right behind
   it, one for each call, and there are no others. *)
Acceptable(msgs) ==
    \A p \in DOMAIN msgs :
        \/ msgs[p].role = "user"
        \/ /\ msgs[p].role = "assistant"
           /\ Len(msgs) >= p + msgs[p].calls
           /\ {msgs[p + k] : k \in 1..msgs[p].calls}
                 = {Result(msgs[p].n, i) : i \in 1..msgs[p].calls}
        \/ /\ msgs[p].role = "toolResult"
           /\ \E q \in 1..(p - 1) : /\ msgs[q].role = "assistant"
                                    /\ msgs[p].call \in CallsOf(msgs[q])
                                    /\ p <= q + msgs[q].calls
=============================================================================
