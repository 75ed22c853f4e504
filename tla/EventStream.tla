---------------------------- MODULE EventStream ----------------------------
(* How the events of a reply reach their listener (ai/src/utils/event-stream.ts and
   ai/src/api/lazy.ts). An EventStream is a queue with a consumer that takes events
   one by one and waits when there is none. The adapter of a provider pushes into
   one, the lazy loader of the adapters takes from it and pushes into a second, and
   a listener takes from that. An event is a number; the last one ends the reply. *)
EXTENDS Naturals, Sequences, FiniteSets

CONSTANT MaxEvents      \* events of a reply before the last one

ASSUME MaxEventsAssumption == MaxEvents \in Nat

VARIABLES
    pushed,     \* what has been pushed
    inner,      \* the EventStream of the adapter
    outer,      \* the EventStream of the loader
    heard       \* what the listener has taken

vars == <<pushed, inner, outer, heard>>

Event == [no : Nat, last : BOOLEAN]
Stream == [queue : Seq(Event), waiting : BOOLEAN, handed : Seq(Event), done : BOOLEAN, left : BOOLEAN]
NewStream == [queue |-> <<>>, waiting |-> FALSE, handed |-> <<>>, done |-> FALSE, left |-> FALSE]

Init ==
    /\ pushed = <<>>
    /\ inner = NewStream
    /\ outer = NewStream
    /\ heard = <<>>

-----------------------------------------------------------------------------
(* An event goes to the consumer that waits or into the queue; nothing is accepted
   after the last one. *)
(* Mutant of Push: the event is queued although the consumer waits for it. *)
PushUnseen(s, event) ==
    IF s.done THEN s ELSE [s EXCEPT !.done = event.last, !.queue = Append(@, event)]
Push(s, event) ==
    CASE s.done -> s
      [] ~s.done /\ s.waiting  -> [s EXCEPT !.done = event.last, !.waiting = FALSE, !.handed = <<event>>]
      [] ~s.done /\ ~s.waiting -> [s EXCEPT !.done = event.last, !.queue = Append(@, event)]

EndStream(s) == [s EXCEPT !.done = TRUE, !.waiting = FALSE, !.left = @ \/ s.waiting]

(* The consumer comes back: it takes the event that was handed to it, or the first
   of the queue, or leaves the loop when the stream has ended, or waits. *)
MayTake(s) == ~s.waiting /\ ~s.left
Taken(s) ==
    CASE s.handed # <<>> -> s.handed
      [] s.handed = <<>> /\ s.queue # <<>> -> <<Head(s.queue)>>
      [] s.handed = <<>> /\ s.queue = <<>> -> <<>>
(* Mutant of Take: the end of the stream is looked at before the queue. *)
TakeUnlessDone(s) ==
    CASE s.handed # <<>> -> [s EXCEPT !.handed = <<>>]
      [] s.handed = <<>> /\ s.done -> [s EXCEPT !.left = TRUE, !.queue = <<>>]
      [] s.handed = <<>> /\ ~s.done /\ s.queue # <<>> -> [s EXCEPT !.queue = Tail(@)]
      [] s.handed = <<>> /\ ~s.done /\ s.queue = <<>> -> [s EXCEPT !.waiting = TRUE]
Take(s) ==
    CASE s.handed # <<>> -> [s EXCEPT !.handed = <<>>]
      [] s.handed = <<>> /\ s.queue # <<>> -> [s EXCEPT !.queue = Tail(@)]
      [] s.handed = <<>> /\ s.queue = <<>> /\ s.done  -> [s EXCEPT !.left = TRUE]
      [] s.handed = <<>> /\ s.queue = <<>> /\ ~s.done -> [s EXCEPT !.waiting = TRUE]

-----------------------------------------------------------------------------
(* The adapter. Some end the stream after the last event, some only push it. *)
PushEvent ==
    /\ ~inner.done
    /\ Len(pushed) < MaxEvents
    /\ LET event == [no |-> Len(pushed) + 1, last |-> FALSE]
       IN  pushed' = Append(pushed, event) /\ inner' = Push(inner, event)
    /\ UNCHANGED <<outer, heard>>

PushLast(ends) ==
    /\ ~inner.done
    /\ LET event == [no |-> Len(pushed) + 1, last |-> TRUE]
       IN  /\ pushed' = Append(pushed, event)
           /\ inner' = IF ends THEN EndStream(Push(inner, event)) ELSE Push(inner, event)
    /\ UNCHANGED <<outer, heard>>

(* forwardStream: the second stream is ended when the first is over. *)
Forward ==
    /\ MayTake(inner)
    /\ inner' = Take(inner)
    /\ outer' = CASE inner'.left -> EndStream(outer)
                  [] ~inner'.left /\ Taken(inner) # <<>> -> Push(outer, Head(Taken(inner)))
                  [] ~inner'.left /\ Taken(inner) = <<>> -> outer
    /\ UNCHANGED <<pushed, heard>>

(* The adapter could not be loaded: the loader pushes the only event. *)
LoadFails ==
    /\ pushed = <<>> /\ inner = NewStream /\ ~outer.done
    /\ LET event == [no |-> 1, last |-> TRUE]
       IN  /\ pushed' = <<event>>
           /\ outer' = EndStream(Push(outer, event))
           /\ inner' = [inner EXCEPT !.done = TRUE, !.left = TRUE]
    /\ UNCHANGED heard

Listen ==
    /\ MayTake(outer)
    /\ outer' = Take(outer)
    /\ heard' = heard \o Taken(outer)
    /\ UNCHANGED <<pushed, inner>>

Next ==
    \/ PushEvent
    \/ \E ends \in BOOLEAN : PushLast(ends)
    \/ LoadFails \/ Forward \/ Listen

Spec == Init /\ [][Next]_vars /\ WF_vars(Forward) /\ WF_vars(Listen)

-----------------------------------------------------------------------------
Pending(s) == s.handed \o s.queue

(* What is on its way follows what was heard: no event is lost, repeated or
   overtaken between a waiter that was handed one, the queue behind it and the
   second stream. *)
NothingIsLost == pushed = heard \o (Pending(outer) \o Pending(inner))

(* A reply that has ended is heard to its last event and the loop over its events
   ends. *)
ListenerHearsAll == inner.done ~> (outer.left /\ heard = pushed)
=============================================================================
