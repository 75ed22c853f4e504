---------------------------- MODULE StreamProofs ----------------------------
(***************************************************************************)
(* Proofs about the replies of providers: EventStream, how their events    *)
(* reach the listener, and ReplyStream, what the events say.               *)
(*                                                                         *)
(* That no event is lost needs to know when the second stream may be       *)
(* closed: it drops what is pushed after the last event, so nothing may be *)
(* left in the first when it is done, and the last event must be the last  *)
(* one in the first. That the events rebuild the message is an invariant   *)
(* of every operation on an output; the fold that defines what a listener  *)
(* rebuilds is first shown to satisfy its recursion. That a reply that is  *)
(* done is whole rests on a map from pieces to blocks, which every event   *)
(* extends by the piece it carries, and on what the log has told of each   *)
(* block: its start, and its end once it is not among those yet to end.    *)
(***************************************************************************)
EXTENDS EventStream, ReplyStream, FiniteSetTheorems, SequenceTheorems, WellFoundedInduction, TLAPS

(* A consumer waits only for an open, empty stream, leaves only a finished one and
   is handed one event at a time. *)
Shape(s) ==
    /\ s.handed = <<>> \/ s.handed = <<Head(s.handed)>>
    /\ s.waiting => ~s.done /\ s.handed = <<>> /\ s.queue = <<>>
    /\ s.left => s.done /\ s.handed = <<>> /\ s.queue = <<>>

LastIsLast == \A i \in 1..Len(Pending(inner)) :
    Pending(inner)[i].last => i = Len(Pending(inner)) /\ inner.done
ClosedIsDrained == outer.done => inner.done /\ Pending(inner) = <<>>

TypeOK ==
    /\ pushed \in Seq(Event) /\ heard \in Seq(Event)
    /\ inner \in Stream /\ outer \in Stream

IInv ==
    /\ TypeOK /\ Shape(inner) /\ Shape(outer)
    /\ LastIsLast /\ ClosedIsDrained /\ NothingIsLost

-----------------------------------------------------------------------------
(* The operations of a stream *)

(* What is pending in a stream is a sequence of events. *)
LEMMA PendingType == ASSUME NEW s \in Stream PROVE Pending(s) \in Seq(Event)
<1>1. s.handed \in Seq(Event) /\ s.queue \in Seq(Event)
  BY DEF Stream
<1> QED
  BY <1>1, ConcatProperties DEF Pending

(* Concatenation of sequences of events is associative. *)
LEMMA EventsAssociative ==
    \A a, b, c \in Seq(Event) : (a \o b) \o c = a \o (b \o c)
BY ConcatAssociative

(* Appending is concatenation with one element. *)
LEMMA AppendedIsConcat ==
    ASSUME NEW S, NEW s \in Seq(S), NEW e \in S
    PROVE  Append(s, e) \in Seq(S) /\ <<e>> \in Seq(S) /\ Append(s, e) = s \o <<e>>
OBVIOUS

(* A non-empty sequence is its head and its tail. *)
LEMMA HeadThenTail ==
    ASSUME NEW S, NEW s \in Seq(S), s # <<>>
    PROVE  /\ Head(s) \in S /\ Tail(s) \in Seq(S) /\ <<Head(s)>> \in Seq(S)
           /\ s = <<Head(s)>> \o Tail(s)
<1>1. Len(s) \in Nat /\ Len(s) >= 1
  BY EmptySeq
<1>2. Head(s) \in S /\ Tail(s) \in Seq(S)
  BY HeadTailProperties
<1>3. <<Head(s)>> \in Seq(S)
  BY <1>2
<1>4. Len(Tail(s)) = Len(s) - 1 /\ \A i \in 1..Len(Tail(s)) : Tail(s)[i] = s[i + 1]
  BY HeadTailProperties
<1>5. /\ <<Head(s)>> \o Tail(s) \in Seq(S)
      /\ Len(<<Head(s)>> \o Tail(s)) = Len(s)
      /\ \A i \in 1..Len(s) : (<<Head(s)>> \o Tail(s))[i] = s[i]
  BY <1>1, <1>2, <1>3, <1>4, ConcatProperties
<1> QED
  BY <1>2, <1>3, <1>5, SeqEqual

(* A pushed event is the last of what is pending. *)
LEMMA PushPending ==
    ASSUME NEW s \in Stream, NEW e \in Event, Shape(s), ~s.done
    PROVE  /\ Push(s, e) \in Stream /\ Shape(Push(s, e))
           /\ Push(s, e).done = e.last /\ Push(s, e).left = s.left
           /\ Pending(Push(s, e)) = Pending(s) \o <<e>>
<1>1. /\ s.handed \in Seq(Event) /\ s.queue \in Seq(Event) /\ e.last \in BOOLEAN
      /\ <<e>> \in Seq(Event) /\ Append(s.queue, e) \in Seq(Event)
  BY AppendedIsConcat DEF Stream, Event
<1>2. CASE s.waiting
  <2>1. Push(s, e) = [s EXCEPT !.done = e.last, !.waiting = FALSE, !.handed = <<e>>]
    BY <1>2 DEF Push
  <2>2. s.handed = <<>> /\ s.queue = <<>>
    BY <1>2 DEF Shape
  <2>3. Push(s, e) \in Stream
    BY <1>1, <2>1 DEF Stream
  <2>4. /\ Push(s, e).handed = <<e>> /\ Push(s, e).queue = <<>>
        /\ Push(s, e).done = e.last /\ Push(s, e).left = s.left /\ ~Push(s, e).waiting
    BY <2>1, <2>2 DEF Stream
  <2>5. Pending(Push(s, e)) = <<e>> /\ Pending(s) = <<>>
    BY <1>1, <2>2, <2>4, ConcatEmptySeq DEF Pending
  <2>6. Pending(Push(s, e)) = Pending(s) \o <<e>>
    BY <1>1, <2>5, ConcatEmptySeq
  <2>7. ~s.left
    BY DEF Shape
  <2> QED
    BY <2>3, <2>4, <2>6, <2>7 DEF Shape
<1>3. CASE ~s.waiting
  <2>1. Push(s, e) = [s EXCEPT !.done = e.last, !.queue = Append(@, e)]
    BY <1>3 DEF Push
  <2>2. Push(s, e) \in Stream
    BY <1>1, <2>1 DEF Stream
  <2>3. /\ Push(s, e).handed = s.handed /\ Push(s, e).queue = Append(s.queue, e)
        /\ Push(s, e).done = e.last /\ Push(s, e).left = s.left /\ ~Push(s, e).waiting
    BY <1>3, <2>1 DEF Stream
  <2>4. Append(s.queue, e) = s.queue \o <<e>>
    BY <1>1, AppendedIsConcat
  <2>5. Pending(Push(s, e)) = Pending(s) \o <<e>>
    <3>1. s.handed \o (s.queue \o <<e>>) = (s.handed \o s.queue) \o <<e>>
      BY <1>1, EventsAssociative, ZenonT(60)
    <3> QED
      BY <2>3, <2>4, <3>1 DEF Pending
  <2>6. ~s.left
    BY DEF Shape
  <2> QED
    BY <2>2, <2>3, <2>5, <2>6 DEF Shape
<1> QED
  BY <1>2, <1>3

(* Ending a stream loses nothing. *)
LEMMA EndPending ==
    ASSUME NEW s \in Stream, Shape(s)
    PROVE  /\ EndStream(s) \in Stream /\ Shape(EndStream(s)) /\ EndStream(s).done
           /\ Pending(EndStream(s)) = Pending(s)
<1>1. EndStream(s) = [s EXCEPT !.done = TRUE, !.waiting = FALSE, !.left = s.left \/ s.waiting]
  BY DEF EndStream
<1>2. EndStream(s) \in Stream
  BY <1>1 DEF Stream
<1>3. /\ EndStream(s).handed = s.handed /\ EndStream(s).queue = s.queue
      /\ EndStream(s).done /\ ~EndStream(s).waiting
      /\ EndStream(s).left = (s.left \/ s.waiting)
  BY <1>1 DEF Stream
<1> QED
  BY <1>2, <1>3 DEF Shape, Pending

(* Taking removes the first pending event, or nothing when there is none. *)
LEMMA TakePending ==
    ASSUME NEW s \in Stream, Shape(s), MayTake(s)
    PROVE  /\ Take(s) \in Stream /\ Shape(Take(s)) /\ Take(s).done = s.done
           /\ Taken(s) \in Seq(Event)
           /\ Pending(s) = Taken(s) \o Pending(Take(s))
           /\ Taken(s) = <<>> => Pending(s) = <<>>
           /\ Take(s).left => Pending(s) = <<>> /\ Taken(s) = <<>>
           /\ Taken(s) # <<>> => Taken(s) = <<Head(Taken(s))>> /\ Head(Taken(s)) \in Event
<1>1. /\ s.handed \in Seq(Event) /\ s.queue \in Seq(Event) /\ <<>> \in Seq(Event)
      /\ ~s.waiting /\ ~s.left
  BY DEF Stream, MayTake
<1>2. CASE s.handed # <<>>
  <2>1. Take(s) = [s EXCEPT !.handed = <<>>] /\ Taken(s) = s.handed
    BY <1>2 DEF Take, Taken
  <2>2. /\ Take(s) \in Stream /\ Take(s).handed = <<>> /\ Take(s).queue = s.queue
        /\ Take(s).done = s.done /\ ~Take(s).waiting /\ ~Take(s).left
    BY <1>1, <2>1 DEF Stream
  <2>3. Pending(Take(s)) = s.queue
    BY <1>1, <2>2, ConcatEmptySeq DEF Pending
  <2>4. s.handed = <<Head(s.handed)>> /\ Head(s.handed) \in Event
    BY <1>1, <1>2, HeadThenTail DEF Shape
  <2>5. Shape(Take(s))
    BY <2>2 DEF Shape
  <2>6. Pending(s) = Taken(s) \o Pending(Take(s))
    BY <2>1, <2>3 DEF Pending
  <2> QED
    BY <1>1, <1>2, <2>1, <2>2, <2>4, <2>5, <2>6
<1>3. CASE s.handed = <<>> /\ s.queue # <<>>
  <2>1. Take(s) = [s EXCEPT !.queue = Tail(@)] /\ Taken(s) = <<Head(s.queue)>>
    BY <1>3 DEF Take, Taken
  <2>2. /\ Tail(s.queue) \in Seq(Event) /\ <<Head(s.queue)>> \in Seq(Event)
        /\ s.queue = <<Head(s.queue)>> \o Tail(s.queue)
    BY <1>1, <1>3, HeadThenTail
  <2>3. /\ Take(s) \in Stream /\ Take(s).handed = <<>> /\ Take(s).queue = Tail(s.queue)
        /\ Take(s).done = s.done /\ ~Take(s).waiting /\ ~Take(s).left
    BY <1>1, <1>3, <2>1, <2>2 DEF Stream
  <2>4. Pending(s) = s.queue /\ Pending(Take(s)) = Tail(s.queue)
    BY <1>1, <1>3, <2>2, <2>3, ConcatEmptySeq DEF Pending
  <2>5. Head(s.queue) \in Event
    BY <1>1, <1>3, HeadThenTail
  <2>6. Taken(s) # <<>> /\ Taken(s) = <<Head(Taken(s))>> /\ Head(Taken(s)) \in Event
    BY <2>1, <2>5
  <2>7. Shape(Take(s))
    BY <2>3 DEF Shape
  <2>8. Pending(s) = Taken(s) \o Pending(Take(s))
    BY <2>1, <2>2, <2>4
  <2> QED
    BY <2>1, <2>2, <2>3, <2>6, <2>7, <2>8
<1>4. CASE s.handed = <<>> /\ s.queue = <<>>
  <2>1. Taken(s) = <<>> /\ Pending(s) = <<>>
    BY <1>1, <1>4, ConcatEmptySeq DEF Taken, Pending
  <2>2. /\ Take(s) \in Stream /\ Take(s).handed = <<>> /\ Take(s).queue = <<>>
        /\ Take(s).done = s.done
        /\ Take(s).left => s.done
        /\ Take(s).waiting => ~s.done
    <3>1. CASE s.done
      <4>1. Take(s) = [s EXCEPT !.left = TRUE]
        BY <1>4, <3>1 DEF Take
      <4> QED
        BY <1>1, <1>4, <3>1, <4>1 DEF Stream
    <3>2. CASE ~s.done
      <4>1. Take(s) = [s EXCEPT !.waiting = TRUE]
        BY <1>4, <3>2 DEF Take
      <4> QED
        BY <1>1, <1>4, <3>2, <4>1 DEF Stream
    <3> QED
      BY <3>1, <3>2
  <2>3. Pending(Take(s)) = <<>>
    BY <1>1, <2>2, ConcatEmptySeq DEF Pending
  <2>4. <<>> \o <<>> = <<>>
    BY <1>1, ConcatEmptySeq
  <2> QED
    BY <1>1, <2>1, <2>2, <2>3, <2>4 DEF Shape
<1> QED
  BY <1>2, <1>3, <1>4

-----------------------------------------------------------------------------
(* The inductive invariant *)

(* Two empty streams are well formed. *)
LEMMA NewStreamShape ==
    NewStream \in Stream /\ Shape(NewStream) /\ Pending(NewStream) = <<>> /\ ~NewStream.done
<1>1. <<>> \in Seq(Event) /\ <<>> \o <<>> = <<>>
  BY EmptySeq, ConcatEmptySeq
<1>2. NewStream \in Stream
  BY <1>1 DEF NewStream, Stream
<1> QED
  BY <1>1, <1>2 DEF NewStream, Shape, Pending

(* It holds at the start. *)
LEMMA InitIInv == Init => IInv
<1> SUFFICES ASSUME Init PROVE IInv
  OBVIOUS
<1>1. inner = NewStream /\ outer = NewStream /\ pushed = <<>> /\ heard = <<>>
  BY DEF Init
<1>2. <<>> \in Seq(Event) /\ <<>> \o <<>> = <<>> /\ Len(<<>>) = 0
  BY EmptySeq, ConcatEmptySeq
<1>3. TypeOK /\ Shape(inner) /\ Shape(outer)
  BY <1>1, <1>2, NewStreamShape DEF TypeOK
<1>4. LastIsLast /\ ClosedIsDrained /\ NothingIsLost
  BY <1>1, <1>2, NewStreamShape DEF LastIsLast, ClosedIsDrained, NothingIsLost
<1> QED
  BY <1>3, <1>4 DEF IInv

(* The adapter pushes an event, the last one or another: the second stream is open
   because the first one is. *)
LEMMA AdapterKeepsIInv ==
    ASSUME IInv, NEW e \in Event, ~inner.done,
           pushed' = Append(pushed, e), UNCHANGED <<outer, heard>>,
           inner' = Push(inner, e) \/ (inner' = EndStream(Push(inner, e)) /\ e.last)
    PROVE  IInv'
<1>1. TypeOK /\ Shape(inner) /\ Shape(outer) /\ LastIsLast /\ ClosedIsDrained /\ NothingIsLost
  BY DEF IInv
<1>2. /\ inner \in Stream /\ outer \in Stream /\ pushed \in Seq(Event) /\ heard \in Seq(Event)
      /\ <<e>> \in Seq(Event)
  BY <1>1 DEF TypeOK
<1>3. /\ inner' \in Stream /\ Shape(inner') /\ Pending(inner') = Pending(inner) \o <<e>>
      /\ e.last => inner'.done
  BY <1>1, <1>2, PushPending, EndPending
<1>4. Pending(inner) \in Seq(Event) /\ Pending(outer) \in Seq(Event)
  BY <1>2, PendingType
<1>5. TypeOK'
  BY <1>2, <1>3, AppendedIsConcat DEF TypeOK
<1>6. NothingIsLost'
  <2>1. /\ Pending(outer) \o Pending(inner) \in Seq(Event)
        /\ pushed' = (heard \o (Pending(outer) \o Pending(inner))) \o <<e>>
    BY <1>1, <1>2, <1>4, ConcatProperties, AppendedIsConcat DEF NothingIsLost
  <2>2. pushed' = heard \o ((Pending(outer) \o Pending(inner)) \o <<e>>)
    BY <1>2, <2>1, EventsAssociative, ZenonT(60)
  <2>3. pushed' = heard \o (Pending(outer) \o (Pending(inner) \o <<e>>))
    BY <1>2, <1>4, <2>2, EventsAssociative, ZenonT(60)
  <2> QED
    BY <1>3, <2>3 DEF NothingIsLost, Pending
<1>7. LastIsLast'
  <2>1. /\ Len(Pending(inner)) \in Nat /\ Len(Pending(inner')) = Len(Pending(inner)) + 1
        /\ \A i \in 1..Len(Pending(inner)) : Pending(inner')[i] = Pending(inner)[i]
        /\ Pending(inner')[Len(Pending(inner)) + 1] = e
    BY <1>2, <1>3, <1>4, LenProperties, ConcatProperties
  <2>2. ASSUME NEW i \in 1..Len(Pending(inner')), Pending(inner')[i].last
        PROVE  i = Len(Pending(inner')) /\ inner'.done
    <3>1. CASE i \in 1..Len(Pending(inner))
      BY <1>1, <2>1, <2>2, <3>1 DEF LastIsLast
    <3>2. CASE i = Len(Pending(inner)) + 1
      BY <1>3, <2>1, <2>2, <3>2
    <3> QED
      BY <2>1, <3>1, <3>2
  <2> QED
    BY <2>2 DEF LastIsLast, Pending
<1>8. ClosedIsDrained'
  BY <1>1 DEF ClosedIsDrained
<1> QED
  BY <1>1, <1>3, <1>5, <1>6, <1>7, <1>8 DEF IInv, Shape

(* The loader pushes the event itself when there is no adapter. *)
LEMMA LoadFailsKeepsIInv == ASSUME IInv, LoadFails PROVE IInv'
<1>1. TypeOK /\ Shape(outer) /\ NothingIsLost
  BY DEF IInv
<1> DEFINE e == [no |-> 1, last |-> TRUE]
<1>2. /\ e \in Event /\ e.last /\ pushed = <<>> /\ inner = NewStream /\ ~outer.done
      /\ pushed' = <<e>> /\ outer' = EndStream(Push(outer, e)) /\ heard' = heard
      /\ inner' = [inner EXCEPT !.done = TRUE, !.left = TRUE]
  BY DEF LoadFails, Event
<1> HIDE DEF e
<1>3. /\ outer \in Stream /\ heard \in Seq(Event) /\ Pending(outer) \in Seq(Event)
      /\ <<e>> \in Seq(Event) /\ <<>> \in Seq(Event)
  BY <1>1, <1>2, PendingType DEF TypeOK
<1>4. heard = <<>> /\ Pending(outer) = <<>>
  <2>1. Pending(outer) \o Pending(inner) = Pending(outer)
    BY <1>2, <1>3, NewStreamShape, ConcatEmptySeq
  <2>2. heard \o Pending(outer) = <<>>
    BY <1>1, <1>2, <2>1 DEF NothingIsLost
  <2> QED
    BY <1>3, <2>2, ConcatSimplifications!concIsEmpty
<1>5. outer' \in Stream /\ Shape(outer') /\ Pending(outer') = <<e>>
  BY <1>1, <1>2, <1>3, <1>4, PushPending, EndPending, ConcatEmptySeq
<1>6. /\ inner' \in Stream /\ inner'.handed = <<>> /\ inner'.queue = <<>>
      /\ inner'.done /\ ~inner'.waiting
  BY <1>2, <1>3 DEF NewStream, Stream
<1>7. Pending(inner') = <<>> /\ Shape(inner')
  BY <1>3, <1>6, ConcatEmptySeq DEF Pending, Shape
<1>8. TypeOK'
  BY <1>2, <1>3, <1>5, <1>6 DEF TypeOK
<1>9. heard \o (Pending(outer') \o Pending(inner')) = <<e>>
  BY <1>3, <1>4, <1>5, <1>7, ConcatEmptySeq
<1>10. NothingIsLost'
  BY <1>2, <1>9 DEF NothingIsLost, Pending
<1>11. LastIsLast' /\ ClosedIsDrained'
  <2>1. Len(Pending(inner')) = 0
    BY <1>7
  <2> QED
    BY <1>6, <1>7, <2>1 DEF LastIsLast, ClosedIsDrained, Pending
<1> QED
  BY <1>5, <1>7, <1>8, <1>10, <1>11 DEF IInv, Shape

(* What the loader passes on is next in order; when it was the last event nothing
   is left behind it, so that the second stream may be closed. *)
LEMMA ForwardKeepsIInv == ASSUME IInv, Forward PROVE IInv'
<1>1. TypeOK /\ Shape(inner) /\ Shape(outer) /\ LastIsLast /\ ClosedIsDrained /\ NothingIsLost
  BY DEF IInv
<1>2. /\ inner \in Stream /\ outer \in Stream /\ pushed \in Seq(Event) /\ heard \in Seq(Event)
      /\ MayTake(inner) /\ inner' = Take(inner) /\ pushed' = pushed /\ heard' = heard
  BY <1>1 DEF TypeOK, Forward
<1>3. /\ inner' \in Stream /\ Shape(inner') /\ inner'.done = inner.done
      /\ Taken(inner) \in Seq(Event)
      /\ Pending(inner) = Taken(inner) \o Pending(inner')
      /\ Taken(inner) = <<>> => Pending(inner) = <<>>
      /\ inner'.left => Pending(inner) = <<>> /\ Taken(inner) = <<>>
      /\ Taken(inner) # <<>> => Taken(inner) = <<Head(Taken(inner))>> /\ Head(Taken(inner)) \in Event
  BY <1>1, <1>2, TakePending
<1>4. /\ Pending(inner) \in Seq(Event) /\ Pending(outer) \in Seq(Event) /\ Pending(inner') \in Seq(Event)
  BY <1>2, <1>3, PendingType
<1>5. CASE Taken(inner) = <<>>
  <2>1. Pending(inner') = <<>> /\ Pending(inner) = <<>>
    BY <1>3, <1>4, <1>5, ConcatEmptySeq
  <2>2. /\ outer' \in Stream /\ Shape(outer') /\ Pending(outer') = Pending(outer)
        /\ outer'.done => outer.done \/ inner'.left
    <3>1. CASE inner'.left
      BY <1>1, <1>2, <3>1, EndPending DEF Forward
    <3>2. CASE ~inner'.left
      <4>1. outer' = outer
        BY <1>5, <3>2 DEF Forward
      <4> QED
        BY <1>1, <1>2, <4>1
    <3> QED
      BY <3>1, <3>2
  <2>3. ClosedIsDrained' /\ LastIsLast'
    <3>1. inner'.left => inner'.done
      BY <1>3 DEF Shape
    <3>2. Len(Pending(inner')) = 0
      BY <2>1
    <3>3. outer'.done => inner'.done
      BY <1>1, <1>3, <2>2, <3>1 DEF ClosedIsDrained
    <3> QED
      BY <2>1, <3>2, <3>3 DEF ClosedIsDrained, LastIsLast, Pending
  <2>4. NothingIsLost'
    BY <1>1, <1>2, <2>1, <2>2 DEF NothingIsLost, Pending
  <2> QED
    BY <1>2, <1>3, <2>2, <2>3, <2>4 DEF IInv, TypeOK, Shape
<1>6. CASE Taken(inner) # <<>>
  <2> DEFINE e == Head(Taken(inner))
  <2>1. /\ e \in Event /\ Taken(inner) = <<e>> /\ <<e>> \in Seq(Event)
        /\ Pending(inner) = <<e>> \o Pending(inner') /\ ~inner'.left
    BY <1>3, <1>6
  <2>2. outer' = Push(outer, e)
    BY <1>6, <2>1 DEF Forward
  <2> HIDE DEF e
  <2>3. /\ Len(Pending(inner')) \in Nat /\ Len(Pending(inner)) = Len(Pending(inner')) + 1
        /\ Pending(inner)[1] = e
        /\ \A i \in 1..Len(Pending(inner')) : Pending(inner')[i] = Pending(inner)[i + 1]
    <3>1. Len(<<e>>) = 1 /\ <<e>>[1] = e /\ Len(Pending(inner')) \in Nat
      BY <1>4, LenProperties
    <3> QED
      BY <1>4, <2>1, <3>1, ConcatProperties
  <2>4. ~outer.done
    BY <1>1, <2>3, EmptySeq DEF ClosedIsDrained
  <2>5. /\ outer' \in Stream /\ Shape(outer') /\ outer'.done = e.last
        /\ Pending(outer') = Pending(outer) \o <<e>>
    BY <1>1, <1>2, <2>1, <2>2, <2>4, PushPending
  <2>6. LastIsLast'
    <3>1. ASSUME NEW i \in 1..Len(Pending(inner')), Pending(inner')[i].last
          PROVE  i = Len(Pending(inner')) /\ inner'.done
      <4>1. i + 1 \in 1..Len(Pending(inner)) /\ Pending(inner)[i + 1].last
        BY <2>3, <3>1
      <4>2. i + 1 = Len(Pending(inner)) /\ inner.done
        BY <1>1, <4>1 DEF LastIsLast
      <4> QED
        BY <1>3, <2>3, <4>2
    <3> QED
      BY <3>1 DEF LastIsLast, Pending
  <2>7. ClosedIsDrained'
    <3>1. ASSUME e.last PROVE inner'.done /\ Pending(inner') = <<>>
      <4>1. 1 \in 1..Len(Pending(inner)) /\ Pending(inner)[1].last
        BY <2>3, <3>1
      <4>2. Len(Pending(inner)) = 1 /\ inner.done
        BY <1>1, <4>1 DEF LastIsLast
      <4>3. Len(Pending(inner')) = 0
        <5> DEFINE n == Len(Pending(inner'))
        <5>1. n \in Nat /\ n + 1 = 1
          BY <2>3, <4>2
        <5> HIDE DEF n
        <5>2. n = 0
          BY <5>1
        <5> QED
          BY <5>2 DEF n
      <4> QED
        BY <1>3, <1>4, <4>2, <4>3, EmptySeq
    <3> QED
      BY <2>5, <3>1 DEF ClosedIsDrained, Pending
  <2>8. NothingIsLost'
    <3>1. Pending(outer) \o Pending(inner) = Pending(outer') \o Pending(inner')
      <4>1. (Pending(outer) \o <<e>>) \o Pending(inner') = Pending(outer) \o (<<e>> \o Pending(inner'))
        BY <1>4, <2>1, EventsAssociative, ZenonT(60)
      <4> QED
        BY <2>1, <2>5, <4>1
    <3> QED
      BY <1>1, <1>2, <3>1 DEF NothingIsLost, Pending
  <2> QED
    BY <1>2, <1>3, <2>5, <2>6, <2>7, <2>8 DEF IInv, TypeOK, Shape
<1> QED
  BY <1>5, <1>6

(* The listener takes what is next in order. *)
LEMMA ListenKeepsIInv == ASSUME IInv, Listen PROVE IInv'
<1>1. TypeOK /\ Shape(inner) /\ Shape(outer) /\ LastIsLast /\ ClosedIsDrained /\ NothingIsLost
  BY DEF IInv
<1>2. /\ inner \in Stream /\ outer \in Stream /\ pushed \in Seq(Event) /\ heard \in Seq(Event)
      /\ MayTake(outer) /\ outer' = Take(outer) /\ heard' = heard \o Taken(outer)
      /\ pushed' = pushed /\ inner' = inner
  BY <1>1 DEF TypeOK, Listen
<1>3. /\ outer' \in Stream /\ Shape(outer') /\ outer'.done = outer.done
      /\ Taken(outer) \in Seq(Event) /\ Pending(outer) = Taken(outer) \o Pending(outer')
  BY <1>1, <1>2, TakePending
<1>4. /\ Pending(inner) \in Seq(Event) /\ Pending(outer') \in Seq(Event)
      /\ Pending(outer') \o Pending(inner) \in Seq(Event)
  BY <1>2, <1>3, PendingType, ConcatProperties
<1>5. NothingIsLost'
  <2>1. Pending(outer) \o Pending(inner) = Taken(outer) \o (Pending(outer') \o Pending(inner))
    <3>1. (Taken(outer) \o Pending(outer')) \o Pending(inner)
            = Taken(outer) \o (Pending(outer') \o Pending(inner))
      BY <1>3, <1>4, EventsAssociative, ZenonT(60)
    <3> QED
      BY <1>3, <3>1
  <2>2. heard \o (Taken(outer) \o (Pending(outer') \o Pending(inner)))
          = heard' \o (Pending(outer') \o Pending(inner))
    BY <1>2, <1>3, <1>4, EventsAssociative, ZenonT(60)
  <2> QED
    BY <1>1, <1>2, <2>1, <2>2 DEF NothingIsLost, Pending
<1>6. TypeOK'
  BY <1>2, <1>3, ConcatProperties DEF TypeOK
<1>7. LastIsLast' /\ ClosedIsDrained' /\ Shape(inner')
  BY <1>1, <1>2, <1>3 DEF LastIsLast, ClosedIsDrained, Shape, Pending
<1> QED
  BY <1>3, <1>5, <1>6, <1>7 DEF IInv, Shape

(* Every step keeps it. *)
LEMMA NextKeepsIInv == IInv /\ [Next]_vars => IInv'
<1> SUFFICES ASSUME IInv, [Next]_vars PROVE IInv'
  OBVIOUS
<1>1. Len(pushed) \in Nat
  BY LenProperties DEF IInv, TypeOK
<1>2. CASE PushEvent
  <2>1. [no |-> Len(pushed) + 1, last |-> FALSE] \in Event
    BY <1>1 DEF Event
  <2> QED
    BY <1>2, <2>1, AdapterKeepsIInv DEF PushEvent
<1>3. ASSUME NEW ends \in BOOLEAN, PushLast(ends) PROVE IInv'
  <2>1. [no |-> Len(pushed) + 1, last |-> TRUE] \in Event
    BY <1>1 DEF Event
  <2> QED
    BY <1>3, <2>1, AdapterKeepsIInv DEF PushLast
<1>4. CASE LoadFails
  BY <1>4, LoadFailsKeepsIInv
<1>5. CASE Forward
  BY <1>5, ForwardKeepsIInv
<1>6. CASE Listen
  BY <1>6, ListenKeepsIInv
<1>7. CASE UNCHANGED vars
  BY <1>7 DEF vars, IInv, TypeOK, Shape, LastIsLast, ClosedIsDrained, NothingIsLost, Pending
<1> QED
  BY <1>2, <1>3, <1>4, <1>5, <1>6, <1>7 DEF Next

-----------------------------------------------------------------------------
(* For replies of any length: what was pushed is what was heard followed by what is
   on its way through the two streams, in order. *)
THEOREM EventsAreNeverLost == Spec => []NothingIsLost
<1>1. IInv => NothingIsLost
  BY DEF IInv
<1> QED
  BY <1>1, InitIInv, NextKeepsIInv, PTL DEF Spec

(* For replies of any length: the second stream, which drops what comes after the
   last event, is closed only when the first holds nothing that could be dropped. *)
THEOREM ClosedOnlyWhenDrained == Spec => []ClosedIsDrained
<1>1. IInv => ClosedIsDrained
  BY DEF IInv
<1> QED
  BY <1>1, InitIInv, NextKeepsIInv, PTL DEF Spec

-----------------------------------------------------------------------------
(* Induction over sets of numbers *)

NatOrder == {ss \in Nat \X Nat : ss[1] < ss[2]}

LEMMA NatOrderWellFounded == IsWellFoundedOn(NatOrder, Nat)
<1>1. OpToRel(<, Nat) = NatOrder
  BY DEF OpToRel, NatOrder
<1> QED
  BY <1>1, NatLessThanWellFounded

(* A set of numbers that is not empty has a least one. *)
LEMMA LeastNumber ==
    ASSUME NEW T \in SUBSET Nat, T # {}
    PROVE  \E x \in T : \A y \in T : x <= y
<1>1. PICK x \in T : \A y \in T : ~(<<y, x>> \in NatOrder)
  BY NatOrderWellFounded, WFMin
<1>2. \A m, n \in Nat : m < n => <<m, n>> \in NatOrder
  BY DEF NatOrder
<1>3. ASSUME NEW y \in T
      PROVE  x <= y
  <2>1. x \in Nat /\ y \in Nat /\ ~(y < x)
    BY <1>1, <1>2
  <2> QED
    BY <2>1
<1> QED
  BY <1>1, <1>3

(* A set with 0 and with the successor of each of its numbers has all of them. *)
LEMMA SetInduction ==
    ASSUME NEW T, 0 \in T, \A n \in Nat : n \in T => n + 1 \in T
    PROVE  Nat \subseteq T
<1> DEFINE B == Nat \ T
<1> SUFFICES ASSUME B # {} PROVE FALSE
  OBVIOUS
<1>1. PICK x \in B : \A y \in B : x <= y
  BY LeastNumber
<1>2. x - 1 \in Nat /\ x - 1 \notin B /\ x - 1 + 1 = x
  BY <1>1
<1> QED
  BY <1>2

-----------------------------------------------------------------------------
(* What a listener rebuilds satisfies its recursion *)

Rebuilt(events) == FoldLeft(Replay, <<>>, events)

LEMMA MaxOfPrefix ==
    ASSUME NEW n \in Nat, NEW s \in SUBSET (1..n + 1), n + 1 \in s
    PROVE  Max(s) = n + 1
<1> DEFINE P(x) == x \in s /\ \A y \in s : x >= y
           top == Max(s)
<1>1. P(n + 1)
  OBVIOUS
<1>2. P(CHOOSE x : P(x))
  BY <1>1, Zenon
<1>3. Max(s) = CHOOSE x : P(x)
  BY Zenon DEF Max
<1>4. top \in 1..n + 1 /\ top >= n + 1
  BY <1>2, <1>3
<1> HIDE DEF top
<1>5. top = n + 1
  BY <1>4
<1> QED
  BY <1>5 DEF top

(* The function that FoldLeft takes its result from, for n events. *)
Apply(op, x, m) == IF op = "replay" THEN Replay(x, m) ELSE EndBlock(x, m)
Step(f, op, base, ms, s) == IF s = {} THEN base ELSE Apply(op, f[s \ {Max(s)}], ms[Max(s)])
Iterates(f, op, base, ms, n) == f = [s \in SUBSET (1..n) |-> Step(f, op, base, ms, s)]

(* There is such a function, for any number of events. *)
LEMMA IterationExists ==
    ASSUME NEW op, NEW base, NEW ms, NEW n \in Nat
    PROVE  \E f : Iterates(f, op, base, ms, n)
<1> DEFINE T == {k \in Nat : \E f : Iterates(f, op, base, ms, k)}
<1>1. 0 \in T
  <2> DEFINE f == [s \in {{}} |-> base]
  <2>1. SUBSET (1..0) = {{}}
    OBVIOUS
  <2>2. Iterates(f, op, base, ms, 0)
    BY <2>1 DEF Iterates, Step
  <2> QED
    BY <2>2
<1>2. ASSUME NEW k \in Nat, k \in T PROVE k + 1 \in T
  <2>1. PICK f : Iterates(f, op, base, ms, k)
    BY <1>2
  <2> DEFINE h == [s \in SUBSET (1..k + 1) |-> IF s \in SUBSET (1..k) THEN f[s] ELSE Apply(op, f[s \ {k + 1}], ms[k + 1])]
  <2>2. ASSUME NEW s \in SUBSET (1..k + 1) PROVE h[s] = Step(h, op, base, ms, s)
    <3>1. CASE s \in SUBSET (1..k)
      <4>1. h[s] = f[s] /\ f[s] = Step(f, op, base, ms, s)
        BY <2>1, <3>1 DEF Iterates
      <4>2. s \ {Max(s)} \in SUBSET (1..k) /\ s \ {Max(s)} \in SUBSET (1..k + 1)
        BY <3>1
      <4>3. h[s \ {Max(s)}] = f[s \ {Max(s)}]
        BY <4>2
      <4> HIDE DEF h
      <4> QED
        BY <4>1, <4>3 DEF Step
    <3>2. CASE s \notin SUBSET (1..k)
      <4>1. k + 1 \in s
        BY <3>2
      <4>2. Max(s) = k + 1
        BY <4>1, MaxOfPrefix
      <4>3. s \ {k + 1} \in SUBSET (1..k) /\ s \ {k + 1} \in SUBSET (1..k + 1)
        OBVIOUS
      <4>4. h[s] = Apply(op, f[s \ {k + 1}], ms[k + 1]) /\ h[s \ {k + 1}] = f[s \ {k + 1}]
        BY <3>2, <4>3
      <4> HIDE DEF h
      <4>5. s # {}
        BY <4>1
      <4> QED
        BY <4>2, <4>4, <4>5 DEF Step
    <3> QED
      BY <3>1, <3>2
  <2>3. h = [s \in SUBSET (1..k + 1) |-> h[s]]
    OBVIOUS
  <2> HIDE DEF h
  <2>4. Iterates(h, op, base, ms, k + 1)
    BY <2>2, <2>3 DEF Iterates
  <2>5. k + 1 \in Nat
    OBVIOUS
  <2> QED
    BY <2>4, <2>5
<1> HIDE DEF T
<1>3. n \in T
  BY <1>1, <1>2, SetInduction
<1> QED
  BY <1>3 DEF T

(* What is rebuilt is its value on all of them. *)
LEMMA RebuiltIterates ==
    ASSUME NEW ms, NEW n \in Nat, DOMAIN ms = 1..n
    PROVE  \E f : Iterates(f, "replay", <<>>, ms, n) /\ Rebuilt(ms) = f[1..n]
<1>1. Rebuilt(ms) = (CHOOSE f : Iterates(f, "replay", <<>>, ms, n))[1..n]
  <2>1. Rebuilt(ms) = (CHOOSE f : f = [s \in SUBSET DOMAIN ms |-> IF s = {} THEN <<>>
                          ELSE Replay(f[s \ {Max(s)}], ms[Max(s)])])[DOMAIN ms]
    BY DEF Rebuilt, FoldLeft, MapThenFoldSet
  <2> QED
    BY <2>1 DEF Iterates, Step, Apply
<1>2. Iterates(CHOOSE f : Iterates(f, "replay", <<>>, ms, n), "replay", <<>>, ms, n)
  BY IterationExists, Zenon
<1> QED
  BY <1>1, <1>2

(* The values on the prefixes. *)
LEMMA IterationGoesOn ==
    ASSUME NEW op, NEW base, NEW ms, NEW n \in Nat, NEW f, Iterates(f, op, base, ms, n), NEW k \in Nat, k < n
    PROVE  f[{}] = base /\ f[1..k + 1] = Apply(op, f[1..k], ms[k + 1])
<1>1. 1..k + 1 \in SUBSET (1..n) /\ {} \in SUBSET (1..n)
  OBVIOUS
<1>2. (1..k + 1) \ {k + 1} = 1..k /\ 1..k + 1 # {}
  OBVIOUS
<1>3. Max(1..k + 1) = k + 1
  BY MaxOfPrefix
<1>4. f[1..k + 1] = Step(f, op, base, ms, 1..k + 1) /\ f[{}] = Step(f, op, base, ms, {})
  BY <1>1 DEF Iterates
<1> QED
  BY <1>2, <1>3, <1>4 DEF Step

LEMMA IterationStarts ==
    ASSUME NEW op, NEW base, NEW ms, NEW n \in Nat, NEW f, Iterates(f, op, base, ms, n)
    PROVE  f[1..0] = base
<1>1. 1..0 = {} /\ {} \in SUBSET (1..n)
  OBVIOUS
<1> QED
  BY <1>1 DEF Iterates, Step

(* They depend on the prefix only. *)
LEMMA IterationIsUnique ==
  ASSUME NEW ms, NEW ns, NEW n \in Nat, NEW m \in Nat, NEW f, NEW g, Iterates(f, "replay", <<>>, ms, n), Iterates(g, "replay", <<>>, ns, m),
         NEW j \in Nat, j <= n, j <= m, \A i \in 1..j : ms[i] = ns[i]
  PROVE f[1..j] = g[1..j]
<1> DEFINE T == {k \in Nat : k <= j => f[1..k] = g[1..k]}
<1>1. 0 \in T
  BY IterationStarts
<1>2. ASSUME NEW k \in Nat, k \in T PROVE k + 1 \in T
  <2> SUFFICES ASSUME k + 1 <= j PROVE f[1..k + 1] = g[1..k + 1]
    OBVIOUS
  <2>1. f[1..k] = g[1..k] /\ ms[k + 1] = ns[k + 1] /\ k < n /\ k < m
    BY <1>2
  <2>2. f[1..k + 1] = Replay(f[1..k], ms[k + 1])
    BY <2>1, IterationGoesOn DEF Apply
  <2>3. g[1..k + 1] = Replay(g[1..k], ns[k + 1])
    BY <2>1, IterationGoesOn DEF Apply
  <2> QED
    BY <2>1, <2>2, <2>3
<1> HIDE DEF T
<1>3. j \in T
  BY <1>1, <1>2, SetInduction
<1> QED
  BY <1>3 DEF T

LEMMA RebuiltEmpty == Rebuilt(<<>>) = <<>>
<1>1. DOMAIN <<>> = 1..0
  OBVIOUS
<1> QED
  BY <1>1, RebuiltIterates, IterationStarts

(* The events are replayed one at a time. *)
LEMMA RebuiltAppend ==
    ASSUME NEW S, NEW ms \in Seq(S), NEW m \in S
    PROVE  Rebuilt(Append(ms, m)) = Replay(Rebuilt(ms), m)
<1> DEFINE n == Len(ms)
           longer == Append(ms, m)
<1>1. n \in Nat /\ DOMAIN ms = 1..n /\ DOMAIN longer = 1..n + 1 /\ longer[n + 1] = m /\ \A i \in 1..n : longer[i] = ms[i]
  OBVIOUS
<1> HIDE DEF n, longer
<1>2. PICK f : Iterates(f, "replay", <<>>, ms, n) /\ Rebuilt(ms) = f[1..n]
  BY <1>1, RebuiltIterates
<1>3. PICK g : Iterates(g, "replay", <<>>, longer, n + 1) /\ Rebuilt(longer) = g[1..n + 1]
  <2>1. n + 1 \in Nat
    BY <1>1
  <2> QED
    BY <1>1, <2>1, RebuiltIterates
<1>4. f[1..n] = g[1..n]
  BY <1>1, <1>2, <1>3, IterationIsUnique
<1>5. g[1..n + 1] = Replay(g[1..n], longer[n + 1])
  <2>1. n + 1 \in Nat /\ n < n + 1 /\ Iterates(g, "replay", <<>>, longer, n + 1)
    BY <1>1, <1>3
  <2>2. g[1..n + 1] = Apply("replay", g[1..n], longer[n + 1])
    BY <1>1, <2>1, IterationGoesOn
  <2> QED
    BY <2>2 DEF Apply
<1> QED
  BY <1>1, <1>2, <1>3, <1>4, <1>5 DEF longer

-----------------------------------------------------------------------------
(* What an adapter makes of its events *)

Output(o) == o = [blocks |-> o.blocks, log |-> o.log, slots |-> o.slots, current |-> o.current]

BlockRecords(bs) ==
    /\ \E S : bs \in Seq(S)
    /\ \A i \in DOMAIN bs : bs[i] = [kind |-> bs[i].kind, pieces |-> bs[i].pieces]

(* The events so far rebuild the blocks. *)
Sync(o) ==
    /\ Output(o) /\ (\E E : o.log \in Seq(E)) /\ BlockRecords(o.blocks)
    /\ Rebuilt(o.log) = o.blocks

(* An event that says what was done to the blocks keeps them in step. *)
LEMMA EmitKeeps ==
    ASSUME NEW o, Sync(o), NEW p, Output(p), p.log = o.log, BlockRecords(p.blocks),
           NEW type, NEW at, NEW data,
           Replay(o.blocks, [type |-> type, kind |-> p.blocks[at].kind, at |-> at, data |-> data]) = p.blocks
    PROVE  Sync(Emit(p, type, at, data))
<1> DEFINE event == [type |-> type, kind |-> p.blocks[at].kind, at |-> at, data |-> data]
           q == Emit(p, type, at, data)
<1>1. /\ Output(q) /\ q.log = Append(o.log, event) /\ q.blocks = p.blocks
  <2>1. q = [p EXCEPT !.log = Append(@, event)]
    BY DEF Emit
  <2> HIDE DEF event, q
  <2> QED
    BY <2>1 DEF Output
<1>2. PICK E : o.log \in Seq(E)
  BY DEF Sync
<1>3. Replay(o.blocks, event) = p.blocks /\ Rebuilt(o.log) = o.blocks
  BY DEF Sync
<1> HIDE DEF event, q
<1>4. o.log \in Seq(E \cup {event}) /\ event \in E \cup {event}
  BY <1>2
<1>5. Rebuilt(q.log) = Replay(o.blocks, event) /\ q.log \in Seq(E \cup {event})
  BY <1>1, <1>3, <1>4, RebuiltAppend
<1>6. Sync(q)
  BY <1>1, <1>3, <1>5 DEF Sync
<1> QED
  BY <1>6 DEF q

(* What changes neither the blocks nor the events. *)
LEMMA AsideKeeps ==
    ASSUME NEW o, Sync(o), NEW p, Output(p), p.log = o.log, p.blocks = o.blocks
    PROVE  Sync(p)
  BY DEF Sync

LEMMA OpenKeeps ==
    ASSUME NEW o, Sync(o), NEW kind
    PROVE  Sync(Open(o, kind))
<1> DEFINE block == [kind |-> kind, pieces |-> <<>>]
           p == [o EXCEPT !.blocks = Append(@, block)]
           at == Len(o.blocks) + 1
<1>1. Output(p) /\ p.log = o.log /\ p.blocks = Append(o.blocks, block)
  <2> DEFINE longer == Append(o.blocks, block)
  <2>1. p = [o EXCEPT !.blocks = longer]
    OBVIOUS
  <2> HIDE DEF longer, p
  <2>2. Output(p) /\ p.log = o.log /\ p.blocks = longer
    BY <2>1 DEF Sync, Output
  <2> QED
    BY <2>2 DEF longer
<1>2. PICK S : o.blocks \in Seq(S)
  BY DEF Sync, BlockRecords
<1>3. block.kind = kind /\ block = [kind |-> block.kind, pieces |-> block.pieces]
  OBVIOUS
<1> HIDE DEF block, p
<1>4. o.blocks \in Seq(S \cup {block}) /\ block \in S \cup {block}
  BY <1>2
<1>5. /\ p.blocks \in Seq(S \cup {block}) /\ DOMAIN p.blocks = 1..Len(o.blocks) + 1
      /\ Len(o.blocks) \in Nat /\ DOMAIN o.blocks = 1..Len(o.blocks)
      /\ p.blocks[at] = block /\ \A i \in 1..Len(o.blocks) : p.blocks[i] = o.blocks[i]
  BY <1>1, <1>4
<1>6. BlockRecords(p.blocks)
  <2>1. \A i \in DOMAIN p.blocks : p.blocks[i] = [kind |-> p.blocks[i].kind, pieces |-> p.blocks[i].pieces]
    <3> SUFFICES ASSUME NEW i \in DOMAIN p.blocks
                 PROVE  p.blocks[i] = [kind |-> p.blocks[i].kind, pieces |-> p.blocks[i].pieces]
      OBVIOUS
    <3>1. CASE i = at
      BY <1>3, <1>5, <3>1
    <3>2. CASE i # at
      <4>1. i \in DOMAIN o.blocks /\ p.blocks[i] = o.blocks[i]
        BY <1>5, <3>2
      <4> QED
        BY <4>1 DEF Sync, BlockRecords
    <3> QED
      BY <3>1, <3>2
  <2> QED
    BY <1>5, <2>1 DEF BlockRecords
<1> DEFINE event == [type |-> "block_start", kind |-> p.blocks[at].kind, at |-> at, data |-> <<>>]
<1>7. Replay(o.blocks, event) = p.blocks
  <2>1. event.type = "block_start" /\ event.kind = kind
    BY <1>3, <1>5
  <2> HIDE DEF event
  <2> QED
    BY <1>1, <2>1 DEF Replay, block
<1>8. Sync(Emit(p, "block_start", at, <<>>))
  BY <1>1, <1>6, <1>7, EmitKeeps
<1> QED
  BY <1>8 DEF Open, p, block

(* Blocks of which one has other pieces. *)
LEMMA RecordsStay ==
    ASSUME NEW bs, BlockRecords(bs), NEW at, NEW pieces
    PROVE  BlockRecords([bs EXCEPT ![at].pieces = pieces])
<1> DEFINE cs == [bs EXCEPT ![at].pieces = pieces]
<1>1. PICK S : bs \in Seq(S)
  BY DEF BlockRecords
<1>2. /\ DOMAIN cs = DOMAIN bs /\ cs = [i \in DOMAIN cs |-> cs[i]]
      /\ \A i \in DOMAIN bs : cs[i] = IF i = at THEN [bs[at] EXCEPT !.pieces = pieces] ELSE bs[i]
  OBVIOUS
<1>3. Len(bs) \in Nat /\ DOMAIN bs = 1..Len(bs)
  BY <1>1
<1> HIDE DEF cs
<1>4. \A i \in DOMAIN cs : cs[i] = [kind |-> cs[i].kind, pieces |-> cs[i].pieces]
  <2> SUFFICES ASSUME NEW i \in DOMAIN bs PROVE cs[i] = [kind |-> cs[i].kind, pieces |-> cs[i].pieces]
    BY <1>2
  <2>1. bs[i] = [kind |-> bs[i].kind, pieces |-> bs[i].pieces]
    BY DEF BlockRecords
  <2>2. CASE i = at
    <3>1. cs[i] = [kind |-> bs[i].kind, pieces |-> pieces]
      BY <1>2, <2>1, <2>2
    <3> QED
      BY <3>1
  <2>3. CASE i # at
    BY <1>2, <2>1, <2>3
  <2> QED
    BY <2>2, <2>3
<1>5. cs \in [1..Len(bs) -> {cs[i] : i \in DOMAIN cs}]
  BY <1>2, <1>3
<1> DEFINE U == {cs[i] : i \in DOMAIN cs}
<1>6. \E T : cs \in Seq(T)
  <2>1. cs \in [1..Len(bs) -> U]
    BY <1>5
  <2> HIDE DEF U
  <2>2. cs \in Seq(U)
    BY <1>3, <2>1
  <2> QED
    BY <2>2
<1>7. BlockRecords(cs)
  BY <1>4, <1>6 DEF BlockRecords
<1> QED
  BY <1>7 DEF cs

LEMMA GrowKeeps ==
    ASSUME NEW o, Sync(o), NEW at, NEW piece
    PROVE  Sync(Grow(o, at, piece))
<1> DEFINE cs == [o.blocks EXCEPT ![at].pieces = @ \o <<piece>>]
           p == [o EXCEPT !.blocks[at].pieces = @ \o <<piece>>]
           event == [type |-> "block_delta", kind |-> p.blocks[at].kind, at |-> at, data |-> <<piece>>]
<1>1. Output(p) /\ p.log = o.log /\ p.blocks = cs
  <2>1. p = [o EXCEPT !.blocks = cs]
    OBVIOUS
  <2> HIDE DEF p, cs
  <2> QED
    BY <2>1 DEF Sync, Output
<1>2. BlockRecords(cs)
  <2>1. cs = [o.blocks EXCEPT ![at].pieces = o.blocks[at].pieces \o <<piece>>]
    OBVIOUS
  <2> HIDE DEF cs
  <2> QED
    BY <2>1, RecordsStay DEF Sync
<1>3. Replay(o.blocks, event) = cs
  <2>1. event.type = "block_delta" /\ event.at = at /\ event.data = <<piece>>
    OBVIOUS
  <2> HIDE DEF event
  <2>2. Replay(o.blocks, event) = [o.blocks EXCEPT ![event.at].pieces = @ \o event.data]
    BY <2>1 DEF Replay
  <2> QED
    BY <2>1, <2>2
<1> HIDE DEF p, cs
<1>4. Sync(Emit(p, "block_delta", at, <<piece>>))
  BY <1>1, <1>2, <1>3, EmitKeeps
<1> QED
  BY <1>4 DEF Grow, p

(* A block is ended with the pieces it has, or with those it is given. *)
LEMMA CloseWithKeeps ==
    ASSUME NEW o, Sync(o), NEW at, NEW whole
    PROVE  Sync(Close([o EXCEPT !.blocks[at].pieces = whole], at))
<1> DEFINE cs == [o.blocks EXCEPT ![at].pieces = whole]
           p == [o EXCEPT !.blocks[at].pieces = whole]
           event == [type |-> "block_end", kind |-> p.blocks[at].kind, at |-> at, data |-> p.blocks[at].pieces]
<1>1. Output(p) /\ p.log = o.log /\ p.blocks = cs
  <2>1. p = [o EXCEPT !.blocks = cs]
    OBVIOUS
  <2> HIDE DEF p, cs
  <2> QED
    BY <2>1 DEF Sync, Output
<1>2. BlockRecords(cs) /\ BlockRecords(o.blocks)
  BY RecordsStay DEF Sync
<1>3. [o.blocks EXCEPT ![at].pieces = cs[at].pieces] = cs
  <2>1. CASE at \in DOMAIN o.blocks
    <3>1. o.blocks[at] = [kind |-> o.blocks[at].kind, pieces |-> o.blocks[at].pieces]
      BY <1>2, <2>1 DEF BlockRecords
    <3>2. cs[at].pieces = whole
      BY <2>1, <3>1
    <3> QED
      BY <3>2
  <2>2. CASE at \notin DOMAIN o.blocks
    BY <2>2
  <2> QED
    BY <2>1, <2>2
<1>4. Replay(o.blocks, event) = [o.blocks EXCEPT ![at].pieces = p.blocks[at].pieces]
  <2>1. event.type = "block_end" /\ event.at = at /\ event.data = p.blocks[at].pieces
    OBVIOUS
  <2> HIDE DEF event, p
  <2> QED
    BY <2>1 DEF Replay
<1> HIDE DEF p, cs
<1>5. Replay(o.blocks, event) = p.blocks
  BY <1>1, <1>3, <1>4
<1>6. Sync(Emit(p, "block_end", at, p.blocks[at].pieces))
  BY <1>1, <1>2, <1>5, EmitKeeps
<1> QED
  BY <1>6 DEF Close, p

LEMMA CloseKeeps ==
    ASSUME NEW o, Sync(o), NEW at
    PROVE  Sync(Close(o, at))
<1> DEFINE event == [type |-> "block_end", kind |-> o.blocks[at].kind, at |-> at, data |-> o.blocks[at].pieces]
<1>1. Output(o) /\ BlockRecords(o.blocks)
  BY DEF Sync
<1>2. [o.blocks EXCEPT ![at].pieces = o.blocks[at].pieces] = o.blocks
  <2>1. PICK S : o.blocks \in Seq(S)
    BY <1>1 DEF BlockRecords
  <2>2. o.blocks = [i \in DOMAIN o.blocks |-> o.blocks[i]]
    BY <2>1
  <2>3. at \in DOMAIN o.blocks => [o.blocks[at] EXCEPT !.pieces = o.blocks[at].pieces] = o.blocks[at]
    BY <1>1 DEF BlockRecords
  <2> QED
    BY <2>2, <2>3
<1>3. Replay(o.blocks, event) = [o.blocks EXCEPT ![at].pieces = o.blocks[at].pieces]
  <2>1. event.type = "block_end" /\ event.at = at /\ event.data = o.blocks[at].pieces
    OBVIOUS
  <2> HIDE DEF event
  <2> QED
    BY <2>1 DEF Replay
<1>4. Sync(Emit(o, "block_end", at, o.blocks[at].pieces))
  BY <1>1, <1>2, <1>3, EmitKeeps
<1> QED
  BY <1>4 DEF Close

-----------------------------------------------------------------------------
(* Each adapter keeps events and blocks in step *)

LEMMA SlotKeeps ==
    ASSUME NEW o, Sync(o), NEW key, NEW at
    PROVE  Sync(Slot(o, key, at))
<1> DEFINE slots == [k \in DOMAIN o.slots \cup {key} |-> IF k = key THEN at ELSE o.slots[k]]
<1>1. Slot(o, key, at) = [o EXCEPT !.slots = slots]
  BY DEF Slot
<1> HIDE DEF slots
<1>2. Output([o EXCEPT !.slots = slots]) /\ [o EXCEPT !.slots = slots].slots = slots
      /\ [o EXCEPT !.slots = slots].log = o.log /\ [o EXCEPT !.slots = slots].blocks = o.blocks
  BY DEF Sync, Output
<1> QED
  BY <1>1, <1>2, AsideKeeps

LEMMA UnslotKeeps ==
    ASSUME NEW o, Sync(o), NEW key
    PROVE  Sync(Unslot(o, key))
<1> DEFINE slots == [k \in DOMAIN o.slots \ {key} |-> o.slots[k]]
<1>1. Unslot(o, key) = [o EXCEPT !.slots = slots]
  BY DEF Unslot
<1> HIDE DEF slots
<1>2. Output([o EXCEPT !.slots = slots])
      /\ [o EXCEPT !.slots = slots].log = o.log /\ [o EXCEPT !.slots = slots].blocks = o.blocks
  BY DEF Sync, Output
<1> QED
  BY <1>1, <1>2, AsideKeeps

LEMMA CurrentKeeps ==
    ASSUME NEW o, Sync(o), NEW kind
    PROVE  Sync([o EXCEPT !.current = kind])
<1>1. Output([o EXCEPT !.current = kind])
      /\ [o EXCEPT !.current = kind].log = o.log /\ [o EXCEPT !.current = kind].blocks = o.blocks
  BY DEF Sync, Output
<1> QED
  BY <1>1, AsideKeeps

LEMMA OpenSlotKeeps ==
    ASSUME NEW o, Sync(o), NEW key, NEW kind
    PROVE  Sync(OpenSlot(o, key, kind))
  BY OpenKeeps, SlotKeeps DEF OpenSlot

LEMMA EnsureKeeps ==
    ASSUME NEW o, Sync(o), NEW key, NEW kind
    PROVE  Sync(Ensure(o, key, kind))
  BY OpenSlotKeeps DEF Ensure

LEMMA CloseSlotKeeps ==
    ASSUME NEW o, Sync(o), NEW key
    PROVE  Sync(CloseSlot(o, key))
  BY CloseKeeps, UnslotKeeps DEF CloseSlot

LEMMA CloseCurrentKeeps ==
    ASSUME NEW o, Sync(o)
    PROVE  Sync(CloseCurrent(o))
  BY CloseKeeps, CurrentKeeps DEF CloseCurrent

LEMMA TurnKeeps ==
    ASSUME NEW o, Sync(o), NEW kind
    PROVE  Sync(Turn(o, kind))
  BY CloseCurrentKeeps, OpenKeeps, CurrentKeeps DEF Turn

LEMMA GrowLastKeeps ==
    ASSUME NEW o, Sync(o), NEW piece
    PROVE  Sync(GrowLast(o, piece))
  BY GrowKeeps DEF GrowLast

LEMMA AnthropicKeeps ==
    ASSUME NEW o, Sync(o), NEW e, e.type \in {"start", "delta", "stop"}
    PROVE  Sync(Anthropic(o, e))
<1>1. CASE e.type = "start"
  BY <1>1, OpenSlotKeeps DEF Anthropic
<1>2. CASE e.type = "delta"
  BY <1>2, GrowKeeps DEF Anthropic
<1>3. CASE e.type = "stop"
  BY <1>3, CloseSlotKeeps DEF Anthropic
<1> QED
  BY <1>1, <1>2, <1>3

(* The item that is done replaces the pieces and ends the block at once. *)
LEMMA ResponsesKeeps ==
    ASSUME NEW o, Sync(o), NEW e, e.type \in {"start", "delta", "stop"}
    PROVE  Sync(Responses(o, e))
<1>1. CASE e.type = "start"
  BY <1>1, OpenSlotKeeps DEF Responses
<1>2. CASE e.type = "delta"
  BY <1>2, GrowKeeps DEF Responses
<1>3. CASE e.type = "stop"
  <2> DEFINE p == Ensure(o, e.n, e.kind)
             q == [p EXCEPT !.blocks[p.slots[e.n]].pieces = e.whole]
  <2>1. Responses(o, e) = IF Known(p, e.n) THEN CloseSlot(q, e.n) ELSE p
    BY <1>3 DEF Responses
  <2>2. Sync(p)
    BY EnsureKeeps
  <2> HIDE DEF p
  <2>3. q.slots = p.slots
    BY <2>2 DEF Sync, Output
  <2>4. Sync(Close(q, p.slots[e.n]))
    BY <2>2, CloseWithKeeps
  <2> HIDE DEF q
  <2>5. Known(p, e.n) => CloseSlot(q, e.n) = Unslot(Close(q, p.slots[e.n]), e.n)
    BY <2>3 DEF CloseSlot, Known
  <2> QED
    BY <2>1, <2>2, <2>4, <2>5, UnslotKeeps
<1> QED
  BY <1>1, <1>2, <1>3

LEMMA BedrockKeeps ==
    ASSUME NEW o, Sync(o), NEW e, e.type \in {"start", "delta", "stop"}
    PROVE  Sync(Bedrock(o, e))
<1>1. CASE e.type = "start"
  BY <1>1, OpenSlotKeeps DEF Bedrock
<1>2. CASE e.type = "delta"
  <2> DEFINE p == IF e.kind = "tool" THEN o ELSE Ensure(o, e.n, e.kind)
  <2>1. Bedrock(o, e) = IF Known(p, e.n) THEN Grow(p, p.slots[e.n], e.piece) ELSE p
    BY <1>2 DEF Bedrock
  <2>2. Sync(p)
    BY EnsureKeeps
  <2> HIDE DEF p
  <2> QED
    BY <2>1, <2>2, GrowKeeps
<1>3. CASE e.type = "stop"
  BY <1>3, CloseSlotKeeps DEF Bedrock
<1> QED
  BY <1>1, <1>2, <1>3

LEMMA PiKeeps ==
    ASSUME NEW o, Sync(o), NEW e, e.type \in {"start", "delta", "stop"}
    PROVE  Sync(Pi(o, e))
<1>1. CASE e.type = "start"
  BY <1>1, OpenSlotKeeps DEF Pi
<1>2. CASE e.type = "delta"
  BY <1>2, GrowKeeps DEF Pi
<1>3. CASE e.type = "stop"
  <2> DEFINE at == o.slots[e.n]
             whole == e.whole
  <2>1. Pi(o, e) = Close([o EXCEPT !.blocks[at].pieces = whole], at)
    BY <1>3 DEF Pi
  <2> HIDE DEF at, whole
  <2> QED
    BY <2>1, CloseWithKeeps
<1> QED
  BY <1>1, <1>2, <1>3

LEMMA CompletionsKeeps ==
    ASSUME NEW o, Sync(o), NEW e
    PROVE  Sync(Completions(o, e))
  BY EnsureKeeps, GrowKeeps DEF Completions

LEMMA GoogleKeeps ==
    ASSUME NEW o, Sync(o), NEW e
    PROVE  Sync(Google(o, e))
  BY CloseCurrentKeeps, OpenKeeps, GrowLastKeeps, CloseKeeps, TurnKeeps DEF Google

LEMMA MistralKeeps ==
    ASSUME NEW o, Sync(o), NEW e
    PROVE  Sync(Mistral(o, e))
  BY CloseCurrentKeeps, EnsureKeeps, GrowKeeps, GrowLastKeeps, TurnKeeps DEF Mistral

(* The provider's events of the numbered adapters have a type. *)
LEMMA AdaptKeeps ==
    ASSUME NEW o, Sync(o), NEW e, api \in Numbered \cup Chunked,
           api \in Numbered => e.type \in {"start", "delta", "stop"}
    PROVE  Sync(Adapt(o, e))
<1>1. CASE api \in Numbered
  <2>1. CASE api = "anthropic"
    BY <1>1, <2>1, AnthropicKeeps DEF Adapt
  <2>2. CASE api = "responses"
    BY <1>1, <2>2, ResponsesKeeps DEF Adapt
  <2>3. CASE api = "bedrock"
    BY <1>1, <2>3, BedrockKeeps DEF Adapt
  <2>4. CASE api = "pi"
    BY <1>1, <2>4, PiKeeps DEF Adapt
  <2> QED
    BY <1>1, <2>1, <2>2, <2>3, <2>4 DEF Numbered
<1>2. CASE api \in Chunked
  <2>1. CASE api = "completions"
    BY <2>1, CompletionsKeeps DEF Adapt
  <2>2. CASE api = "google"
    BY <2>2, GoogleKeeps DEF Adapt
  <2>3. CASE api = "mistral"
    BY <2>3, MistralKeeps DEF Adapt
  <2> QED
    BY <1>2, <2>1, <2>2, <2>3 DEF Chunked
<1> QED
  BY <1>1, <1>2

-----------------------------------------------------------------------------
(* How a reply ends *)

(* Every block that is ended on the way leaves events and blocks in step. *)
LEMMA EndBlocksKeeps ==
    ASSUME NEW o, Sync(o)
    PROVE  Sync(EndBlocks(o))
<1> DEFINE n == Len(o.blocks)
           at == [i \in DOMAIN o.blocks |-> i]
<1>1. n \in Nat /\ DOMAIN at = 1..n
  BY DEF Sync, BlockRecords
<1> HIDE DEF n
<1>2. EndBlocks(o) = (CHOOSE f : Iterates(f, "end", o, at, n))[1..n]
  <2> HIDE DEF at
  <2>1. FoldLeft(EndBlock, o, at) = (CHOOSE f : f = [s \in SUBSET DOMAIN at |-> IF s = {} THEN o
                          ELSE EndBlock(f[s \ {Max(s)}], at[Max(s)])])[DOMAIN at]
    BY DEF FoldLeft, MapThenFoldSet
  <2>2. FoldLeft(EndBlock, o, at) = (CHOOSE f : Iterates(f, "end", o, at, n))[1..n]
    BY <1>1, <2>1 DEF Iterates, Step, Apply
  <2> QED
    BY <2>2 DEF EndBlocks, at
<1> HIDE DEF at
<1>3. Iterates(CHOOSE f : Iterates(f, "end", o, at, n), "end", o, at, n)
  BY <1>1, IterationExists, Zenon
<1>4. PICK f : Iterates(f, "end", o, at, n) /\ EndBlocks(o) = f[1..n]
  BY <1>2, <1>3
<1> DEFINE T == {k \in Nat : k <= n => Sync(f[1..k])}
<1>5. 0 \in T
  BY <1>1, <1>4, IterationStarts
<1>6. ASSUME NEW k \in Nat, k \in T PROVE k + 1 \in T
  <2> SUFFICES ASSUME k + 1 <= n PROVE Sync(f[1..k + 1])
    OBVIOUS
  <2>1. k < n /\ Sync(f[1..k])
    BY <1>1, <1>6
  <2>2. f[1..k + 1] = EndBlock(f[1..k], at[k + 1])
    BY <1>1, <1>4, <2>1, IterationGoesOn DEF Apply
  <2>3. Sync(EndBlock(f[1..k], at[k + 1]))
    BY <2>1, CloseKeeps DEF EndBlock
  <2> QED
    BY <2>2, <2>3
<1> HIDE DEF T
<1>7. n \in T
  BY <1>1, <1>5, <1>6, SetInduction
<1> QED
  BY <1>1, <1>4, <1>7 DEF T

LEMMA SettleKeeps ==
    ASSUME NEW o, Sync(o)
    PROVE  Sync(Settle(o))
<1>1. Sync(CloseCurrent(o)) /\ Sync(EndBlocks(o)) /\ Sync(EndBlocks(CloseCurrent(o)))
  BY CloseCurrentKeeps, EndBlocksKeeps
<1> QED
  BY <1>1 DEF Settle

(* The last event carries the message and changes no block of the listener's. *)
LEMMA FinishKeeps ==
    ASSUME NEW o, Sync(o), NEW type \in {"done", "error"}, NEW blocks
    PROVE  Sync(Finish(o, type, blocks))
<1> DEFINE event == [type |-> type, message |-> blocks]
           q == Finish(o, type, blocks)
<1>1. Output(q) /\ q.log = Append(o.log, event) /\ q.blocks = o.blocks
  <2>1. q = [o EXCEPT !.log = Append(@, event)]
    BY DEF Finish
  <2> HIDE DEF event, q
  <2> QED
    BY <2>1 DEF Sync, Output
<1>2. PICK E : o.log \in Seq(E)
  BY DEF Sync
<1>3. event.type = type
  OBVIOUS
<1> HIDE DEF event, q
<1>4. Replay(o.blocks, event) = o.blocks
  BY <1>3 DEF Replay
<1>5. o.log \in Seq(E \cup {event}) /\ event \in E \cup {event}
  BY <1>2
<1>6. Rebuilt(q.log) = Replay(Rebuilt(o.log), event) /\ q.log \in Seq(E \cup {event})
  BY <1>1, <1>5, RebuiltAppend
<1>7. Sync(q)
  BY <1>1, <1>4, <1>6 DEF Sync
<1> QED
  BY <1>7 DEF q

-----------------------------------------------------------------------------
(* Every step of provider and adapter *)

(* Before the call is answered there are no blocks: the first event starts a log. *)
InStep ==
    /\ api \in Numbered \cup Chunked
    /\ "stage" \in DOMAIN wire
    /\ wire.stage = "calling" => out.blocks = <<>>
    /\ Sync(out)

LEMMA InitInStep == ReplyInit => InStep
<1> SUFFICES ASSUME ReplyInit PROVE InStep
  OBVIOUS
<1>1. Output(out) /\ out.log = <<>> /\ out.blocks = <<>>
  BY DEF ReplyInit, Output
<1>2. <<>> \in Seq({})
  OBVIOUS
<1>3. BlockRecords(<<>>)
  BY <1>2 DEF BlockRecords
<1>4. Sync(out)
  BY <1>1, <1>2, <1>3, RebuiltEmpty DEF Sync
<1> QED
  BY <1>1, <1>4, ApisAssumption DEF ReplyInit, InStep

LEMMA AnswerInStep ==
    ASSUME InStep, Answer
    PROVE  InStep'
<1> DEFINE first == [type |-> "start"]
<1>1. out' = [out EXCEPT !.log = <<first>>] /\ Output(out) /\ out.blocks = <<>> /\ BlockRecords(out.blocks)
  BY DEF InStep, Answer, Sync
<1>2. first.type = "start"
  OBVIOUS
<1> HIDE DEF first
<1>3. Output(out') /\ out'.log = <<first>> /\ out'.blocks = <<>>
  BY <1>1 DEF Output
<1>4. <<>> \in Seq({first}) /\ Append(<<>>, first) = <<first>> /\ <<first>> \in Seq({first})
  OBVIOUS
<1>5. Rebuilt(<<first>>) = Replay(<<>>, first)
  BY <1>4, RebuiltAppend, RebuiltEmpty
<1>6. Replay(<<>>, first) = <<>>
  BY <1>2 DEF Replay
<1>7. Sync(out')
  BY <1>1, <1>3, <1>4, <1>5, <1>6 DEF Sync
<1> QED
  BY <1>7, <1>3 DEF InStep, Answer

(* An event of the provider reaches the adapter. *)
LEMMA ReceiveInStep ==
    ASSUME InStep, NEW e, NEW blocks, NEW sent, Receive(e, blocks, sent),
           api \in Numbered => e.type \in {"start", "delta", "stop"}
    PROVE  InStep'
<1>1. Sync(out')
  BY AdaptKeeps DEF InStep, Receive
<1>2. wire' = [wire EXCEPT !.blocks = blocks, !.sent = @ \o sent] /\ api' = api /\ wire.stage = "streaming"
  BY DEF Receive
<1>3. "stage" \in DOMAIN wire' /\ wire'.stage = "streaming"
  BY <1>2 DEF InStep
<1> QED
  BY <1>1, <1>2, <1>3 DEF InStep

LEMMA ConcludeInStep ==
    ASSUME InStep, NEW o, Sync(o), NEW type \in {"done", "error"}, NEW blocks, Conclude(o, type, blocks)
    PROVE  InStep'
<1>1. Sync(out')
  BY FinishKeeps DEF Conclude
<1>2. "stage" \in DOMAIN wire' /\ wire'.stage = "over" /\ api' = api
  BY DEF Conclude, InStep
<1> QED
  BY <1>1, <1>2 DEF InStep

LEMMA StepInStep ==
    ASSUME InStep, [ReplyNext]_replyVars
    PROVE  InStep'
<1>1. CASE Answer
  BY <1>1, AnswerInStep
<1>2. ASSUME NEW kind \in Kinds \cup {"other"}, StartBlock(kind) PROVE InStep'
  BY <1>2, ReceiveInStep DEF StartBlock
<1>3. ASSUME NEW n \in DOMAIN wire.blocks, SendDelta(n) PROVE InStep'
  BY <1>3, ReceiveInStep DEF SendDelta
<1>4. ASSUME NEW n \in DOMAIN wire.blocks, StopBlock(n) PROVE InStep'
  BY <1>4, ReceiveInStep DEF StopBlock
<1>5. ASSUME NEW kind \in Kinds, SendItem(kind) PROVE InStep'
  BY <1>5, ReceiveInStep DEF SendItem
<1>6. ASSUME NEW kind \in {"text", "thinking"}, SendText(kind) PROVE InStep'
  BY <1>6, ReceiveInStep DEF SendText, Numbered, Chunked
<1>7. ASSUME NEW n \in 1..MaxBlocks, SendCall(n) PROVE InStep'
  BY <1>7, ReceiveInStep DEF SendCall, Numbered, Chunked
<1>8. CASE Complete
  BY <1>8, SettleKeeps, ConcludeInStep DEF Complete, InStep
<1>9. CASE Break
  BY <1>9, ConcludeInStep DEF Break, InStep
<1>10. CASE Abort
  BY <1>10 DEF Abort, InStep
<1>11. ASSUME NEW told \in BOOLEAN, CutShort(told) PROVE InStep'
  BY <1>11, SettleKeeps, ConcludeInStep DEF CutShort, InStep
<1>12. CASE UNCHANGED replyVars
  BY <1>12 DEF replyVars, InStep
<1> QED
  BY <1>1, <1>2, <1>3, <1>4, <1>5, <1>6, <1>7, <1>8, <1>9, <1>10, <1>11, <1>12 DEF ReplyNext

(* A listener that only follows the events, by their positions, has at every moment
   the very blocks of the message: for every adapter, however many blocks grow side
   by side, and whether the stream ends, is cut short, breaks or is aborted. *)
THEOREM EventsRebuildTheMessage == ReplySpec => []ListenerRebuildsTheMessage
<1>1. InStep => ListenerRebuildsTheMessage
  BY DEF InStep, Sync, Rebuilt, ListenerRebuildsTheMessage
<1>2. InStep /\ [ReplyNext]_replyVars => InStep'
  BY StepInStep
<1> QED
  BY <1>1, <1>2, InitInStep, PTL DEF ReplySpec

-----------------------------------------------------------------------------
(* Where the pieces of a reply are, and what the listener has been told *)

(* s has the numbers of S, each once and in increasing order. *)
Lists(s, S) == /\ \E n \in Nat : s \in [1..n -> S]
               /\ ToSet(s) = S /\ Increasing(s)

KeyOf(piece) == IF api = "completions" THEN <<piece.kind, piece.n>> ELSE piece.n
At(home, at) == {p \in DOMAIN home : home[p] = at}

(* home says which block has which piece. *)
Placed(blocks, sent, home) ==
    /\ DOMAIN home = DOMAIN sent
    /\ \A p \in DOMAIN sent :
        /\ home[p] \in DOMAIN blocks
        /\ blocks[home[p]].kind = sent[p].kind
    /\ \A at \in DOMAIN blocks : Lists(blocks[at].pieces, At(home, at))
    /\ \A p, q \in DOMAIN sent : sent[p].n # 0 => (home[q] = home[p] <=> sent[q].n = sent[p].n)

Slotted(o, sent, home) ==
    /\ \A k \in DOMAIN o.slots : o.slots[k] \in DOMAIN o.blocks
    /\ \A k, l \in DOMAIN o.slots : o.slots[k] = o.slots[l] => k = l
    /\ \A k \in DOMAIN o.slots, p \in DOMAIN sent : home[p] = o.slots[k] <=> KeyOf(sent[p]) = k
    /\ o.current # None =>
        /\ Len(o.blocks) > 0
        /\ o.blocks[Len(o.blocks)].kind = o.current
        /\ \A k \in DOMAIN o.slots : o.slots[k] # Len(o.blocks)
        /\ \A p \in DOMAIN sent : home[p] = Len(o.blocks) => sent[p].n = 0

EventsOf(log, type, at) == {i \in DOMAIN log : log[i].type = type /\ log[i].at = at}

Told(log, n, unended) ==
    /\ \A i \in DOMAIN log : log[i].type \in {"start", "block_start", "block_delta", "block_end"}
    /\ \A at \in 1..n : \E first \in DOMAIN log :
        /\ EventsOf(log, "block_start", at) = {first}
        /\ \A i \in EventsOf(log, "block_delta", at) : first < i
    /\ \A at \in 1..n \cap unended : EventsOf(log, "block_end", at) = {}
    /\ \A at \in 1..n \ unended : \E last \in DOMAIN log :
        /\ EventsOf(log, "block_end", at) = {last}
        /\ \A i \in EventsOf(log, "block_delta", at) : i < last
    /\ \A i \in DOMAIN log : log[i].type # "start" => log[i].at \in 1..n

Unended(o, blocks) ==
    {at \in DOMAIN o.blocks :
        \/ api = "completions"
        \/ \E k \in DOMAIN o.slots : o.slots[k] = at /\ (api = "pi" => blocks[k].open)
        \/ o.current # None /\ at = Len(o.blocks)}

NumberedSlots(o, w) ==
    /\ o.current = None
    /\ \A n \in DOMAIN o.slots :
        /\ n \in DOMAIN w.blocks
        /\ o.blocks[o.slots[n]].kind = w.blocks[n].kind
        /\ api # "pi" => w.blocks[n].open
    /\ \A n \in DOMAIN w.blocks \ DOMAIN o.slots : w.blocks[n].open =>
        \/ w.blocks[n].kind = "other" /\ api # "pi"
        \/ api = "bedrock" /\ w.blocks[n].kind # "tool" /\ \A p \in DOMAIN w.sent : w.sent[p].n # n
    /\ \A p \in DOMAIN w.sent : w.sent[p].n \in DOMAIN w.blocks

CompletionsSlots(o, w) ==
    /\ o.current = None
    /\ \A k \in DOMAIN o.slots : o.blocks[o.slots[k]].kind = k[1]
    /\ \A p \in DOMAIN w.sent :
        KeyOf(w.sent[p]) \in DOMAIN o.slots /\ (w.sent[p].n # 0 <=> w.sent[p].kind = "tool")

GoogleSlots(o, w) ==
    /\ DOMAIN o.slots = {}
    /\ \A p \in DOMAIN w.sent : w.sent[p].n \in 0..Len(w.blocks)

MistralSlots(o, w) ==
    /\ o.current # "tool"
    /\ \A n \in DOMAIN o.slots : n # 0 /\ o.blocks[o.slots[n]].kind = "tool"
    /\ \A p \in DOMAIN w.sent : w.sent[p].n # 0 => w.sent[p].n \in DOMAIN o.slots

Slots(o, w) ==
    CASE api \in Numbered    -> NumberedSlots(o, w)
      [] api = "completions" -> CompletionsSlots(o, w)
      [] api = "google"      -> GoogleSlots(o, w)
      [] api = "mistral"     -> MistralSlots(o, w)

-----------------------------------------------------------------------------
(* The events of a block *)

(* One more event. *)
LEMMA OneMoreEvent ==
    ASSUME NEW S, NEW log \in Seq(S), NEW event, NEW type, NEW at
    PROVE  /\ event.type = type /\ event.at = at =>
                EventsOf(Append(log, event), type, at) = EventsOf(log, type, at) \cup {Len(log) + 1}
           /\ event.type # type \/ event.at # at =>
                EventsOf(Append(log, event), type, at) = EventsOf(log, type, at)
<1> DEFINE longer == Append(log, event)
<1>1. /\ DOMAIN longer = 1..Len(log) + 1 /\ DOMAIN log = 1..Len(log) /\ Len(log) \in Nat
      /\ longer[Len(log) + 1] = event /\ \A i \in 1..Len(log) : longer[i] = log[i]
  <2>1. log \in Seq(S \cup {event}) /\ event \in S \cup {event}
    OBVIOUS
  <2> QED
    BY <2>1
<1> HIDE DEF longer
<1>2. DOMAIN longer = DOMAIN log \cup {Len(log) + 1} /\ Len(log) + 1 \notin DOMAIN log
  BY <1>1
<1>3. ASSUME event.type = type, event.at = at
      PROVE  EventsOf(longer, type, at) = EventsOf(log, type, at) \cup {Len(log) + 1}
  BY <1>1, <1>2, <1>3 DEF EventsOf
<1>4. ASSUME event.type # type \/ event.at # at
      PROVE  EventsOf(longer, type, at) = EventsOf(log, type, at)
  BY <1>1, <1>2, <1>4 DEF EventsOf
<1> QED
  BY <1>3, <1>4 DEF longer

(* The start of a further block. *)
LEMMA StartIsTold ==
    ASSUME NEW S, NEW log \in Seq(S), NEW n \in Nat, NEW U, Told(log, n, U),
           NEW event, event.type = "block_start", event.at = n + 1
    PROVE  Told(Append(log, event), n + 1, U \cup {n + 1})
<1> DEFINE longer == Append(log, event)
           last == Len(log) + 1
<1>1. /\ last \in Nat /\ DOMAIN longer = 1..last /\ DOMAIN log = 1..Len(log) /\ Len(log) \in Nat
      /\ longer[last] = event /\ \A i \in DOMAIN log : longer[i] = log[i]
      /\ DOMAIN log \subseteq DOMAIN longer /\ DOMAIN longer = DOMAIN log \cup {last}
  <2>1. log \in Seq(S \cup {event}) /\ event \in S \cup {event}
    OBVIOUS
  <2> QED
    BY <2>1
<1>2. /\ \A type, at : event.type # type \/ event.at # at =>
                EventsOf(longer, type, at) = EventsOf(log, type, at)
      /\ EventsOf(longer, event.type, event.at) = EventsOf(log, event.type, event.at) \cup {last}
  <2>1. ASSUME NEW type, NEW at, event.type # type \/ event.at # at
        PROVE  EventsOf(longer, type, at) = EventsOf(log, type, at)
    BY <2>1, OneMoreEvent
  <2>2. EventsOf(longer, event.type, event.at) = EventsOf(log, event.type, event.at) \cup {last}
    BY OneMoreEvent
  <2> HIDE DEF longer, last
  <2> QED
    BY <2>1, <2>2
<1>3. \A type : EventsOf(log, type, n + 1) \subseteq {i \in DOMAIN log : log[i].type = type /\ log[i].type = "start"}
  <2>1. \A i \in DOMAIN log : log[i].type # "start" => log[i].at # n + 1
    BY DEF Told
  <2> QED
    BY <2>1 DEF EventsOf
<1> HIDE DEF longer, last
<1>0. event.type # "block_delta" /\ event.type # "block_end"
  OBVIOUS
<1>4. \A i \in DOMAIN longer : longer[i].type \in {"start", "block_start", "block_delta", "block_end"}
  BY <1>1 DEF Told
<1>5. ASSUME NEW i \in DOMAIN longer, longer[i].type # "start" PROVE longer[i].at \in 1..n + 1
  <2>1. CASE i \in DOMAIN log
    <3>1. log[i].at \in 1..n
      BY <1>1, <1>5, <2>1 DEF Told
    <3> QED
      BY <1>1, <2>1, <3>1
  <2>2. CASE i = last
    <3>1. longer[i].at = n + 1
      BY <1>1, <2>2
    <3> QED
      BY <3>1
  <2> QED
    BY <1>1, <2>1, <2>2
<1>6. ASSUME NEW at \in 1..n + 1
      PROVE  \E first \in DOMAIN longer :
               /\ EventsOf(longer, "block_start", at) = {first}
               /\ \A i \in EventsOf(longer, "block_delta", at) : first < i
  <2>1. CASE at = n + 1
    <3>1. EventsOf(longer, "block_start", at) = {last} /\ EventsOf(longer, "block_delta", at) = {}
      BY <1>2, <1>3, <2>1
    <3> QED
      BY <1>1, <3>1
  <2>2. CASE at \in 1..n
    <3>1. EventsOf(longer, "block_start", at) = EventsOf(log, "block_start", at)
      <4>1. at # n + 1
        BY <2>2
      <4> QED
        BY <1>2, <4>1
    <3>2. EventsOf(longer, "block_delta", at) = EventsOf(log, "block_delta", at)
      BY <1>2, <1>0
    <3> QED
      BY <1>1, <2>2, <3>1, <3>2 DEF Told
  <2> QED
    BY <2>1, <2>2
<1>7. ASSUME NEW at \in 1..n + 1
      PROVE  EventsOf(longer, "block_end", at) = EventsOf(log, "block_end", at)
  BY <1>2, <1>0
<1>8. EventsOf(log, "block_end", n + 1) = {}
  BY <1>3
<1>9. \A at \in 1..n + 1 \cap (U \cup {n + 1}) : EventsOf(longer, "block_end", at) = {}
  BY <1>7, <1>8 DEF Told
<1>10. ASSUME NEW at \in 1..n + 1 \ (U \cup {n + 1})
       PROVE  \E final \in DOMAIN longer :
                /\ EventsOf(longer, "block_end", at) = {final}
                /\ \A i \in EventsOf(longer, "block_delta", at) : i < final
  <2>1. at \in 1..n \ U
    OBVIOUS
  <2>2. EventsOf(longer, "block_delta", at) = EventsOf(log, "block_delta", at)
    BY <1>2, <1>0
  <2> QED
    BY <1>1, <1>7, <2>1, <2>2 DEF Told
<1>11. Told(longer, n + 1, U \cup {n + 1})
  BY <1>4, <1>5, <1>6, <1>9, <1>10 DEF Told
<1> QED
  BY <1>11 DEF longer

(* A piece of a block that has not ended. *)
LEMMA DeltaIsTold ==
    ASSUME NEW S, NEW log \in Seq(S), NEW n \in Nat, NEW U, Told(log, n, U),
           NEW event, event.type = "block_delta", event.at \in 1..n, event.at \in U
    PROVE  Told(Append(log, event), n, U)
<1> DEFINE longer == Append(log, event)
           last == Len(log) + 1
<1>1. /\ last \in Nat /\ DOMAIN longer = 1..last /\ DOMAIN log = 1..Len(log) /\ Len(log) \in Nat
      /\ longer[last] = event /\ \A i \in DOMAIN log : longer[i] = log[i]
      /\ DOMAIN log \subseteq DOMAIN longer /\ DOMAIN longer = DOMAIN log \cup {last}
      /\ \A i \in DOMAIN log : i < last
  <2>1. log \in Seq(S \cup {event}) /\ event \in S \cup {event}
    OBVIOUS
  <2> QED
    BY <2>1
<1>2. /\ \A type, at : event.type # type \/ event.at # at =>
                EventsOf(longer, type, at) = EventsOf(log, type, at)
      /\ EventsOf(longer, event.type, event.at) = EventsOf(log, event.type, event.at) \cup {last}
  <2>1. ASSUME NEW type, NEW at, event.type # type \/ event.at # at
        PROVE  EventsOf(longer, type, at) = EventsOf(log, type, at)
    BY <2>1, OneMoreEvent
  <2>2. EventsOf(longer, event.type, event.at) = EventsOf(log, event.type, event.at) \cup {last}
    BY OneMoreEvent
  <2> HIDE DEF longer, last
  <2> QED
    BY <2>1, <2>2
<1> HIDE DEF longer, last
<1>3. ASSUME NEW at
      PROVE   /\ EventsOf(longer, "block_start", at) = EventsOf(log, "block_start", at)
              /\ EventsOf(longer, "block_end", at) = EventsOf(log, "block_end", at)
              /\ EventsOf(longer, "block_delta", at) \subseteq EventsOf(log, "block_delta", at) \cup {last}
              /\ at # event.at => EventsOf(longer, "block_delta", at) = EventsOf(log, "block_delta", at)
  <2>1. event.type # "block_start" /\ event.type # "block_end"
    OBVIOUS
  <2>2. CASE at = event.at
    BY <1>2, <2>1, <2>2
  <2>3. CASE at # event.at
    BY <1>2, <2>3
  <2> QED
    BY <2>2, <2>3
<1>4. \A i \in DOMAIN longer : longer[i].type \in {"start", "block_start", "block_delta", "block_end"}
  BY <1>1 DEF Told
<1>5. \A i \in DOMAIN longer : longer[i].type # "start" => longer[i].at \in 1..n
  BY <1>1 DEF Told
<1>6. ASSUME NEW at \in 1..n
      PROVE  \E first \in DOMAIN longer :
               /\ EventsOf(longer, "block_start", at) = {first}
               /\ \A i \in EventsOf(longer, "block_delta", at) : first < i
  <2>1. PICK first \in DOMAIN log :
          /\ EventsOf(log, "block_start", at) = {first}
          /\ \A i \in EventsOf(log, "block_delta", at) : first < i
    BY DEF Told
  <2> QED
    BY <1>1, <1>3, <2>1
<1>7. \A at \in 1..n \cap U : EventsOf(longer, "block_end", at) = {}
  BY <1>3 DEF Told
<1>8. ASSUME NEW at \in 1..n \ U
      PROVE  \E final \in DOMAIN longer :
                /\ EventsOf(longer, "block_end", at) = {final}
                /\ \A i \in EventsOf(longer, "block_delta", at) : i < final
  <2>1. at # event.at
    OBVIOUS
  <2> QED
    BY <1>1, <1>3, <2>1 DEF Told
<1>9. Told(longer, n, U)
  BY <1>4, <1>5, <1>6, <1>7, <1>8 DEF Told
<1> QED
  BY <1>9 DEF longer

(* The end of a block that has not ended. *)
LEMMA EndIsTold ==
    ASSUME NEW S, NEW log \in Seq(S), NEW n \in Nat, NEW U, Told(log, n, U),
           NEW event, event.type = "block_end", event.at \in 1..n, event.at \in U
    PROVE  Told(Append(log, event), n, U \ {event.at})
<1> DEFINE longer == Append(log, event)
           last == Len(log) + 1
<1>1. /\ last \in Nat /\ DOMAIN longer = 1..last /\ DOMAIN log = 1..Len(log) /\ Len(log) \in Nat
      /\ longer[last] = event /\ \A i \in DOMAIN log : longer[i] = log[i]
      /\ DOMAIN log \subseteq DOMAIN longer /\ DOMAIN longer = DOMAIN log \cup {last}
      /\ \A i \in DOMAIN log : i < last
  <2>1. log \in Seq(S \cup {event}) /\ event \in S \cup {event}
    OBVIOUS
  <2> QED
    BY <2>1
<1>2. /\ \A type, at : event.type # type \/ event.at # at =>
                EventsOf(longer, type, at) = EventsOf(log, type, at)
      /\ EventsOf(longer, event.type, event.at) = EventsOf(log, event.type, event.at) \cup {last}
  <2>1. ASSUME NEW type, NEW at, event.type # type \/ event.at # at
        PROVE  EventsOf(longer, type, at) = EventsOf(log, type, at)
    BY <2>1, OneMoreEvent
  <2>2. EventsOf(longer, event.type, event.at) = EventsOf(log, event.type, event.at) \cup {last}
    BY OneMoreEvent
  <2> HIDE DEF longer, last
  <2> QED
    BY <2>1, <2>2
<1> HIDE DEF longer, last
<1>3. ASSUME NEW at
      PROVE   /\ EventsOf(longer, "block_start", at) = EventsOf(log, "block_start", at)
              /\ EventsOf(longer, "block_delta", at) = EventsOf(log, "block_delta", at)
              /\ at # event.at => EventsOf(longer, "block_end", at) = EventsOf(log, "block_end", at)
  <2>1. event.type # "block_start" /\ event.type # "block_delta"
    OBVIOUS
  <2> QED
    BY <1>2, <2>1
<1>4. \A i \in DOMAIN longer : longer[i].type \in {"start", "block_start", "block_delta", "block_end"}
  BY <1>1 DEF Told
<1>5. \A i \in DOMAIN longer : longer[i].type # "start" => longer[i].at \in 1..n
  BY <1>1 DEF Told
<1>6. ASSUME NEW at \in 1..n
      PROVE  \E first \in DOMAIN longer :
               /\ EventsOf(longer, "block_start", at) = {first}
               /\ \A i \in EventsOf(longer, "block_delta", at) : first < i
  <2>1. PICK first \in DOMAIN log :
          /\ EventsOf(log, "block_start", at) = {first}
          /\ \A i \in EventsOf(log, "block_delta", at) : first < i
    BY DEF Told
  <2> QED
    BY <1>1, <1>3, <2>1
<1>7. ASSUME NEW at \in 1..n \cap (U \ {event.at}) PROVE EventsOf(longer, "block_end", at) = {}
  <2>1. at # event.at /\ at \in 1..n \cap U
    OBVIOUS
  <2> QED
    BY <1>3, <2>1 DEF Told
<1>8. ASSUME NEW at \in 1..n \ (U \ {event.at})
      PROVE  \E final \in DOMAIN longer :
                /\ EventsOf(longer, "block_end", at) = {final}
                /\ \A i \in EventsOf(longer, "block_delta", at) : i < final
  <2>1. CASE at = event.at
    <3>1. EventsOf(log, "block_end", at) = {}
      BY <2>1 DEF Told
    <3>2. EventsOf(longer, "block_end", at) = {last}
      <4>1. EventsOf(longer, "block_end", at) = EventsOf(log, "block_end", at) \cup {last}
        BY <1>2, <2>1
      <4> QED
        BY <3>1, <4>1
    <3>3. EventsOf(longer, "block_delta", at) \subseteq DOMAIN log
      <4>1. EventsOf(longer, "block_delta", at) = EventsOf(log, "block_delta", at)
        BY <1>3
      <4> QED
        BY <4>1 DEF EventsOf
    <3> QED
      BY <1>1, <3>2, <3>3
  <2>2. CASE at # event.at
    <3>1. at \in 1..n \ U
      BY <2>2
    <3> QED
      BY <1>1, <1>3, <2>2, <3>1 DEF Told
  <2> QED
    BY <2>1, <2>2
<1>9. Told(longer, n, U \ {event.at})
  BY <1>4, <1>5, <1>6, <1>7, <1>8 DEF Told
<1> QED
  BY <1>9 DEF longer

-----------------------------------------------------------------------------
(* Lists of pieces *)

(* Nothing lists the empty set. *)
LEMMA NothingLists == Lists(<<>>, {})
<1>1. <<>> \in [1..0 -> {}] /\ ToSet(<<>>) = {} /\ DOMAIN <<>> = {} /\ 0 \in Nat
  BY DEF ToSet
<1> QED
  BY <1>1 DEF Lists, Increasing

(* A later piece at the end. *)
LEMMA MoreIsListed ==
    ASSUME NEW N \in Nat, NEW S \in SUBSET (1..N), NEW s, Lists(s, S)
    PROVE  Lists(s \o <<N + 1>>, S \cup {N + 1})
<1>1. PICK n \in Nat : s \in [1..n -> S]
  BY DEF Lists
<1> DEFINE longer == s \o <<N + 1>>
           more == S \cup {N + 1}
<1>2. /\ DOMAIN longer = 1..n + 1 /\ longer[n + 1] = N + 1 /\ DOMAIN s = 1..n
      /\ \A i \in 1..n : longer[i] = s[i] /\ longer[i] \in 1..N
  <2>1. s \in Seq(more) /\ <<N + 1>> \in Seq(more) /\ Len(s) = n /\ Len(<<N + 1>>) = 1
    BY <1>1
  <2> HIDE DEF more
  <2>2. /\ longer \in Seq(more) /\ Len(longer) = n + 1
        /\ \A i \in 1..n + 1 : longer[i] = IF i <= n THEN s[i] ELSE <<N + 1>>[i - n]
    BY <2>1, ConcatProperties
  <2> HIDE DEF longer
  <2>3. \A i \in 1..n : longer[i] = s[i]
    BY <2>2
  <2>4. longer[n + 1] = N + 1
    <3>1. n + 1 \in 1..n + 1 /\ ~(n + 1 <= n) /\ n + 1 - n = 1 /\ <<N + 1>>[1] = N + 1
      OBVIOUS
    <3> QED
      BY <2>2, <3>1
  <2>5. \A i \in 1..n : longer[i] \in 1..N
    BY <1>1, <2>3
  <2>6. DOMAIN longer = 1..n + 1 /\ DOMAIN s = 1..n
    BY <1>1, <2>2
  <2> QED
    BY <2>3, <2>4, <2>5, <2>6
<1>3. ToSet(s) = S /\ Increasing(s)
  BY DEF Lists
<1> HIDE DEF longer
<1>4. longer \in [1..n + 1 -> more]
  <2>1. longer = [i \in 1..n + 1 |-> longer[i]]
    BY <1>2 DEF longer
  <2>2. \A i \in 1..n + 1 : longer[i] \in more
    BY <1>1, <1>2
  <2> QED
    BY <2>1, <2>2
<1>5. ToSet(longer) = more
  <2>1. ToSet(longer) = {longer[i] : i \in 1..n + 1} /\ ToSet(s) = {s[i] : i \in 1..n}
    BY <1>2 DEF ToSet
  <2>2. {longer[i] : i \in 1..n + 1} = {longer[i] : i \in 1..n} \cup {longer[n + 1]}
    OBVIOUS
  <2>3. {longer[i] : i \in 1..n} = {s[i] : i \in 1..n}
    BY <1>2
  <2> QED
    BY <1>2, <1>3, <2>1, <2>2, <2>3
<1>6. Increasing(longer)
  <2> SUFFICES ASSUME NEW i \in 1..n + 1, NEW j \in 1..n + 1, i < j
               PROVE  longer[i] < longer[j]
    BY <1>2 DEF Increasing
  <2>1. i \in 1..n
    OBVIOUS
  <2>2. CASE j = n + 1
    BY <1>2, <2>1, <2>2
  <2>3. CASE j \in 1..n
    <3>1. s[i] < s[j]
      BY <1>2, <1>3, <2>1, <2>3 DEF Increasing
    <3> QED
      BY <1>2, <2>1, <2>3, <3>1
  <2> QED
    BY <2>2, <2>3
<1>7. n + 1 \in Nat
  OBVIOUS
<1> QED
  BY <1>4, <1>5, <1>6, <1>7 DEF Lists, longer

(* The numbers of a finite set can be put in order. *)
LEMMA InOrderLists ==
    ASSUME NEW N \in Nat, NEW P \in SUBSET (1..N)
    PROVE  Lists(InOrder(P), P)
<1> DEFINE C(k) == P \cap 1..k
           Q(D) == /\ IsFiniteSet(D) /\ Cardinality(D) \in Nat
                   /\ \E s \in [1..Cardinality(D) -> D] : ToSet(s) = D /\ Increasing(s)
           T == {k \in Nat : k <= N => Q(C(k))}
<1>1. 0 \in T
  <2>1. C(0) = {}
    OBVIOUS
  <2>2. IsFiniteSet({}) /\ Cardinality({}) = 0
    BY FS_EmptySet
  <2>3. <<>> \in [1..0 -> {}] /\ ToSet(<<>>) = {} /\ Increasing(<<>>)
    BY NothingLists DEF Lists
  <2>4. Q({})
    <3> DEFINE c == Cardinality({})
    <3>1. c = 0
      BY <2>2
    <3> HIDE DEF c
    <3>2. \E s \in [1..c -> {}] : ToSet(s) = {} /\ Increasing(s)
      BY <2>3, <3>1
    <3> QED
      BY <2>2, <3>2 DEF c
  <2> HIDE DEF C, Q
  <2> QED
    BY <2>1, <2>4
<1>2. ASSUME NEW k \in Nat, k \in T PROVE k + 1 \in T
  <2> SUFFICES ASSUME k + 1 <= N PROVE Q(C(k + 1))
    <3> HIDE DEF C, Q
    <3> QED
      OBVIOUS
  <2>1. Q(C(k))
    <3> HIDE DEF C, Q
    <3> QED
      BY <1>2
  <2>2. CASE k + 1 \notin P
    <3>1. C(k + 1) = C(k)
      BY <2>2
    <3> HIDE DEF C
    <3> QED
      BY <2>1, <3>1
  <2>3. CASE k + 1 \in P
    <3>1. C(k + 1) = C(k) \cup {k + 1} /\ k + 1 \notin C(k) /\ C(k) \in SUBSET (1..k)
      BY <2>3
    <3> HIDE DEF C
    <3>2. PICK s \in [1..Cardinality(C(k)) -> C(k)] : ToSet(s) = C(k) /\ Increasing(s)
      BY <2>1
    <3>3. Lists(s, C(k))
      BY <2>1, <3>2 DEF Lists
    <3>4. Lists(s \o <<k + 1>>, C(k) \cup {k + 1})
      BY <3>1, <3>3, MoreIsListed
    <3>5. IsFiniteSet(C(k + 1)) /\ Cardinality(C(k + 1)) = Cardinality(C(k)) + 1
      <4> DEFINE D == C(k)
                 x == k + 1
      <4>1. IsFiniteSet(D) /\ x \notin D
        BY <2>1, <3>1
      <4> HIDE DEF D, x
      <4>2. IsFiniteSet(D \cup {x}) /\ Cardinality(D \cup {x}) = Cardinality(D) + 1
        BY <4>1, FS_AddElement
      <4>3. C(k + 1) = D \cup {x}
        BY <3>1 DEF D, x
      <4> QED
        BY <4>2, <4>3 DEF D
    <3>6. s \o <<k + 1>> \in [1..Cardinality(C(k)) + 1 -> C(k) \cup {k + 1}]
      <4> DEFINE longer == s \o <<k + 1>>
                 n == Cardinality(C(k))
      <4>1. n \in Nat /\ s \in Seq(C(k)) /\ Len(s) = n /\ <<k + 1>> \in Seq({k + 1})
        BY <2>1, <3>2
      <4>2. DOMAIN longer = 1..n + 1
        <5> HIDE DEF n
        <5>1. s \in Seq(C(k) \cup {k + 1}) /\ <<k + 1>> \in Seq(C(k) \cup {k + 1})
          BY <4>1
        <5>2. longer \in Seq(C(k) \cup {k + 1}) /\ Len(longer) = n + 1
          BY <4>1, <5>1, ConcatProperties
        <5> HIDE DEF longer
        <5> QED
          BY <5>2
      <4>3. PICK m \in Nat : longer \in [1..m -> C(k) \cup {k + 1}]
        BY <3>4 DEF Lists
      <4> HIDE DEF longer, n
      <4> QED
        BY <4>2, <4>3 DEF longer, n
    <3> DEFINE longer == s \o <<k + 1>>
               D == C(k + 1)
               m == Cardinality(D)
    <3>7. m \in Nat /\ longer \in [1..m -> D] /\ ToSet(longer) = D /\ Increasing(longer) /\ IsFiniteSet(D)
      <4>1. ToSet(longer) = D /\ Increasing(longer)
        BY <3>1, <3>4 DEF Lists
      <4> QED
        BY <2>1, <3>1, <3>5, <3>6, <4>1
    <3> HIDE DEF longer, D
    <3>8. Q(D)
      BY <3>7
    <3> QED
      BY <3>8 DEF D
  <2> QED
    BY <2>2, <2>3
<1>3. C(N) = P
  OBVIOUS
<1> HIDE DEF C, T, Q
<1>4. N \in T
  BY <1>1, <1>2, SetInduction
<1>7. N <= N
  OBVIOUS
<1>8. Q(P)
  BY <1>3, <1>4, <1>7 DEF T
<1>5. /\ Cardinality(P) \in Nat
      /\ \E s \in [1..Cardinality(P) -> P] : ToSet(s) = P /\ Increasing(s)
  BY <1>8 DEF Q
<1>6. InOrder(P) \in [1..Cardinality(P) -> P] /\ ToSet(InOrder(P)) = P /\ Increasing(InOrder(P))
  BY <1>5, Zenon DEF InOrder
<1> QED
  BY <1>5, <1>6 DEF Lists

-----------------------------------------------------------------------------
(* Blocks and the pieces in them *)

(* A further block, which is empty. *)
Opened(blocks, after, kind) ==
    /\ Len(blocks) \in Nat /\ DOMAIN blocks = 1..Len(blocks)
    /\ Len(after) = Len(blocks) + 1 /\ DOMAIN after = 1..Len(blocks) + 1
    /\ after[Len(blocks) + 1] = [kind |-> kind, pieces |-> <<>>]
    /\ \A i \in DOMAIN blocks : after[i] = blocks[i]

(* A block of which the pieces are others. *)
Filled(blocks, after, at, pieces) ==
    /\ Len(blocks) \in Nat /\ DOMAIN blocks = 1..Len(blocks)
    /\ Len(after) = Len(blocks) /\ DOMAIN after = DOMAIN blocks
    /\ after[at].pieces = pieces
    /\ \A i \in DOMAIN blocks : after[i].kind = blocks[i].kind
    /\ \A i \in DOMAIN blocks : i # at => after[i].pieces = blocks[i].pieces

Joined(home, piece, at) == [p \in DOMAIN home \cup {piece} |-> IF p = piece THEN at ELSE home[p]]

(* A further block has no pieces. *)
LEMMA OpenPlaces ==
    ASSUME NEW blocks, NEW sent, NEW home, Placed(blocks, sent, home),
           NEW after, NEW kind, Opened(blocks, after, kind)
    PROVE  Placed(after, sent, home) /\ At(home, Len(blocks) + 1) = {}
<1> DEFINE N == Len(blocks)
<1>1. /\ N \in Nat /\ DOMAIN blocks = 1..N /\ DOMAIN after = 1..N + 1
      /\ after[N + 1].pieces = <<>> /\ \A i \in 1..N : after[i] = blocks[i]
  BY DEF Opened
<1> HIDE DEF N
<1>2. DOMAIN blocks \subseteq DOMAIN after /\ N + 1 \notin DOMAIN blocks
  BY <1>1
<1>3. At(home, N + 1) = {}
  BY <1>2 DEF Placed, At
<1>4. \A at \in DOMAIN after : Lists(after[at].pieces, At(home, at))
  <2> SUFFICES ASSUME NEW at \in DOMAIN after PROVE Lists(after[at].pieces, At(home, at))
    OBVIOUS
  <2>1. CASE at = N + 1
    BY <1>1, <1>3, <2>1, NothingLists
  <2>2. CASE at \in 1..N
    BY <1>1, <2>2 DEF Placed
  <2> QED
    BY <1>1, <2>1, <2>2
<1>5. \A p \in DOMAIN sent : home[p] \in DOMAIN after /\ after[home[p]].kind = sent[p].kind
  BY <1>1, <1>2 DEF Placed
<1> QED
  BY <1>3, <1>4, <1>5 DEF Placed, N

(* The pieces of the block are said anew. *)
LEMMA FillPlaces ==
    ASSUME NEW blocks, NEW sent, NEW home, Placed(blocks, sent, home),
           NEW after, NEW at, NEW pieces, Filled(blocks, after, at, pieces), Lists(pieces, At(home, at))
    PROVE  Placed(after, sent, home)
<1>1. \A i \in DOMAIN after : Lists(after[i].pieces, At(home, i))
  BY DEF Placed, Filled
<1>2. \A p \in DOMAIN sent : home[p] \in DOMAIN after /\ after[home[p]].kind = sent[p].kind
  BY DEF Placed, Filled
<1> QED
  BY <1>1, <1>2 DEF Placed

(* Which pieces a further piece of number n may join. *)
MayJoin(sent, home, at, n) ==
    /\ n # 0 => \A q \in DOMAIN sent : home[q] = at <=> sent[q].n = n
    /\ n = 0 => \A q \in DOMAIN sent : home[q] = at => sent[q].n = 0

(* The next piece at the end of a block it may join. *)
LEMMA GrowPlaces ==
    ASSUME NEW blocks, NEW S, NEW sent \in Seq(S), NEW home, Placed(blocks, sent, home),
           NEW after, NEW at \in DOMAIN blocks, NEW piece, blocks[at].kind = piece.kind,
           Filled(blocks, after, at, blocks[at].pieces \o <<Len(sent) + 1>>),
           MayJoin(sent, home, at, piece.n)
    PROVE  Placed(after, Append(sent, piece), Joined(home, Len(sent) + 1, at))
<1> DEFINE N == Len(sent)
           more == Append(sent, piece)
           there == Joined(home, N + 1, at)
<1>1. /\ N \in Nat /\ DOMAIN sent = 1..N /\ DOMAIN more = 1..N + 1
      /\ more[N + 1] = piece /\ \A q \in 1..N : more[q] = sent[q]
  <2>1. sent \in Seq(S \cup {piece}) /\ piece \in S \cup {piece}
    OBVIOUS
  <2> QED
    BY <2>1
<1> HIDE DEF more, N
<1>2. DOMAIN home = 1..N
  BY <1>1 DEF Placed
<1>3. /\ DOMAIN there = 1..N + 1 /\ there[N + 1] = at /\ \A q \in 1..N : there[q] = home[q]
  BY <1>1, <1>2 DEF Joined
<1>4. At(there, at) = At(home, at) \cup {N + 1} /\ \A i : i # at => At(there, i) = At(home, i)
  BY <1>1, <1>2, <1>3 DEF At
<1> HIDE DEF there
<1>5. \A i \in DOMAIN after : Lists(after[i].pieces, At(there, i))
  <2> SUFFICES ASSUME NEW i \in DOMAIN blocks PROVE Lists(after[i].pieces, At(there, i))
    BY DEF Filled
  <2>1. CASE i = at
    <3>1. Lists(blocks[at].pieces, At(home, at)) /\ At(home, at) \in SUBSET (1..N)
      BY <1>2 DEF Placed, At
    <3>2. Lists(blocks[at].pieces \o <<N + 1>>, At(home, at) \cup {N + 1})
      BY <1>1, <3>1, MoreIsListed
    <3>3. after[at].pieces = blocks[at].pieces \o <<N + 1>>
      BY DEF Filled, N
    <3> QED
      BY <1>4, <2>1, <3>2, <3>3
  <2>2. CASE i # at
    BY <1>4, <2>2 DEF Placed, Filled
  <2> QED
    BY <2>1, <2>2
<1>6. \A q \in DOMAIN more : there[q] \in DOMAIN after /\ after[there[q]].kind = more[q].kind
  <2> SUFFICES ASSUME NEW q \in 1..N + 1
               PROVE  there[q] \in DOMAIN after /\ after[there[q]].kind = more[q].kind
    BY <1>1
  <2>1. CASE q = N + 1
    <3>1. there[q] = at /\ more[q] = piece /\ at \in DOMAIN after
      BY <1>1, <1>3, <2>1 DEF Filled
    <3>2. after[at].kind = blocks[at].kind
      BY DEF Filled
    <3> QED
      BY <3>1, <3>2
  <2>2. CASE q \in 1..N
    <3>1. home[q] \in DOMAIN blocks /\ blocks[home[q]].kind = sent[q].kind
      BY <1>1, <2>2 DEF Placed
    <3>2. there[q] = home[q] /\ more[q] = sent[q]
      BY <1>1, <1>3, <2>2
    <3>3. DOMAIN after = DOMAIN blocks /\ after[home[q]].kind = blocks[home[q]].kind
      BY <3>1 DEF Filled
    <3> QED
      BY <3>1, <3>2, <3>3
  <2> QED
    BY <1>1, <2>1, <2>2
<1>7. ASSUME NEW p \in DOMAIN more, NEW q \in DOMAIN more, more[p].n # 0
      PROVE  there[q] = there[p] <=> more[q].n = more[p].n
  <2>1. CASE p = N + 1 /\ q = N + 1
    BY <2>1
  <2>2. CASE p = N + 1 /\ q \in 1..N
    BY <1>1, <1>3, <1>7, <2>2 DEF MayJoin
  <2>3. CASE p \in 1..N /\ q = N + 1
    <3>1. home[p] = at <=> sent[p].n = piece.n
      BY <1>1, <1>7, <2>3 DEF MayJoin
    <3> QED
      BY <1>1, <1>3, <2>3, <3>1
  <2>4. CASE p \in 1..N /\ q \in 1..N
    BY <1>1, <1>3, <1>7, <2>4 DEF Placed
  <2> QED
    BY <1>1, <2>1, <2>2, <2>3, <2>4
<1>8. Placed(after, more, there)
  BY <1>1, <1>3, <1>5, <1>6, <1>7 DEF Placed
<1> QED
  BY <1>8 DEF more, there, N

-----------------------------------------------------------------------------
(* What the operations on an output leave *)

Kinded(o, p) ==
    /\ DOMAIN o.blocks \subseteq DOMAIN p.blocks
    /\ \A at \in DOMAIN o.blocks : p.blocks[at].kind = o.blocks[at].kind

Beside(o, p) == p.slots = o.slots /\ p.current = o.current

(* The blocks of an output are numbered from 1. *)
LEMMA OutputLen ==
    ASSUME NEW o, Sync(o)
    PROVE  Len(o.blocks) \in Nat /\ DOMAIN o.blocks = 1..Len(o.blocks)
<1>1. PICK S : o.blocks \in Seq(S)
  BY DEF Sync, BlockRecords
<1> QED
  BY <1>1

(* A block is opened. *)
LEMMA OpenMakes ==
    ASSUME NEW o, Sync(o), NEW kind, NEW U, Told(o.log, Len(o.blocks), U)
    PROVE  /\ Opened(o.blocks, Open(o, kind).blocks, kind) /\ Beside(o, Open(o, kind))
           /\ Told(Open(o, kind).log, Len(o.blocks) + 1, U \cup {Len(o.blocks) + 1})
<1> DEFINE block == [kind |-> kind, pieces |-> <<>>]
           more == Append(o.blocks, block)
           at == Len(o.blocks) + 1
           event == [type |-> "block_start", kind |-> more[at].kind, at |-> at, data |-> <<>>]
           p == Open(o, kind)
<1>1. event.type = "block_start" /\ event.at = at
  OBVIOUS
<1>2. p.blocks = more /\ p.log = Append(o.log, event) /\ p.slots = o.slots /\ p.current = o.current
  <2>1. p = [[o EXCEPT !.blocks = more] EXCEPT !.log = Append(@, [type |-> "block_start",
                kind |-> [o EXCEPT !.blocks = more].blocks[at].kind, at |-> at, data |-> <<>>])]
    BY DEF Open, Emit
  <2>2. [o EXCEPT !.blocks = more].blocks = more
    <3> HIDE DEF more
    <3> QED
      BY DEF Sync, Output
  <2>3. p = [[o EXCEPT !.blocks = more] EXCEPT !.log = Append(@, event)]
    BY <2>1, <2>2
  <2> HIDE DEF p, more, event
  <2> QED
    BY <2>3 DEF Sync, Output
<1>3. PICK S, E : o.blocks \in Seq(S) /\ o.log \in Seq(E)
  BY DEF Sync, BlockRecords
<1>4. Opened(o.blocks, more, kind)
  <2>1. o.blocks \in Seq(S \cup {block}) /\ block \in S \cup {block}
    BY <1>3
  <2> HIDE DEF block
  <2>2. /\ Len(o.blocks) \in Nat /\ DOMAIN o.blocks = 1..Len(o.blocks)
        /\ Len(more) = Len(o.blocks) + 1 /\ DOMAIN more = 1..Len(o.blocks) + 1
        /\ more[Len(o.blocks) + 1] = block
        /\ \A i \in DOMAIN o.blocks : more[i] = o.blocks[i]
    BY <2>1
  <2> QED
    BY <2>2 DEF Opened, block
<1>5. Len(o.blocks) \in Nat
  BY <1>3
<1> HIDE DEF event, p, more
<1>6. Told(p.log, at, U \cup {at})
  BY <1>1, <1>2, <1>3, <1>5, StartIsTold
<1> QED
  BY <1>2, <1>4, <1>6 DEF p, Beside

(* Blocks of which one is given other pieces. *)
LEMMA Refilled ==
    ASSUME NEW blocks, BlockRecords(blocks), NEW at \in DOMAIN blocks, NEW pieces
    PROVE  Filled(blocks, [blocks EXCEPT ![at].pieces = pieces], at, pieces)
<1> DEFINE after == [blocks EXCEPT ![at].pieces = pieces]
<1>1. PICK S : blocks \in Seq(S)
  BY DEF BlockRecords
<1>2. /\ DOMAIN after = DOMAIN blocks /\ after = [i \in DOMAIN blocks |-> after[i]]
      /\ after[at] = [blocks[at] EXCEPT !.pieces = pieces]
      /\ \A i \in DOMAIN blocks : i # at => after[i] = blocks[i]
  OBVIOUS
<1> HIDE DEF after
<1>3. Len(blocks) \in Nat /\ DOMAIN blocks = 1..Len(blocks)
  BY <1>1
<1>4. Len(after) = Len(blocks)
  <2> DEFINE R == {after[i] : i \in DOMAIN blocks}
  <2>1. after \in [1..Len(blocks) -> R]
    BY <1>2, <1>3
  <2> HIDE DEF R
  <2> QED
    BY <1>3, <2>1
<1>5. blocks[at] = [kind |-> blocks[at].kind, pieces |-> blocks[at].pieces]
  BY DEF BlockRecords
<1>6. after[at].pieces = pieces /\ after[at].kind = blocks[at].kind
  BY <1>2, <1>5
<1> QED
  BY <1>2, <1>3, <1>4, <1>6 DEF Filled, after

(* A block grows by a piece. *)
LEMMA GrowMakes ==
    ASSUME NEW o, Sync(o), NEW at \in DOMAIN o.blocks, NEW piece,
           NEW U, at \in U, Told(o.log, Len(o.blocks), U)
    PROVE  /\ Filled(o.blocks, Grow(o, at, piece).blocks, at, o.blocks[at].pieces \o <<piece>>)
           /\ Beside(o, Grow(o, at, piece))
           /\ Told(Grow(o, at, piece).log, Len(o.blocks), U)
<1> DEFINE longer == o.blocks[at].pieces \o <<piece>>
           more == [o.blocks EXCEPT ![at].pieces = longer]
           event == [type |-> "block_delta", kind |-> more[at].kind, at |-> at, data |-> <<piece>>]
           p == Grow(o, at, piece)
<1>1. event.type = "block_delta" /\ event.at = at
  OBVIOUS
<1>2. p.blocks = more /\ p.log = Append(o.log, event) /\ p.slots = o.slots /\ p.current = o.current
  <2> DEFINE q == [o EXCEPT !.blocks[at].pieces = @ \o <<piece>>]
  <2>1. p = [q EXCEPT !.log = Append(@, [type |-> "block_delta",
                kind |-> q.blocks[at].kind, at |-> at, data |-> <<piece>>])]
    BY DEF Grow, Emit
  <2>2. q = [o EXCEPT !.blocks = more]
    OBVIOUS
  <2> HIDE DEF q, more
  <2>3. q.blocks = more /\ q.log = o.log /\ q.slots = o.slots /\ q.current = o.current /\ Output(q)
    BY <2>2 DEF Sync, Output
  <2>4. p = [q EXCEPT !.log = Append(@, event)]
    BY <2>1, <2>3
  <2> HIDE DEF p, event
  <2> QED
    BY <2>3, <2>4 DEF Output
<1>3. PICK E : o.log \in Seq(E)
  BY DEF Sync
<1>4. Filled(o.blocks, more, at, longer)
  <2> HIDE DEF longer
  <2> QED
    BY Refilled DEF Sync
<1>5. Len(o.blocks) \in Nat /\ at \in 1..Len(o.blocks)
  BY OutputLen
<1> HIDE DEF event, p, more, longer
<1>6. Told(p.log, Len(o.blocks), U)
  BY <1>1, <1>2, <1>3, <1>5, DeltaIsTold
<1> QED
  BY <1>2, <1>4, <1>6 DEF p, longer, Beside

(* p is o after the block at has ended with the pieces in whole. *)
EndedWith(o, p, at, whole) == p = Close([o EXCEPT !.blocks[at].pieces = whole], at)

(* A block that is given its pieces and ends leaves events and blocks in step. *)
LEMMA EndedWithKeeps ==
    ASSUME NEW o, Sync(o), NEW at, NEW whole, NEW p, EndedWith(o, p, at, whole)
    PROVE  Sync(p)
  BY CloseWithKeeps DEF EndedWith

(* A block that is given its pieces and ends. *)
LEMMA CloseWithMakes ==
    ASSUME NEW o, Sync(o), NEW at \in DOMAIN o.blocks, NEW whole,
           NEW U, at \in U, Told(o.log, Len(o.blocks), U),
           NEW p, EndedWith(o, p, at, whole)
    PROVE  /\ Filled(o.blocks, p.blocks, at, whole) /\ Beside(o, p)
           /\ Told(p.log, Len(o.blocks), U \ {at})
<1> DEFINE more == [o.blocks EXCEPT ![at].pieces = whole]
           event == [type |-> "block_end", kind |-> more[at].kind, at |-> at, data |-> more[at].pieces]
<1>1. event.type = "block_end" /\ event.at = at
  OBVIOUS
<1>2. p.blocks = more /\ p.log = Append(o.log, event) /\ p.slots = o.slots /\ p.current = o.current
  <2> DEFINE q == [o EXCEPT !.blocks[at].pieces = whole]
  <2>1. p = [q EXCEPT !.log = Append(@, [type |-> "block_end",
                kind |-> q.blocks[at].kind, at |-> at, data |-> q.blocks[at].pieces])]
    BY DEF EndedWith, Close, Emit
  <2>2. q = [o EXCEPT !.blocks = more]
    OBVIOUS
  <2> HIDE DEF q, more
  <2>3. q.blocks = more /\ q.log = o.log /\ q.slots = o.slots /\ q.current = o.current /\ Output(q)
    BY <2>2 DEF Sync, Output
  <2>4. p = [q EXCEPT !.log = Append(@, event)]
    BY <2>1, <2>3
  <2> HIDE DEF event
  <2> QED
    BY <2>3, <2>4 DEF Output
<1>3. PICK E : o.log \in Seq(E)
  BY DEF Sync
<1>4. Filled(o.blocks, more, at, whole)
  BY Refilled DEF Sync
<1>5. Len(o.blocks) \in Nat /\ at \in 1..Len(o.blocks)
  BY OutputLen
<1> HIDE DEF event, more
<1>6. Told(p.log, Len(o.blocks), U \ {at})
  <2> DEFINE N == Len(o.blocks)
  <2>1. N \in Nat /\ event.at \in 1..N /\ event.at \in U /\ Told(o.log, N, U) /\ o.log \in Seq(E)
    BY <1>1, <1>3, <1>5
  <2> HIDE DEF N
  <2>2. Told(Append(o.log, event), N, U \ {event.at})
    BY <1>1, <2>1, EndIsTold
  <2> QED
    BY <1>1, <1>2, <2>2 DEF N
<1> QED
  BY <1>2, <1>4, <1>6 DEF Beside

(* A block that is ended with the pieces it has. *)
LEMMA SamePieces ==
    ASSUME NEW o, Sync(o), NEW at \in DOMAIN o.blocks
    PROVE  [o EXCEPT !.blocks[at].pieces = o.blocks[at].pieces] = o
<1> DEFINE same == [o.blocks EXCEPT ![at].pieces = o.blocks[at].pieces]
<1>1. same = o.blocks
  <2>1. PICK S : o.blocks \in Seq(S)
    BY DEF Sync, BlockRecords
  <2>2. o.blocks = [i \in DOMAIN o.blocks |-> o.blocks[i]]
    BY <2>1
  <2>3. [o.blocks[at] EXCEPT !.pieces = o.blocks[at].pieces] = o.blocks[at]
    BY DEF Sync, BlockRecords
  <2> QED
    BY <2>2, <2>3
<1>2. [o EXCEPT !.blocks[at].pieces = o.blocks[at].pieces] = [o EXCEPT !.blocks = same]
  OBVIOUS
<1>3. [o EXCEPT !.blocks = o.blocks] = o
  BY DEF Sync, Output
<1> QED
  BY <1>1, <1>2, <1>3

-----------------------------------------------------------------------------
(* An output in which every piece is where it belongs *)

Kept(o, sent, home, U) ==
    /\ Sync(o)
    /\ Placed(o.blocks, sent, home)
    /\ Slotted(o, sent, home)
    /\ Told(o.log, Len(o.blocks), U)

(* p is o in another state of the same blocks. *)
Moved(o, p, sent, home, U) ==
    /\ Kept(p, sent, home, U)
    /\ DOMAIN p.blocks = DOMAIN o.blocks /\ Len(p.blocks) = Len(o.blocks)
    /\ Kinded(o, p) /\ Beside(o, p)

(* p is o with a further block, which has a slot. *)
SlotOpened(o, p, sent, home, U, key, kind) ==
    /\ Kept(p, sent, home, U \cup {Len(p.blocks)})
    /\ Len(o.blocks) \in Nat /\ Len(p.blocks) = Len(o.blocks) + 1
    /\ p.blocks[Len(p.blocks)].kind = kind /\ p.blocks[Len(p.blocks)].pieces = <<>>
    /\ p.current = None
    /\ Len(p.blocks) \notin DOMAIN o.blocks /\ Len(p.blocks) \in DOMAIN p.blocks
    /\ Kinded(o, p)
    /\ DOMAIN p.slots = DOMAIN o.slots \cup {key} /\ p.slots[key] = Len(p.blocks)
    /\ \A k \in DOMAIN o.slots : p.slots[k] = o.slots[k]

(* The block at can take the piece. *)
Takes(o, sent, home, at, piece) ==
    /\ at \in DOMAIN o.blocks /\ o.blocks[at].kind = piece.kind
    /\ MayJoin(sent, home, at, piece.n)
    /\ \A k \in DOMAIN o.slots : o.slots[k] = at <=> KeyOf(piece) = k
    /\ o.current # None /\ at = Len(o.blocks) => piece.n = 0

(* A further block, as it is before anything refers to it. *)
LEMMA OpenKept ==
    ASSUME NEW o, NEW sent, NEW home, NEW U, Kept(o, sent, home, U), o.current = None, NEW kind,
           NEW p, p = Open(o, kind)
    PROVE  /\ Kept(p, sent, home, U \cup {Len(p.blocks)})
           /\ Len(o.blocks) \in Nat /\ Len(p.blocks) = Len(o.blocks) + 1
           /\ p.blocks[Len(p.blocks)] = [kind |-> kind, pieces |-> <<>>]
           /\ At(home, Len(p.blocks)) = {}
           /\ Len(p.blocks) \notin DOMAIN o.blocks /\ Len(p.blocks) \in DOMAIN p.blocks
           /\ Kinded(o, p) /\ Beside(o, p)
<1> DEFINE N == Len(o.blocks)
<1>1. Sync(o) /\ Placed(o.blocks, sent, home) /\ Slotted(o, sent, home) /\ Told(o.log, N, U)
  BY DEF Kept
<1>2. Opened(o.blocks, p.blocks, kind) /\ Beside(o, p) /\ Told(p.log, N + 1, U \cup {N + 1})
  BY <1>1, OpenMakes
<1>3. /\ N \in Nat /\ DOMAIN o.blocks = 1..N /\ Len(p.blocks) = N + 1 /\ DOMAIN p.blocks = 1..N + 1
      /\ p.blocks[N + 1] = [kind |-> kind, pieces |-> <<>>]
      /\ \A i \in 1..N : p.blocks[i] = o.blocks[i]
  BY <1>2 DEF Opened
<1> HIDE DEF N
<1>4. Placed(p.blocks, sent, home) /\ At(home, N + 1) = {}
  BY <1>1, <1>2, OpenPlaces DEF N
<1>5. 1..N \subseteq 1..N + 1 /\ N + 1 \notin 1..N /\ N + 1 \in 1..N + 1
  BY <1>3
<1>6. Slotted(p, sent, home)
  BY <1>1, <1>2, <1>3, <1>5 DEF Slotted, Beside
<1>7. Sync(p)
  BY <1>1, OpenKeeps
<1>8. Kinded(o, p)
  BY <1>3, <1>5 DEF Kinded
<1> QED
  BY <1>2, <1>3, <1>4, <1>5, <1>6, <1>7, <1>8 DEF Kept, N

(* A key for a block that has no pieces. *)
LEMMA SlotKept ==
    ASSUME NEW o, NEW sent, NEW home, NEW U, Kept(o, sent, home, U), o.current = None,
           NEW key, key \notin DOMAIN o.slots, \A q \in DOMAIN sent : KeyOf(sent[q]) # key,
           NEW at \in DOMAIN o.blocks, At(home, at) = {}, \A k \in DOMAIN o.slots : o.slots[k] # at,
           NEW p, p = Slot(o, key, at)
    PROVE  /\ Kept(p, sent, home, U)
           /\ p.blocks = o.blocks /\ p.current = o.current
           /\ DOMAIN p.slots = DOMAIN o.slots \cup {key} /\ p.slots[key] = at
           /\ \A k \in DOMAIN o.slots : p.slots[k] = o.slots[k]
<1> DEFINE slots == [k \in DOMAIN o.slots \cup {key} |-> IF k = key THEN at ELSE o.slots[k]]
<1>1. Sync(o) /\ Placed(o.blocks, sent, home) /\ Slotted(o, sent, home) /\ Told(o.log, Len(o.blocks), U)
  BY DEF Kept
<1>2. p = [o EXCEPT !.slots = slots]
  BY DEF Slot
<1>3. /\ DOMAIN slots = DOMAIN o.slots \cup {key} /\ slots[key] = at
      /\ \A k \in DOMAIN o.slots : slots[k] = o.slots[k]
  OBVIOUS
<1> HIDE DEF slots
<1>4. p.slots = slots /\ p.blocks = o.blocks /\ p.log = o.log /\ p.current = o.current
  BY <1>1, <1>2 DEF Sync, Output
<1>5. \A q \in DOMAIN sent : home[q] # at
  BY <1>1 DEF Placed, At
<1>6. Slotted(p, sent, home)
  <2>1. \A k \in DOMAIN p.slots : p.slots[k] \in DOMAIN p.blocks
    BY <1>1, <1>3, <1>4 DEF Slotted
  <2>2. \A k, l \in DOMAIN p.slots : p.slots[k] = p.slots[l] => k = l
    BY <1>1, <1>3, <1>4 DEF Slotted
  <2>3. \A k \in DOMAIN p.slots, q \in DOMAIN sent : home[q] = p.slots[k] <=> KeyOf(sent[q]) = k
    BY <1>1, <1>3, <1>4, <1>5 DEF Slotted
  <2> QED
    BY <1>4, <2>1, <2>2, <2>3 DEF Slotted
<1>7. Sync(p)
  BY <1>1, SlotKeeps
<1> QED
  BY <1>1, <1>3, <1>4, <1>6, <1>7 DEF Kept

(* A block for a key that has no pieces yet. *)
LEMMA OpenSlotKept ==
    ASSUME NEW o, NEW sent, NEW home, NEW U, Kept(o, sent, home, U), o.current = None,
           NEW key, key \notin DOMAIN o.slots, \A q \in DOMAIN sent : KeyOf(sent[q]) # key,
           NEW kind \in Kinds, NEW p, p = OpenSlot(o, key, kind)
    PROVE  SlotOpened(o, p, sent, home, U, key, kind)
<1> DEFINE m == Open(o, kind)
           N == Len(m.blocks)
<1>1. /\ Kept(m, sent, home, U \cup {N})
      /\ Len(o.blocks) \in Nat /\ N = Len(o.blocks) + 1
      /\ m.blocks[N].kind = kind /\ m.blocks[N].pieces = <<>>
      /\ At(home, N) = {}
      /\ N \notin DOMAIN o.blocks /\ N \in DOMAIN m.blocks
      /\ Kinded(o, m) /\ Beside(o, m)
  <2>1. /\ Kept(m, sent, home, U \cup {N})
        /\ Len(o.blocks) \in Nat /\ N = Len(o.blocks) + 1
        /\ m.blocks[N] = [kind |-> kind, pieces |-> <<>>]
        /\ At(home, N) = {}
        /\ N \notin DOMAIN o.blocks /\ N \in DOMAIN m.blocks
        /\ Kinded(o, m) /\ Beside(o, m)
    <3> DEFINE q == m
    <3>1. q = Open(o, kind)
      OBVIOUS
    <3> HIDE DEF q
    <3>2. /\ Kept(q, sent, home, U \cup {Len(q.blocks)})
          /\ Len(o.blocks) \in Nat /\ Len(q.blocks) = Len(o.blocks) + 1
          /\ q.blocks[Len(q.blocks)] = [kind |-> kind, pieces |-> <<>>]
          /\ At(home, Len(q.blocks)) = {}
          /\ Len(q.blocks) \notin DOMAIN o.blocks /\ Len(q.blocks) \in DOMAIN q.blocks
          /\ Kinded(o, q) /\ Beside(o, q)
      BY <3>1, OpenKept
    <3> QED
      BY <3>2 DEF q
  <2> HIDE DEF m, N
  <2> QED
    BY <2>1
<1>2. p = Slot(m, key, N)
  BY <1>1 DEF OpenSlot
<1> HIDE DEF m, N
<1>3. m.slots = o.slots /\ m.current = None
  BY <1>1 DEF Beside
<1>4. \A k \in DOMAIN m.slots : m.slots[k] # N
  BY <1>1, <1>3 DEF Kept, Slotted
<1>5. /\ Kept(p, sent, home, U \cup {N})
      /\ p.blocks = m.blocks /\ p.current = m.current
      /\ DOMAIN p.slots = DOMAIN m.slots \cup {key} /\ p.slots[key] = N
      /\ \A k \in DOMAIN m.slots : p.slots[k] = m.slots[k]
  BY <1>1, <1>2, <1>3, <1>4, SlotKept
<1> QED
  BY <1>1, <1>3, <1>5 DEF SlotOpened, Kinded, N

(* A slot is forgotten. *)
LEMMA UnslotKept ==
    ASSUME NEW o, NEW sent, NEW home, NEW U, Kept(o, sent, home, U),
           NEW key, NEW p, p = Unslot(o, key)
    PROVE  /\ Kept(p, sent, home, U)
           /\ p.blocks = o.blocks /\ p.current = o.current
           /\ DOMAIN p.slots = DOMAIN o.slots \ {key}
           /\ \A k \in DOMAIN p.slots : p.slots[k] = o.slots[k]
<1> DEFINE slots == [k \in DOMAIN o.slots \ {key} |-> o.slots[k]]
<1>1. Sync(o) /\ Placed(o.blocks, sent, home) /\ Slotted(o, sent, home) /\ Told(o.log, Len(o.blocks), U)
  BY DEF Kept
<1>2. p = [o EXCEPT !.slots = slots]
  BY DEF Unslot
<1>3. DOMAIN slots = DOMAIN o.slots \ {key} /\ \A k \in DOMAIN slots : slots[k] = o.slots[k]
  OBVIOUS
<1> HIDE DEF slots
<1>4. p.slots = slots /\ p.blocks = o.blocks /\ p.log = o.log /\ p.current = o.current
  BY <1>1, <1>2 DEF Sync, Output
<1>5. Slotted(p, sent, home)
  BY <1>1, <1>3, <1>4 DEF Slotted
<1>6. Sync(p)
  BY <1>1, UnslotKeeps
<1> QED
  BY <1>1, <1>3, <1>4, <1>5, <1>6 DEF Kept

(* The last block becomes the current one, or there is none. *)
LEMMA CurrentKept ==
    ASSUME NEW o, NEW sent, NEW home, NEW U, Kept(o, sent, home, U), NEW kind,
           kind # None =>
              /\ Len(o.blocks) > 0 /\ o.blocks[Len(o.blocks)].kind = kind
              /\ \A k \in DOMAIN o.slots : o.slots[k] # Len(o.blocks)
              /\ \A q \in DOMAIN sent : home[q] = Len(o.blocks) => sent[q].n = 0,
           NEW p, p = [o EXCEPT !.current = kind]
    PROVE  /\ Kept(p, sent, home, U)
           /\ p.blocks = o.blocks /\ p.slots = o.slots /\ p.current = kind
<1>1. Sync(o) /\ Placed(o.blocks, sent, home) /\ Slotted(o, sent, home) /\ Told(o.log, Len(o.blocks), U)
  BY DEF Kept
<1>2. p.slots = o.slots /\ p.blocks = o.blocks /\ p.log = o.log /\ p.current = kind
  BY <1>1 DEF Sync, Output
<1>3. Slotted(p, sent, home)
  BY <1>1, <1>2 DEF Slotted
<1>4. Sync(p)
  BY <1>1, CurrentKeeps
<1> QED
  BY <1>1, <1>2, <1>3, <1>4 DEF Kept

(* A block is given the pieces it should have and ends. *)
LEMMA CloseWithKept ==
    ASSUME NEW o, NEW sent, NEW home, NEW U, Kept(o, sent, home, U),
           NEW at \in DOMAIN o.blocks, at \in U, NEW whole, Lists(whole, At(home, at)),
           NEW p, EndedWith(o, p, at, whole)
    PROVE  Moved(o, p, sent, home, U \ {at})
<1>1. Sync(o) /\ Placed(o.blocks, sent, home) /\ Slotted(o, sent, home) /\ Told(o.log, Len(o.blocks), U)
  BY DEF Kept
<1>2. Filled(o.blocks, p.blocks, at, whole) /\ Beside(o, p) /\ Told(p.log, Len(o.blocks), U \ {at})
  BY <1>1, CloseWithMakes
<1>3. /\ DOMAIN p.blocks = DOMAIN o.blocks /\ Len(p.blocks) = Len(o.blocks)
      /\ Kinded(o, p)
  BY <1>2 DEF Filled, Kinded
<1>4. Placed(p.blocks, sent, home)
  BY <1>1, <1>2, FillPlaces
<1>5. Slotted(p, sent, home)
  <2>1. p.current # None => p.blocks[Len(p.blocks)].kind = p.current
    <3> SUFFICES ASSUME p.current # None PROVE p.blocks[Len(p.blocks)].kind = p.current
      OBVIOUS
    <3>1. Len(o.blocks) \in DOMAIN o.blocks /\ o.blocks[Len(o.blocks)].kind = o.current
      BY <1>1, <1>2, OutputLen DEF Slotted, Beside
    <3> QED
      BY <1>2, <1>3, <3>1 DEF Kinded, Beside
  <2>2. p.slots = o.slots /\ p.current = o.current
    BY <1>2 DEF Beside
  <2>3. \A k \in DOMAIN p.slots : p.slots[k] \in DOMAIN p.blocks
    BY <1>1, <1>3, <2>2 DEF Slotted
  <2>5. \A k, l \in DOMAIN p.slots : p.slots[k] = p.slots[l] => k = l
    BY <1>1, <2>2 DEF Slotted
  <2>6. \A k \in DOMAIN p.slots, q \in DOMAIN sent : home[q] = p.slots[k] <=> KeyOf(sent[q]) = k
    <3>1. Slotted(o, sent, home)
      BY <1>1
    <3> QED
      BY ONLY <2>2, <3>1 DEF Slotted
  <2>4. p.current # None =>
          /\ Len(p.blocks) > 0
          /\ \A k \in DOMAIN p.slots : p.slots[k] # Len(p.blocks)
          /\ \A q \in DOMAIN sent : home[q] = Len(p.blocks) => sent[q].n = 0
    BY <1>1, <1>3, <2>2 DEF Slotted
  <2> QED
    BY <2>1, <2>3, <2>4, <2>5, <2>6 DEF Slotted
<1>6. Sync(p)
  BY <1>1, EndedWithKeeps
<1> QED
  BY <1>2, <1>3, <1>4, <1>5, <1>6 DEF Kept, Moved

(* A block ends with the pieces it has. *)
LEMMA CloseKept ==
    ASSUME NEW o, NEW sent, NEW home, NEW U, Kept(o, sent, home, U),
           NEW at \in DOMAIN o.blocks, at \in U, NEW p, p = Close(o, at)
    PROVE  Moved(o, p, sent, home, U \ {at})
<1> DEFINE whole == o.blocks[at].pieces
<1>1. Lists(whole, At(home, at))
  BY DEF Kept, Placed
<1>2. EndedWith(o, p, at, whole)
  BY SamePieces DEF Kept, EndedWith
<1> HIDE DEF whole
<1> QED
  BY <1>1, <1>2, CloseWithKept

(* The next piece is put where it may be. *)
LEMMA NextPieceJoins ==
    ASSUME NEW o, NEW S, NEW sent \in Seq(S), NEW home,
           Sync(o), Placed(o.blocks, sent, home), Slotted(o, sent, home),
           NEW at, NEW piece, Takes(o, sent, home, at, piece),
           NEW p, Filled(o.blocks, p.blocks, at, o.blocks[at].pieces \o <<Len(sent) + 1>>), Beside(o, p)
    PROVE  /\ Placed(p.blocks, Append(sent, piece), Joined(home, Len(sent) + 1, at))
           /\ Slotted(p, Append(sent, piece), Joined(home, Len(sent) + 1, at))
           /\ DOMAIN p.blocks = DOMAIN o.blocks /\ Len(p.blocks) = Len(o.blocks)
           /\ Kinded(o, p)
<1> DEFINE new == Len(sent) + 1
           more == Append(sent, piece)
           there == Joined(home, new, at)
<1>1. /\ at \in DOMAIN o.blocks /\ o.blocks[at].kind = piece.kind
      /\ MayJoin(sent, home, at, piece.n)
  BY DEF Takes
<1>2. /\ \A k \in DOMAIN o.slots : o.slots[k] = at <=> KeyOf(piece) = k
      /\ o.current # None /\ at = Len(o.blocks) => piece.n = 0
  BY DEF Takes
<1>3. /\ DOMAIN p.blocks = DOMAIN o.blocks /\ Len(p.blocks) = Len(o.blocks)
      /\ Kinded(o, p)
  BY DEF Filled, Kinded
<1>4. Placed(p.blocks, more, there)
  BY <1>1, GrowPlaces
<1>5. /\ DOMAIN more = DOMAIN sent \cup {new} /\ new \notin DOMAIN sent /\ more[new] = piece
      /\ \A q \in DOMAIN sent : more[q] = sent[q]
  <2>1. sent \in Seq(S \cup {piece}) /\ piece \in S \cup {piece}
    OBVIOUS
  <2> QED
    BY <2>1
<1>6. there[new] = at /\ \A q \in DOMAIN sent : there[q] = home[q]
  <2>1. DOMAIN home = DOMAIN sent
    BY DEF Placed
  <2> HIDE DEF new
  <2> QED
    BY <1>5, <2>1 DEF Joined
<1> HIDE DEF new, more, there
<1>7. p.slots = o.slots /\ p.current = o.current
  BY DEF Beside
<1>8. \A k \in DOMAIN p.slots, q \in DOMAIN more : there[q] = p.slots[k] <=> KeyOf(more[q]) = k
  <2> SUFFICES ASSUME NEW k \in DOMAIN o.slots, NEW q \in DOMAIN sent \cup {new}
               PROVE  there[q] = o.slots[k] <=> KeyOf(more[q]) = k
    BY <1>5, <1>7
  <2>1. CASE q = new
    BY <1>2, <1>5, <1>6, <2>1
  <2>2. CASE q \in DOMAIN sent
    BY <1>5, <1>6, <2>2 DEF Slotted
  <2> QED
    BY <2>1, <2>2
<1>9. p.current # None => p.blocks[Len(p.blocks)].kind = p.current
  <2> SUFFICES ASSUME p.current # None PROVE p.blocks[Len(p.blocks)].kind = p.current
    OBVIOUS
  <2>1. Len(o.blocks) \in DOMAIN o.blocks /\ o.blocks[Len(o.blocks)].kind = o.current
    BY <1>7, OutputLen DEF Slotted
  <2> QED
    BY <1>3, <1>7, <2>1 DEF Kinded
<1>10. p.current # None => \A q \in DOMAIN more : there[q] = Len(p.blocks) => more[q].n = 0
  <2> SUFFICES ASSUME p.current # None, NEW q \in DOMAIN sent \cup {new}, there[q] = Len(p.blocks)
               PROVE  more[q].n = 0
    BY <1>5
  <2>1. CASE q = new
    BY <1>2, <1>3, <1>5, <1>6, <1>7, <2>1
  <2>2. CASE q \in DOMAIN sent
    BY <1>3, <1>5, <1>6, <1>7, <2>2 DEF Slotted
  <2> QED
    BY <2>1, <2>2
<1>11. \A k \in DOMAIN p.slots : p.slots[k] \in DOMAIN p.blocks
  BY <1>3, <1>7 DEF Slotted
<1>12. \A k, l \in DOMAIN p.slots : p.slots[k] = p.slots[l] => k = l
  BY <1>7 DEF Slotted
<1>13. p.current # None =>
         Len(p.blocks) > 0 /\ \A k \in DOMAIN p.slots : p.slots[k] # Len(p.blocks)
  BY <1>3, <1>7 DEF Slotted
<1>14. Slotted(p, more, there)
  BY <1>8, <1>9, <1>10, <1>11, <1>12, <1>13 DEF Slotted
<1> QED
  BY <1>3, <1>4, <1>14 DEF new, more, there

(* A block gets the next piece. *)
LEMMA GrowKept ==
    ASSUME NEW o, NEW S, NEW sent \in Seq(S), NEW home, NEW U, Kept(o, sent, home, U),
           NEW at, at \in U, NEW piece, Takes(o, sent, home, at, piece),
           NEW p, p = Grow(o, at, Len(sent) + 1)
    PROVE  Moved(o, p, Append(sent, piece), Joined(home, Len(sent) + 1, at), U)
<1>1. Sync(o) /\ Placed(o.blocks, sent, home) /\ Slotted(o, sent, home) /\ Told(o.log, Len(o.blocks), U)
  BY DEF Kept
<1>2. /\ Filled(o.blocks, p.blocks, at, o.blocks[at].pieces \o <<Len(sent) + 1>>) /\ Beside(o, p)
      /\ Told(p.log, Len(o.blocks), U) /\ Sync(p)
  BY <1>1, GrowMakes, GrowKeeps DEF Takes
<1>3. /\ Placed(p.blocks, Append(sent, piece), Joined(home, Len(sent) + 1, at))
      /\ Slotted(p, Append(sent, piece), Joined(home, Len(sent) + 1, at))
      /\ DOMAIN p.blocks = DOMAIN o.blocks /\ Len(p.blocks) = Len(o.blocks)
      /\ Kinded(o, p)
  BY <1>1, <1>2, NextPieceJoins
<1> QED
  BY <1>2, <1>3 DEF Kept, Moved

(* A block gets the next piece, which is its last, and ends without saying so. *)
LEMMA ItemKept ==
    ASSUME NEW o, NEW S, NEW sent \in Seq(S), NEW home, NEW U, Kept(o, sent, home, U),
           NEW at, at \in U, NEW piece, Takes(o, sent, home, at, piece),
           NEW p, EndedWith(o, p, at, o.blocks[at].pieces \o <<Len(sent) + 1>>)
    PROVE  Moved(o, p, Append(sent, piece), Joined(home, Len(sent) + 1, at), U \ {at})
<1>1. Sync(o) /\ Placed(o.blocks, sent, home) /\ Slotted(o, sent, home) /\ Told(o.log, Len(o.blocks), U)
  BY DEF Kept
<1>2. /\ Filled(o.blocks, p.blocks, at, o.blocks[at].pieces \o <<Len(sent) + 1>>) /\ Beside(o, p)
      /\ Told(p.log, Len(o.blocks), U \ {at})
  BY <1>1, CloseWithMakes DEF Takes
<1>3. Sync(p)
  BY <1>1, EndedWithKeeps
<1>4. /\ Placed(p.blocks, Append(sent, piece), Joined(home, Len(sent) + 1, at))
      /\ Slotted(p, Append(sent, piece), Joined(home, Len(sent) + 1, at))
      /\ DOMAIN p.blocks = DOMAIN o.blocks /\ Len(p.blocks) = Len(o.blocks)
      /\ Kinded(o, p)
  BY <1>1, <1>2, NextPieceJoins
<1> QED
  BY <1>2, <1>3, <1>4 DEF Kept, Moved

-----------------------------------------------------------------------------
(* The adapters whose provider numbers its blocks *)

Whole(o, w, home) ==
    /\ Kept(o, w.sent, home, Unended(o, w.blocks))
    /\ Slots(o, w)

Wire == [stage : {"calling", "streaming", "over"},
         blocks : Seq([kind : Kinds \cup {"other"}, open : BOOLEAN]),
         sent : Seq([kind : Kinds, n : Nat])]

(* The blocks whose provider's block is open. *)
Live(o, blocks) ==
    {at \in DOMAIN o.blocks :
        \E k \in DOMAIN o.slots : o.slots[k] = at /\ (api = "pi" => blocks[k].open)}

(* One more element. *)
LEMMA OneMore ==
    ASSUME NEW S, NEW s \in Seq(S), NEW e
    PROVE  /\ Len(s) \in Nat /\ DOMAIN s = 1..Len(s)
           /\ DOMAIN Append(s, e) = DOMAIN s \cup {Len(s) + 1} /\ Len(s) + 1 \notin DOMAIN s
           /\ Append(s, e)[Len(s) + 1] = e /\ \A i \in DOMAIN s : Append(s, e)[i] = s[i]
<1>1. s \in Seq(S \cup {e}) /\ e \in S \cup {e}
  OBVIOUS
<1> QED
  BY <1>1

(* What the definitions come to for these adapters. *)
LEMMA NumberedFacts ==
    ASSUME api \in Numbered, NEW o, NEW w
    PROVE  /\ Slots(o, w) = NumberedSlots(o, w) /\ api # "completions"
           /\ \A piece : KeyOf(piece) = piece.n
           /\ o.current = None => Unended(o, w.blocks) = Live(o, w.blocks)
<1>1. Slots(o, w) = NumberedSlots(o, w)
  BY DEF Slots, Numbered
<1>2. api # "completions"
  BY DEF Numbered
<1>3. \A piece : KeyOf(piece) = piece.n
  BY <1>2 DEF KeyOf
<1>4. o.current = None => Unended(o, w.blocks) = Live(o, w.blocks)
  BY <1>2 DEF Unended, Live
<1> QED
  BY <1>1, <1>2, <1>3, <1>4

(* v is w with block n, which is open. *)
Opens(w, v, n, kind) ==
    /\ v.sent = w.sent
    /\ DOMAIN v.blocks = DOMAIN w.blocks \cup {n}
    /\ v.blocks[n].kind = kind /\ v.blocks[n].open
    /\ \A k \in DOMAIN w.blocks \ {n} : v.blocks[k] = w.blocks[k]

(* A block with a slot of its own is opened. *)
LEMMA NumberedOpens ==
    ASSUME api \in Numbered, NEW o, NEW w, NEW home, Whole(o, w, home),
           NEW n, n \notin DOMAIN o.slots, \A q \in DOMAIN w.sent : w.sent[q].n # n,
           NEW kind \in Kinds, NEW v, Opens(w, v, n, kind),
           NEW p, p = OpenSlot(o, n, kind)
    PROVE  /\ Whole(p, v, home) /\ n \in DOMAIN p.slots
           /\ p.blocks[p.slots[n]].pieces = <<>>
           /\ p.slots[n] \in DOMAIN p.blocks /\ p.slots[n] \in Unended(p, v.blocks)
<1>1. /\ Kept(o, w.sent, home, Unended(o, w.blocks)) /\ NumberedSlots(o, w)
  BY NumberedFacts DEF Whole
<1>2. o.current = None
  BY <1>1 DEF NumberedSlots
<1> DEFINE N == Len(p.blocks)
<1>3. \A q \in DOMAIN w.sent : KeyOf(w.sent[q]) # n
  BY NumberedFacts
<1>4. /\ Kept(p, w.sent, home, Unended(o, w.blocks) \cup {N})
      /\ p.blocks[N].kind = kind /\ p.blocks[N].pieces = <<>> /\ p.current = None
      /\ N \notin DOMAIN o.blocks /\ N \in DOMAIN p.blocks
      /\ Kinded(o, p)
      /\ DOMAIN p.slots = DOMAIN o.slots \cup {n} /\ p.slots[n] = N
      /\ \A k \in DOMAIN o.slots : p.slots[k] = o.slots[k]
  <2> DEFINE U == Unended(o, w.blocks)
             sent == w.sent
  <2>1. Kept(o, sent, home, U) /\ \A q \in DOMAIN sent : KeyOf(sent[q]) # n
    BY <1>1, <1>3
  <2> HIDE DEF U, sent
  <2>2. SlotOpened(o, p, sent, home, U, n, kind)
    BY <1>2, <2>1, OpenSlotKept
  <2> QED
    BY <2>2 DEF U, sent, SlotOpened
<1> HIDE DEF N
<1>5. \A k \in DOMAIN o.slots : o.slots[k] \in DOMAIN o.blocks /\ o.slots[k] \in DOMAIN p.blocks /\ k # n
  BY <1>1, <1>4 DEF Kept, Slotted, Kinded
<1>6. \A k \in DOMAIN o.slots : k \in DOMAIN w.blocks /\ v.blocks[k] = w.blocks[k]
  BY <1>1, <1>5 DEF NumberedSlots, Opens
<1>7. Unended(p, v.blocks) = Unended(o, w.blocks) \cup {N}
  <2>1. Unended(p, v.blocks) = Live(p, v.blocks)
    BY <1>4, NumberedFacts
  <2>2. Unended(o, w.blocks) = Live(o, w.blocks)
    BY <1>2, NumberedFacts
  <2>3. v.blocks[n].open
    BY DEF Opens
  <2>4. ASSUME NEW at \in Unended(p, v.blocks) PROVE at \in Unended(o, w.blocks) \cup {N}
    BY <1>4, <1>5, <1>6, <2>1, <2>2, <2>4 DEF Live
  <2>5. ASSUME NEW at \in Unended(o, w.blocks) \cup {N} PROVE at \in Unended(p, v.blocks)
    BY <1>4, <1>5, <1>6, <2>1, <2>2, <2>3, <2>5 DEF Live
  <2> QED
    BY <2>4, <2>5
<1>8. NumberedSlots(p, v)
  <2>1. ASSUME NEW k \in DOMAIN p.slots
        PROVE  /\ k \in DOMAIN v.blocks
               /\ p.blocks[p.slots[k]].kind = v.blocks[k].kind
               /\ api # "pi" => v.blocks[k].open
    <3>1. CASE k = n
      BY <1>4, <3>1 DEF Opens
    <3>2. CASE k \in DOMAIN o.slots
      <4>1. k \in DOMAIN w.blocks /\ o.blocks[o.slots[k]].kind = w.blocks[k].kind
            /\ (api # "pi" => w.blocks[k].open)
        BY <1>1, <3>2 DEF NumberedSlots
      <4>2. p.blocks[p.slots[k]].kind = o.blocks[o.slots[k]].kind
        BY <1>4, <1>5, <3>2 DEF Kinded
      <4>3. v.blocks[k] = w.blocks[k] /\ k \in DOMAIN v.blocks
        BY <1>6, <3>2 DEF Opens
      <4> QED
        BY <4>1, <4>2, <4>3
    <3> QED
      BY <1>4, <3>1, <3>2
  <2>2. ASSUME NEW k \in DOMAIN v.blocks \ DOMAIN p.slots, v.blocks[k].open
        PROVE  \/ v.blocks[k].kind = "other" /\ api # "pi"
               \/ /\ api = "bedrock" /\ v.blocks[k].kind # "tool"
                  /\ \A q \in DOMAIN v.sent : v.sent[q].n # k
    <3>1. k \in DOMAIN w.blocks \ DOMAIN o.slots /\ k # n
      BY <1>4 DEF Opens
    <3>2. v.blocks[k] = w.blocks[k] /\ v.sent = w.sent
      BY <3>1 DEF Opens
    <3> QED
      BY <1>1, <2>2, <3>1, <3>2 DEF NumberedSlots
  <2>3. \A q \in DOMAIN v.sent : v.sent[q].n \in DOMAIN v.blocks
    BY <1>1 DEF NumberedSlots, Opens
  <2> QED
    BY <1>4, <2>1, <2>2, <2>3 DEF NumberedSlots
<1>9. v.sent = w.sent
  BY DEF Opens
<1>10. Whole(p, v, home)
  BY <1>4, <1>7, <1>8, <1>9, NumberedFacts DEF Whole
<1> QED
  BY <1>4, <1>7, <1>10

(* A block without a slot. *)
LEMMA NumberedIgnores ==
    ASSUME api \in Numbered, NEW o, NEW w, NEW home, Whole(o, w, home),
           NEW n, n \notin DOMAIN o.slots, \A q \in DOMAIN w.sent : w.sent[q].n # n,
           NEW kind, NEW v, Opens(w, v, n, kind),
           (kind = "other" /\ api # "pi") \/ (api = "bedrock" /\ kind # "tool")
    PROVE  Whole(o, v, home)
<1>1. Kept(o, w.sent, home, Unended(o, w.blocks)) /\ NumberedSlots(o, w) /\ o.current = None
  BY NumberedFacts DEF Whole, NumberedSlots
<1>2. \A k \in DOMAIN o.slots : k # n /\ k \in DOMAIN w.blocks /\ v.blocks[k] = w.blocks[k]
  BY <1>1 DEF NumberedSlots, Opens
<1>3. Unended(o, v.blocks) = Unended(o, w.blocks)
  BY <1>1, <1>2 DEF Unended
<1>4. NumberedSlots(o, v)
  <2>1. \A k \in DOMAIN o.slots :
               /\ k \in DOMAIN v.blocks
               /\ o.blocks[o.slots[k]].kind = v.blocks[k].kind
               /\ api # "pi" => v.blocks[k].open
    BY <1>1, <1>2 DEF NumberedSlots, Opens
  <2>2. ASSUME NEW k \in DOMAIN v.blocks \ DOMAIN o.slots, v.blocks[k].open
        PROVE  \/ v.blocks[k].kind = "other" /\ api # "pi"
               \/ /\ api = "bedrock" /\ v.blocks[k].kind # "tool"
                  /\ \A q \in DOMAIN v.sent : v.sent[q].n # k
    <3>1. CASE k = n
      BY <3>1 DEF Opens
    <3>2. CASE k # n
      <4>1. k \in DOMAIN w.blocks \ DOMAIN o.slots /\ v.blocks[k] = w.blocks[k] /\ v.sent = w.sent
        BY <3>2 DEF Opens
      <4> QED
        BY <1>1, <2>2, <4>1 DEF NumberedSlots
    <3> QED
      BY <3>1, <3>2
  <2>3. \A q \in DOMAIN v.sent : v.sent[q].n \in DOMAIN v.blocks
    BY <1>1 DEF NumberedSlots, Opens
  <2> QED
    BY <1>1, <2>1, <2>2, <2>3 DEF NumberedSlots
<1>5. v.sent = w.sent
  BY DEF Opens
<1> QED
  BY <1>1, <1>3, <1>4, <1>5, NumberedFacts DEF Whole

(* A block with a slot may be given a piece of its own. *)
LEMMA SlotMayGrow ==
    ASSUME api \in Numbered, NEW o, NEW w, NEW home, Whole(o, w, home),
           NEW n \in DOMAIN o.slots, w.blocks[n].open, n # 0
    PROVE  /\ o.slots[n] \in DOMAIN o.blocks /\ o.slots[n] \in Unended(o, w.blocks)
           /\ o.blocks[o.slots[n]].kind = w.blocks[n].kind
           /\ \A q \in DOMAIN w.sent : home[q] = o.slots[n] <=> w.sent[q].n = n
           /\ MayJoin(w.sent, home, o.slots[n], n)
           /\ \A k \in DOMAIN o.slots : o.slots[k] = o.slots[n] <=> n = k
           /\ o.current = None /\ n \in DOMAIN w.blocks
<1>1. Kept(o, w.sent, home, Unended(o, w.blocks)) /\ NumberedSlots(o, w) /\ o.current = None
  BY NumberedFacts DEF Whole, NumberedSlots
<1>2. /\ o.slots[n] \in DOMAIN o.blocks
      /\ \A k \in DOMAIN o.slots : o.slots[k] = o.slots[n] <=> n = k
      /\ \A q \in DOMAIN w.sent : home[q] = o.slots[n] <=> KeyOf(w.sent[q]) = n
  BY <1>1 DEF Kept, Slotted
<1>3. \A q \in DOMAIN w.sent : home[q] = o.slots[n] <=> w.sent[q].n = n
  BY <1>2, NumberedFacts
<1>4. o.slots[n] \in Unended(o, w.blocks)
  BY <1>2 DEF Unended
<1>5. MayJoin(w.sent, home, o.slots[n], n)
  BY <1>3 DEF MayJoin
<1> QED
  BY <1>1, <1>2, <1>3, <1>4, <1>5 DEF NumberedSlots

(* The block of a slot gets a piece. *)
LEMMA NumberedGrows ==
    ASSUME api \in Numbered, NEW o, NEW w \in Wire, NEW home, Whole(o, w, home),
           NEW n \in DOMAIN o.slots, w.blocks[n].open, n # 0,
           NEW piece, piece.n = n, piece.kind = w.blocks[n].kind,
           NEW v, v.blocks = w.blocks, v.sent = Append(w.sent, piece),
           NEW p, p = Grow(o, o.slots[n], Len(w.sent) + 1)
    PROVE  \E there : Whole(p, v, there)
<1> DEFINE at == o.slots[n]
           there == Joined(home, Len(w.sent) + 1, at)
<1>1. Takes(o, w.sent, home, at, piece) /\ at \in Unended(o, w.blocks)
      /\ o.current = None /\ n \in DOMAIN w.blocks
  <2>1. KeyOf(piece) = n
    BY NumberedFacts
  <2>2. /\ at \in DOMAIN o.blocks /\ at \in Unended(o, w.blocks)
        /\ o.blocks[at].kind = piece.kind /\ MayJoin(w.sent, home, at, piece.n)
        /\ \A k \in DOMAIN o.slots : o.slots[k] = at <=> n = k
        /\ o.current = None /\ n \in DOMAIN w.blocks
    BY SlotMayGrow
  <2> HIDE DEF at
  <2> QED
    BY <2>1, <2>2 DEF Takes
<1>2. Kept(o, w.sent, home, Unended(o, w.blocks)) /\ NumberedSlots(o, w)
  BY NumberedFacts DEF Whole
<1>3. w.sent \in Seq([kind : Kinds, n : Nat])
  BY DEF Wire
<1> HIDE DEF at
<1>4. /\ Kept(p, v.sent, there, Unended(o, w.blocks))
      /\ DOMAIN p.blocks = DOMAIN o.blocks /\ Len(p.blocks) = Len(o.blocks)
      /\ Kinded(o, p) /\ Beside(o, p)
  <2> DEFINE U == Unended(o, w.blocks)
             sent == w.sent
  <2>1. /\ Kept(o, sent, home, U) /\ sent \in Seq([kind : Kinds, n : Nat])
        /\ at \in U /\ Takes(o, sent, home, at, piece) /\ p = Grow(o, at, Len(sent) + 1)
    BY <1>1, <1>2, <1>3 DEF at
  <2> HIDE DEF U, sent
  <2>2. Moved(o, p, Append(sent, piece), Joined(home, Len(sent) + 1, at), U)
    BY <2>1, GrowKept
  <2> QED
    BY <2>2 DEF U, sent, Moved
<1> HIDE DEF there
<1>5. Unended(p, v.blocks) = Unended(o, w.blocks)
  BY <1>4 DEF Unended, Beside
<1>6. \A q \in DOMAIN v.sent : v.sent[q].n \in DOMAIN w.blocks /\ (v.sent[q].n = n \/ \E r \in DOMAIN w.sent : v.sent[q].n = w.sent[r].n)
  <2>2. /\ DOMAIN v.sent = DOMAIN w.sent \cup {Len(w.sent) + 1}
        /\ v.sent[Len(w.sent) + 1] = piece /\ \A q \in DOMAIN w.sent : v.sent[q] = w.sent[q]
    BY <1>3, OneMore
  <2> QED
    BY <1>1, <1>2, <2>2 DEF NumberedSlots
<1>7. NumberedSlots(p, v)
  <2>1. p.slots = o.slots /\ p.current = None /\ v.blocks = w.blocks
    BY <1>1, <1>4 DEF Beside
  <2>2. \A k \in DOMAIN p.slots :
               /\ k \in DOMAIN v.blocks
               /\ p.blocks[p.slots[k]].kind = v.blocks[k].kind
               /\ api # "pi" => v.blocks[k].open
    <3>1. \A k \in DOMAIN o.slots : o.slots[k] \in DOMAIN o.blocks
      BY <1>2 DEF Kept, Slotted
    <3> QED
      BY <1>2, <1>4, <2>1, <3>1 DEF NumberedSlots, Kinded
  <2>3. ASSUME NEW k \in DOMAIN v.blocks \ DOMAIN p.slots, v.blocks[k].open
        PROVE  \/ v.blocks[k].kind = "other" /\ api # "pi"
               \/ /\ api = "bedrock" /\ v.blocks[k].kind # "tool"
                  /\ \A q \in DOMAIN v.sent : v.sent[q].n # k
    <3>1. k # n
      BY <2>1
    <3> QED
      BY <1>2, <1>6, <2>1, <2>3, <3>1 DEF NumberedSlots
  <2> QED
    BY <1>6, <2>1, <2>2, <2>3 DEF NumberedSlots
<1>8. Whole(p, v, there)
  BY <1>4, <1>5, <1>7, NumberedFacts DEF Whole
<1> QED
  BY <1>8

(* v is w with block n closed, and perhaps a piece of it. *)
Closes(w, v, n) ==
    /\ DOMAIN v.blocks = DOMAIN w.blocks
    /\ v.blocks[n].kind = w.blocks[n].kind /\ ~v.blocks[n].open
    /\ \A k \in DOMAIN w.blocks \ {n} : v.blocks[k] = w.blocks[k]
    /\ \A q \in DOMAIN v.sent : v.sent[q].n = n \/ \E r \in DOMAIN w.sent : v.sent[q].n = w.sent[r].n

(* q is o with the block of slot n ended; all but pi forget the slot. *)
LEMMA NumberedEnds ==
    ASSUME api \in Numbered, NEW o, NEW w, NEW home, Whole(o, w, home),
           NEW n \in DOMAIN o.slots, w.blocks[n].open, NEW v, Closes(w, v, n),
           NEW q, NEW there, Kept(q, v.sent, there, Unended(o, w.blocks) \ {o.slots[n]}),
           DOMAIN q.blocks = DOMAIN o.blocks, Kinded(o, q), Beside(o, q),
           NEW p, p = IF api = "pi" THEN q ELSE Unslot(q, n)
    PROVE  Whole(p, v, there)
<1> DEFINE U == Unended(o, w.blocks) \ {o.slots[n]}
<1>1. Kept(o, w.sent, home, Unended(o, w.blocks)) /\ NumberedSlots(o, w) /\ o.current = None
  BY NumberedFacts DEF Whole, NumberedSlots
<1>2. /\ Kept(p, v.sent, there, U) /\ p.blocks = q.blocks /\ p.current = None
      /\ DOMAIN p.slots = IF api = "pi" THEN DOMAIN o.slots ELSE DOMAIN o.slots \ {n}
      /\ \A k \in DOMAIN p.slots : p.slots[k] = o.slots[k]
  <2>1. q.slots = o.slots /\ q.current = None
    BY <1>1 DEF Beside
  <2>2. CASE api = "pi"
    BY <2>1, <2>2
  <2>3. CASE api # "pi"
    <3>1. p = Unslot(q, n)
      BY <2>3
    <3>2. Kept(q, v.sent, there, U)
      OBVIOUS
    <3> HIDE DEF U
    <3>3. /\ Kept(p, v.sent, there, U)
          /\ p.blocks = q.blocks /\ p.current = q.current
          /\ DOMAIN p.slots = DOMAIN q.slots \ {n}
          /\ \A k \in DOMAIN p.slots : p.slots[k] = q.slots[k]
      BY <3>1, <3>2, UnslotKept
    <3> QED
      BY <2>1, <2>3, <3>3
  <2> QED
    BY <2>2, <2>3
<1>3. /\ \A k \in DOMAIN o.slots : o.slots[k] \in DOMAIN o.blocks /\ k \in DOMAIN w.blocks
      /\ \A k, l \in DOMAIN o.slots : o.slots[k] = o.slots[l] => k = l
  BY <1>1 DEF Kept, Slotted, NumberedSlots
<1>4. Unended(p, v.blocks) = U
  <2>1. Unended(p, v.blocks) = Live(p, v.blocks) /\ DOMAIN p.blocks = DOMAIN o.blocks
    BY <1>2, NumberedFacts
  <2>2. Unended(o, w.blocks) = Live(o, w.blocks)
    BY <1>1, NumberedFacts
  <2>3. ~v.blocks[n].open /\ \A k \in DOMAIN o.slots : k # n => v.blocks[k] = w.blocks[k]
    BY <1>3 DEF Closes
  <2>4. ASSUME NEW at \in Unended(p, v.blocks) PROVE at \in U
    <3>1. PICK k \in DOMAIN p.slots : p.slots[k] = at /\ (api = "pi" => v.blocks[k].open)
      BY <2>1 DEF Live
    <3>2. k # n /\ k \in DOMAIN o.slots /\ o.slots[k] = at
      BY <1>2, <2>3, <3>1
    <3>3. at \in Unended(o, w.blocks)
      BY <1>3, <2>2, <2>3, <3>1, <3>2 DEF Live
    <3>4. at # o.slots[n]
      BY <1>3, <3>2
    <3> QED
      BY <3>3, <3>4
  <2>5. ASSUME NEW at \in U PROVE at \in Unended(p, v.blocks)
    <3>1. PICK k \in DOMAIN o.slots : o.slots[k] = at /\ (api = "pi" => w.blocks[k].open)
      BY <2>2 DEF Live
    <3>2. k # n /\ k \in DOMAIN p.slots /\ p.slots[k] = at
      BY <1>2, <3>1
    <3> QED
      BY <1>3, <2>1, <2>3, <3>1, <3>2 DEF Live
  <2> QED
    BY <2>4, <2>5
<1> HIDE DEF U
<1>5. NumberedSlots(p, v)
  <2>1. ASSUME NEW k \in DOMAIN p.slots
        PROVE  /\ k \in DOMAIN v.blocks
               /\ p.blocks[p.slots[k]].kind = v.blocks[k].kind
               /\ api # "pi" => v.blocks[k].open
    <3>1. k \in DOMAIN o.slots /\ p.slots[k] = o.slots[k] /\ (api # "pi" => k # n)
      BY <1>2
    <3>2. k \in DOMAIN w.blocks /\ o.blocks[o.slots[k]].kind = w.blocks[k].kind
          /\ (api # "pi" => w.blocks[k].open)
      BY <1>1, <3>1 DEF NumberedSlots
    <3>3. p.blocks[p.slots[k]].kind = o.blocks[o.slots[k]].kind
      BY <1>2, <1>3, <3>1 DEF Kinded
    <3>4. v.blocks[k].kind = w.blocks[k].kind /\ k \in DOMAIN v.blocks
      BY <3>2 DEF Closes
    <3>5. k # n => v.blocks[k] = w.blocks[k]
      BY <3>2 DEF Closes
    <3> QED
      BY <3>1, <3>2, <3>3, <3>4, <3>5
  <2>2. ASSUME NEW k \in DOMAIN v.blocks \ DOMAIN p.slots, v.blocks[k].open
        PROVE  \/ v.blocks[k].kind = "other" /\ api # "pi"
               \/ /\ api = "bedrock" /\ v.blocks[k].kind # "tool"
                  /\ \A r \in DOMAIN v.sent : v.sent[r].n # k
    <3>1. k # n
      BY <2>2 DEF Closes
    <3>2. k \in DOMAIN w.blocks \ DOMAIN o.slots /\ v.blocks[k] = w.blocks[k]
      BY <1>2, <3>1 DEF Closes
    <3>3. \/ w.blocks[k].kind = "other" /\ api # "pi"
          \/ /\ api = "bedrock" /\ w.blocks[k].kind # "tool"
             /\ \A r \in DOMAIN w.sent : w.sent[r].n # k
      BY <1>1, <2>2, <3>2 DEF NumberedSlots
    <3>4. (\A r \in DOMAIN w.sent : w.sent[r].n # k) => \A r \in DOMAIN v.sent : v.sent[r].n # k
      BY <3>1 DEF Closes
    <3> QED
      BY <3>2, <3>3, <3>4
  <2>3. \A r \in DOMAIN v.sent : v.sent[r].n \in DOMAIN v.blocks
    BY <1>1, <1>3 DEF NumberedSlots, Closes
  <2> QED
    BY <1>2, <2>1, <2>2, <2>3 DEF NumberedSlots
<1> QED
  BY <1>2, <1>4, <1>5, NumberedFacts DEF Whole

(* A number the provider has not used. *)
LEMMA NewNumber ==
    ASSUME api \in Numbered, NEW o, NEW w \in Wire, NEW home, Whole(o, w, home)
    PROVE  /\ Len(w.blocks) + 1 \notin DOMAIN o.slots
           /\ \A q \in DOMAIN w.sent : w.sent[q].n # Len(w.blocks) + 1
<1>1. NumberedSlots(o, w)
  BY NumberedFacts DEF Whole
<1>2. DOMAIN w.blocks = 1..Len(w.blocks) /\ Len(w.blocks) \in Nat
  BY DEF Wire
<1>3. Len(w.blocks) + 1 \notin DOMAIN w.blocks
  BY <1>2
<1> QED
  BY <1>1, <1>3 DEF NumberedSlots

(* The next number is that of an open block. *)
LEMMA AppendOpens ==
    ASSUME NEW w \in Wire, NEW kind, NEW v, v.sent = w.sent,
           v.blocks = Append(w.blocks, [kind |-> kind, open |-> TRUE])
    PROVE  Opens(w, v, Len(w.blocks) + 1, kind)
<1> DEFINE block == [kind |-> kind, open |-> TRUE]
           n == Len(w.blocks) + 1
<1>1. w.blocks \in Seq([kind : Kinds \cup {"other"}, open : BOOLEAN])
  BY DEF Wire
<1>2. block.kind = kind /\ block.open
  OBVIOUS
<1> HIDE DEF block
<1>3. /\ DOMAIN v.blocks = DOMAIN w.blocks \cup {n}
      /\ v.blocks[n] = block /\ \A k \in DOMAIN w.blocks : v.blocks[k] = w.blocks[k]
  BY <1>1, OneMore DEF block
<1> HIDE DEF n
<1> QED
  BY <1>2, <1>3 DEF Opens, n

(* A block is announced. *)
LEMMA StartKeepsWhole ==
    ASSUME api \in Numbered, NEW o, NEW w \in Wire, NEW home, Whole(o, w, home),
           NEW kind \in Kinds \cup {"other"}, kind = "other" => api # "pi",
           NEW v, v.sent = w.sent, v.blocks = Append(w.blocks, [kind |-> kind, open |-> TRUE]),
           NEW e, e.type = "start", e.n = Len(w.blocks) + 1, e.kind = kind
    PROVE  Whole(Adapt(o, e), v, home)
<1> DEFINE n == Len(w.blocks) + 1
           p == Adapt(o, e)
<1>1. Opens(w, v, n, kind) /\ n \notin DOMAIN o.slots /\ \A q \in DOMAIN w.sent : w.sent[q].n # n
  BY AppendOpens, NewNumber
<1>2. CASE kind = "other" \/ (api = "bedrock" /\ kind # "tool")
  <2>1. kind = "other" => kind \notin Kinds
    BY DEF Kinds
  <2>2. p = o
    <3>1. CASE api = "anthropic"
      <4>1. kind \notin Kinds
        BY <1>2, <2>1, <3>1
      <4> QED
        BY <3>1, <4>1 DEF Adapt, Anthropic, OpenSlot
    <3>2. CASE api = "responses"
      <4>1. kind \notin Kinds
        BY <1>2, <2>1, <3>2
      <4> QED
        BY <3>2, <4>1 DEF Adapt, Responses, OpenSlot
    <3>3. CASE api = "bedrock"
      BY <1>2, <3>3 DEF Adapt, Bedrock
    <3> QED
      BY <1>2, <3>1, <3>2, <3>3 DEF Numbered
  <2> HIDE DEF n, p
  <2>3. (kind = "other" /\ api # "pi") \/ (api = "bedrock" /\ kind # "tool")
    BY <1>2
  <2>4. Whole(o, v, home)
    BY <1>1, <2>3, NumberedIgnores
  <2> QED
    BY <2>2, <2>4 DEF p
<1>3. CASE kind # "other" /\ (api = "bedrock" => kind = "tool")
  <2>1. p = OpenSlot(o, n, kind)
    BY <1>3 DEF Adapt, Numbered, Anthropic, Responses, Bedrock, Pi
  <2> HIDE DEF n, p
  <2>2. kind \in Kinds
    BY <1>3
  <2>3. Whole(p, v, home)
    BY <1>1, <2>1, <2>2, NumberedOpens
  <2> QED
    BY <2>3 DEF p
<1> QED
  BY <1>2, <1>3

(* A piece of an open block. *)
LEMMA DeltaKeepsWhole ==
    ASSUME api \in Numbered, NEW o, NEW w \in Wire, NEW home, Whole(o, w, home),
           NEW n \in DOMAIN w.blocks, w.blocks[n].open, w.blocks[n].kind \in Kinds,
           NEW v, v.blocks = w.blocks,
           NEW piece, piece.n = n, piece.kind = w.blocks[n].kind, v.sent = Append(w.sent, piece),
           NEW e, e.type = "delta", e.n = n, e.kind = w.blocks[n].kind, e.piece = Len(w.sent) + 1
    PROVE  \E there : Whole(Adapt(o, e), v, there)
<1> DEFINE p == Adapt(o, e)
           new == Len(w.sent) + 1
<1>1. NumberedSlots(o, w) /\ n # 0
  BY NumberedFacts DEF Whole, Wire
<1>2. CASE n \in DOMAIN o.slots
  <2>1. p = Grow(o, o.slots[n], new)
    <3>1. Known(o, n) /\ Ensure(o, n, e.kind) = o
      BY <1>2 DEF Known, Ensure
    <3> HIDE DEF new
    <3>2. CASE api = "anthropic"
      BY <3>1, <3>2 DEF Adapt, Anthropic, new
    <3>3. CASE api = "responses"
      BY <3>1, <3>3 DEF Adapt, Responses, new
    <3>4. CASE api = "pi"
      BY <3>1, <3>4 DEF Adapt, Pi, new
    <3>5. CASE api = "bedrock"
      BY <3>1, <3>5 DEF Adapt, Bedrock, new
    <3> QED
      BY <3>2, <3>3, <3>4, <3>5 DEF Numbered
  <2> HIDE DEF p, new
  <2>2. \E there : Whole(p, v, there)
    BY <1>1, <1>2, <2>1, NumberedGrows DEF new
  <2> QED
    BY <2>2 DEF p
<1>3. CASE n \notin DOMAIN o.slots
  <2>1. api = "bedrock" /\ w.blocks[n].kind # "tool" /\ \A q \in DOMAIN w.sent : w.sent[q].n # n
    <3>1. "other" \notin Kinds
      BY DEF Kinds
    <3> QED
      BY <1>1, <1>3, <3>1 DEF NumberedSlots
  <2> DEFINE m == OpenSlot(o, n, w.blocks[n].kind)
  <2>2. Opens(w, w, n, w.blocks[n].kind)
    BY DEF Opens
  <2>3. Whole(m, w, home) /\ n \in DOMAIN m.slots
    BY <1>3, <2>1, <2>2, NumberedOpens
  <2>4. p = Grow(m, m.slots[n], new)
    <3>1. Known(m, n) /\ Ensure(o, n, e.kind) = m
      BY <1>3, <2>3 DEF Known, Ensure
    <3> HIDE DEF m, new
    <3> QED
      BY <2>1, <3>1 DEF Adapt, Bedrock, new
  <2> HIDE DEF p, new, m
  <2>5. \E there : Whole(p, v, there)
    BY <1>1, <2>3, <2>4, NumberedGrows DEF new
  <2> QED
    BY <2>5 DEF p
<1> QED
  BY <1>2, <1>3

(* A block without a slot is stopped. *)
LEMMA NumberedSkips ==
    ASSUME api \in Numbered, NEW o, NEW w, NEW home, Whole(o, w, home),
           NEW n \in DOMAIN w.blocks, n \notin DOMAIN o.slots, NEW v, Closes(w, v, n), v.sent = w.sent
    PROVE  Whole(o, v, home)
<1>1. Kept(o, w.sent, home, Unended(o, w.blocks)) /\ NumberedSlots(o, w) /\ o.current = None
  BY NumberedFacts DEF Whole, NumberedSlots
<1>2. \A k \in DOMAIN o.slots : k # n /\ k \in DOMAIN w.blocks /\ v.blocks[k] = w.blocks[k]
  BY <1>1 DEF NumberedSlots, Closes
<1>3. Unended(o, v.blocks) = Unended(o, w.blocks)
  BY <1>1, <1>2 DEF Unended
<1>4. NumberedSlots(o, v)
  <2>1. \A k \in DOMAIN o.slots :
               /\ k \in DOMAIN v.blocks
               /\ o.blocks[o.slots[k]].kind = v.blocks[k].kind
               /\ api # "pi" => v.blocks[k].open
    BY <1>1, <1>2 DEF NumberedSlots, Closes
  <2>2. ASSUME NEW k \in DOMAIN v.blocks \ DOMAIN o.slots, v.blocks[k].open
        PROVE  \/ v.blocks[k].kind = "other" /\ api # "pi"
               \/ /\ api = "bedrock" /\ v.blocks[k].kind # "tool"
                  /\ \A q \in DOMAIN v.sent : v.sent[q].n # k
    <3>1. k # n
      BY <2>2 DEF Closes
    <3>2. k \in DOMAIN w.blocks \ DOMAIN o.slots /\ v.blocks[k] = w.blocks[k]
      BY <3>1 DEF Closes
    <3> QED
      BY <1>1, <2>2, <3>2 DEF NumberedSlots
  <2>3. \A q \in DOMAIN v.sent : v.sent[q].n \in DOMAIN v.blocks
    BY <1>1 DEF NumberedSlots, Closes
  <2> QED
    BY <1>1, <2>1, <2>2, <2>3 DEF NumberedSlots
<1> QED
  BY <1>1, <1>3, <1>4, NumberedFacts DEF Whole

(* A block of the provider is closed. *)
LEMMA ClosesBlock ==
    ASSUME NEW w \in Wire, NEW n \in DOMAIN w.blocks, NEW v,
           v.blocks = [w.blocks EXCEPT ![n].open = FALSE], v.sent = w.sent
    PROVE  Closes(w, v, n)
<1>1. w.blocks[n] \in [kind : Kinds \cup {"other"}, open : BOOLEAN]
  <2> DEFINE B == [kind : Kinds \cup {"other"}, open : BOOLEAN]
  <2>1. w.blocks \in Seq(B)
    BY DEF Wire
  <2> HIDE DEF B
  <2>2. w.blocks[n] \in B
    BY <2>1
  <2> QED
    BY <2>2 DEF B
<1>2. /\ DOMAIN v.blocks = DOMAIN w.blocks /\ v.blocks[n] = [w.blocks[n] EXCEPT !.open = FALSE]
      /\ \A k \in DOMAIN w.blocks \ {n} : v.blocks[k] = w.blocks[k]
  OBVIOUS
<1>3. v.blocks[n].kind = w.blocks[n].kind /\ ~v.blocks[n].open
  BY <1>1, <1>2
<1> QED
  BY <1>2, <1>3 DEF Closes

(* A block is stopped. *)
LEMMA StopKeepsWhole ==
    ASSUME api \in Numbered, NEW o, NEW w \in Wire, NEW home, Whole(o, w, home),
           NEW n \in DOMAIN w.blocks, w.blocks[n].open,
           NEW v, v.blocks = [w.blocks EXCEPT ![n].open = FALSE], v.sent = w.sent,
           NEW e, e.type = "stop", e.n = n, e.kind = w.blocks[n].kind,
           Lists(e.whole, {q \in DOMAIN w.sent : w.sent[q].n = n})
    PROVE  Whole(Adapt(o, e), v, home)
<1> DEFINE p == Adapt(o, e)
           at == o.slots[n]
           U == Unended(o, w.blocks)
           whole == e.whole
<1>1. NumberedSlots(o, w) /\ Kept(o, w.sent, home, U) /\ n # 0 /\ Closes(w, v, n)
  <2>1. NumberedSlots(o, w) /\ Kept(o, w.sent, home, U)
    BY NumberedFacts DEF Whole
  <2>2. Closes(w, v, n)
    BY ClosesBlock
  <2>3. DOMAIN w.blocks = 1..Len(w.blocks)
    BY DEF Wire
  <2>4. n # 0
    BY <2>3
  <2> QED
    BY <2>1, <2>2, <2>4
<1>2. CASE n \in DOMAIN o.slots
  <2>1. /\ at \in DOMAIN o.blocks /\ at \in U
        /\ \A q \in DOMAIN w.sent : home[q] = at <=> w.sent[q].n = n
    BY <1>1, <1>2, SlotMayGrow
  <2>2. Known(o, n) /\ Ensure(o, n, e.kind) = o
    BY <1>2 DEF Known, Ensure
  <2>3. Lists(whole, At(home, at))
    <3>1. DOMAIN home = DOMAIN w.sent
      BY <1>1 DEF Kept, Placed
    <3>2. At(home, at) = {q \in DOMAIN w.sent : w.sent[q].n = n}
      BY <2>1, <3>1 DEF At
    <3> QED
      BY <3>2
  <2> HIDE DEF at, U, whole, p
  <2>4. ASSUME NEW m, Moved(o, m, w.sent, home, U \ {at}), p = IF api = "pi" THEN m ELSE Unslot(m, n)
        PROVE  Whole(p, v, home)
    <3>1. /\ Kept(m, v.sent, home, U \ {at})
          /\ DOMAIN m.blocks = DOMAIN o.blocks /\ Kinded(o, m) /\ Beside(o, m)
      BY <2>4 DEF Moved
    <3> QED
      BY <1>1, <1>2, <2>4, <3>1, NumberedEnds DEF at, U
  <2>5. ASSUME api \in {"anthropic", "bedrock"} PROVE Whole(p, v, home)
    <3> DEFINE m == Close(o, at)
    <3>1. p = Unslot(m, n)
      BY <2>2, <2>5 DEF Adapt, Anthropic, Bedrock, CloseSlot, p, at
    <3>2. Moved(o, m, w.sent, home, U \ {at})
      BY <1>1, <2>1, CloseKept
    <3> HIDE DEF m
    <3> QED
      BY <2>4, <2>5, <3>1, <3>2
  <2>6. ASSUME api \in {"responses", "pi"} PROVE Whole(p, v, home)
    <3> DEFINE f == [o EXCEPT !.blocks[at].pieces = whole]
               m == Close(f, at)
    <3>1. f.slots = o.slots
      BY <1>1 DEF Kept, Sync, Output
    <3>2. EndedWith(o, m, at, whole)
      BY DEF EndedWith
    <3>3. p = IF api = "pi" THEN m ELSE Unslot(m, n)
      <4>1. CASE api = "responses"
        <5>1. p = CloseSlot(f, n)
          BY <2>2, <4>1 DEF Adapt, Responses, p, at, whole
        <5> HIDE DEF f
        <5> QED
          BY <1>2, <3>1, <4>1, <5>1 DEF CloseSlot, Known, at
      <4>2. CASE api = "pi"
        BY <4>2 DEF Adapt, Pi, p, at, whole
      <4> QED
        BY <2>6, <4>1, <4>2
    <3> HIDE DEF m, f
    <3>4. Moved(o, m, w.sent, home, U \ {at})
      BY <1>1, <2>1, <2>3, <3>2, CloseWithKept
    <3> QED
      BY <2>4, <3>3, <3>4
  <2>7. Whole(p, v, home)
    BY <2>5, <2>6 DEF Numbered
  <2> QED
    BY <2>7 DEF p
<1>3. CASE n \notin DOMAIN o.slots
  <2>1. api # "pi" /\ (api \in {"anthropic", "responses"} => w.blocks[n].kind = "other")
    BY <1>1, <1>3 DEF NumberedSlots
  <2>2. "other" \notin Kinds
    BY DEF Kinds
  <2>3. ~Known(o, n)
    BY <1>3 DEF Known
  <2>4. p = o
    <3>1. CASE api = "anthropic"
      BY <2>3, <3>1 DEF Adapt, Anthropic, CloseSlot
    <3>2. CASE api = "bedrock"
      BY <2>3, <3>2 DEF Adapt, Bedrock, CloseSlot
    <3>3. CASE api = "responses"
      <4>1. Ensure(o, n, e.kind) = o
        BY <2>1, <2>2, <2>3, <3>3 DEF Ensure, OpenSlot
      <4> QED
        BY <2>3, <3>3, <4>1 DEF Adapt, Responses
    <3> QED
      BY <2>1, <3>1, <3>2, <3>3 DEF Numbered
  <2> HIDE DEF p
  <2>5. Whole(p, v, home)
    BY <1>1, <1>3, <2>4, NumberedSkips
  <2> QED
    BY <2>5 DEF p
<1> QED
  BY <1>2, <1>3

(* An item that is done without having been added. *)
LEMMA ItemKeepsWhole ==
    ASSUME api = "responses", NEW o, NEW w \in Wire, NEW home, Whole(o, w, home),
           NEW kind \in Kinds,
           NEW v, v.blocks = Append(w.blocks, [kind |-> kind, open |-> FALSE]),
           NEW piece, piece.n = Len(w.blocks) + 1, piece.kind = kind, v.sent = Append(w.sent, piece),
           NEW e, e.type = "stop", e.n = Len(w.blocks) + 1, e.kind = kind, e.whole = <<Len(w.sent) + 1>>
    PROVE  \E there : Whole(Adapt(o, e), v, there)
<1> DEFINE n == Len(w.blocks) + 1
           p == Adapt(o, e)
           new == Len(w.sent) + 1
           m == OpenSlot(o, n, kind)
           u == [blocks |-> Append(w.blocks, [kind |-> kind, open |-> TRUE]), sent |-> w.sent]
           at == m.slots[n]
           f == [m EXCEPT !.blocks[at].pieces = <<new>>]
           q == Close(f, at)
<1>0. api \in Numbered
  BY DEF Numbered
<1>1. n \notin DOMAIN o.slots /\ \A r \in DOMAIN w.sent : w.sent[r].n # n
  BY <1>0, NewNumber
<1>2. u.sent = w.sent /\ u.blocks = Append(w.blocks, [kind |-> kind, open |-> TRUE])
  OBVIOUS
<1> HIDE DEF u, m
<1>3. Opens(w, u, n, kind)
  BY <1>2, AppendOpens
<1>4. /\ Whole(m, u, home) /\ n \in DOMAIN m.slots
      /\ m.blocks[at].pieces = <<>> /\ at \in DOMAIN m.blocks /\ at \in Unended(m, u.blocks)
  <2> HIDE DEF n
  <2> QED
    BY <1>0, <1>1, <1>3, NumberedOpens DEF m
<1>5. Known(m, n) /\ Ensure(o, n, kind) = m
  BY <1>1, <1>4 DEF Known, Ensure, m
<1>6. f.slots = m.slots
  <2>1. Sync(m)
    BY <1>4 DEF Whole, Kept
  <2> HIDE DEF at, new
  <2> QED
    BY <2>1 DEF Sync, Output
<1>7. p = Unslot(q, n)
  <2>1. p = CloseSlot(f, n)
    BY <1>5 DEF Adapt, Responses
  <2> HIDE DEF f, n, p
  <2>2. Known(f, n) /\ f.slots[n] = at
    BY <1>4, <1>6 DEF Known
  <2> QED
    BY <2>1, <2>2 DEF CloseSlot
<1>8. EndedWith(m, q, at, m.blocks[at].pieces \o <<new>>)
  <2>1. m.blocks[at].pieces \o <<new>> = <<new>>
    <3>1. <<new>> \in Seq({new})
      OBVIOUS
    <3> HIDE DEF new
    <3> QED
      BY <1>4, <3>1, ConcatEmptySeq
  <2> QED
    BY <2>1 DEF EndedWith
<1>9. /\ n \in DOMAIN w.blocks \cup {n} /\ n # 0 /\ w.sent \in Seq([kind : Kinds, n : Nat])
      /\ w.blocks \in Seq([kind : Kinds \cup {"other"}, open : BOOLEAN])
  BY DEF Wire
<1> HIDE DEF q, f, p
<1>10. u.blocks[n].open /\ u.blocks[n].kind = kind
  BY <1>3 DEF Opens
<1> HIDE DEF at, n
<1>11. Takes(m, u.sent, home, at, piece)
  <2>1. KeyOf(piece) = n
    BY <1>0, NumberedFacts DEF n
  <2>2. /\ at \in DOMAIN m.blocks /\ m.blocks[at].kind = kind
        /\ MayJoin(u.sent, home, at, n)
        /\ \A k \in DOMAIN m.slots : m.slots[k] = at <=> n = k
        /\ m.current = None
    BY <1>0, <1>4, <1>9, <1>10, SlotMayGrow DEF at
  <2> QED
    BY <2>1, <2>2 DEF Takes, n
<1> DEFINE there == Joined(home, new, at)
           U == Unended(m, u.blocks)
<1>12. Moved(m, q, v.sent, there, U \ {at})
  <2>1. Kept(m, u.sent, home, U) /\ u.sent = w.sent /\ at \in U
    BY <1>2, <1>4 DEF Whole
  <2> HIDE DEF U
  <2>2. Moved(m, q, Append(u.sent, piece), Joined(home, Len(u.sent) + 1, at), U \ {at})
    BY <1>2, <1>8, <1>9, <1>11, <2>1, ItemKept
  <2> QED
    BY <2>1, <2>2
<1>13. Closes(u, v, n)
  <2> DEFINE block == [kind |-> kind, open |-> FALSE]
  <2>1. block.kind = kind /\ ~block.open
    OBVIOUS
  <2> HIDE DEF block
  <2>2. /\ DOMAIN v.blocks = DOMAIN w.blocks \cup {n} /\ n \notin DOMAIN w.blocks
        /\ v.blocks[n] = block /\ \A k \in DOMAIN w.blocks : v.blocks[k] = w.blocks[k]
    BY <1>9, OneMore DEF block, n
  <2>3. /\ DOMAIN u.blocks = DOMAIN w.blocks \cup {n}
        /\ \A k \in DOMAIN w.blocks : u.blocks[k] = w.blocks[k]
    BY <1>3, <2>2 DEF Opens
  <2>4. \A r \in DOMAIN v.sent : v.sent[r].n = n \/ \E s \in DOMAIN u.sent : v.sent[r].n = u.sent[s].n
    <3>1. /\ DOMAIN v.sent = DOMAIN w.sent \cup {new} /\ v.sent[new] = piece
          /\ \A r \in DOMAIN w.sent : v.sent[r] = w.sent[r]
      BY <1>9, OneMore
    <3> QED
      BY <1>2, <3>1 DEF n
  <2> QED
    BY <1>10, <2>1, <2>2, <2>3, <2>4 DEF Closes
<1>14. Whole(p, v, there)
  <2>1. /\ Kept(q, v.sent, there, U \ {at})
        /\ DOMAIN q.blocks = DOMAIN m.blocks /\ Kinded(m, q) /\ Beside(m, q)
    BY <1>12 DEF Moved
  <2>2. p = IF api = "pi" THEN q ELSE Unslot(q, n)
    BY <1>7
  <2> HIDE DEF there
  <2> QED
    BY <1>0, <1>4, <1>10, <1>13, <2>1, <2>2, NumberedEnds DEF at, U
<1> QED
  BY <1>14 DEF p

-----------------------------------------------------------------------------
(* The adapters that are only sent pieces *)

(* p is o with other blocks to end; what the provider has numbered is of no account. *)
Still(o, p, sent, home, blocks) ==
    /\ Kept(p, sent, home, Unended(p, blocks))
    /\ p.slots = o.slots /\ Kinded(o, p)

(* What the definitions come to for these adapters. *)
LEMMA ChunkedFacts ==
    ASSUME api \in Chunked, NEW o, NEW w
    PROVE  /\ api = "completions" => Slots(o, w) = CompletionsSlots(o, w)
           /\ api = "google" => Slots(o, w) = GoogleSlots(o, w)
           /\ api = "mistral" => Slots(o, w) = MistralSlots(o, w)
           /\ api # "completions" => \A piece : KeyOf(piece) = piece.n
           /\ api = "completions" => \A piece : KeyOf(piece) = <<piece.kind, piece.n>>
           /\ api # "pi"
<1>1. api \notin Numbered /\ api # "pi"
  BY DEF Numbered, Chunked
<1>2. /\ api = "completions" => Slots(o, w) = CompletionsSlots(o, w)
      /\ api = "google" => Slots(o, w) = GoogleSlots(o, w)
      /\ api = "mistral" => Slots(o, w) = MistralSlots(o, w)
  BY <1>1 DEF Slots
<1>3. /\ api # "completions" => \A piece : KeyOf(piece) = piece.n
      /\ api = "completions" => \A piece : KeyOf(piece) = <<piece.kind, piece.n>>
  BY DEF KeyOf
<1> QED
  BY <1>1, <1>2, <1>3

(* The blocks that have not ended: all, or those of the slots and the current one. *)
LEMMA ChunkedUnended ==
    ASSUME api \in Chunked, NEW o, NEW blocks
    PROVE  /\ api = "completions" => Unended(o, blocks) = DOMAIN o.blocks
           /\ api # "completions" =>
                Unended(o, blocks) = {at \in DOMAIN o.blocks :
                    (\E k \in DOMAIN o.slots : o.slots[k] = at) \/ (o.current # None /\ at = Len(o.blocks))}
<1>1. api # "pi"
  BY DEF Chunked
<1>2. api = "completions" => Unended(o, blocks) = DOMAIN o.blocks
  BY DEF Unended
<1>3. ASSUME api # "completions"
      PROVE  Unended(o, blocks) = {at \in DOMAIN o.blocks :
                    (\E k \in DOMAIN o.slots : o.slots[k] = at) \/ (o.current # None /\ at = Len(o.blocks))}
  BY <1>1, <1>3 DEF Unended
<1> QED
  BY <1>2, <1>3

(* The same blocks with the same slots. *)
LEMMA SameUnended ==
    ASSUME api \in Chunked, NEW o, NEW p, NEW blocks, NEW others,
           DOMAIN p.blocks = DOMAIN o.blocks, Len(p.blocks) = Len(o.blocks), Beside(o, p)
    PROVE  Unended(p, others) = Unended(o, blocks)
<1>1. p.slots = o.slots /\ p.current = o.current
  BY DEF Beside
<1>2. CASE api = "completions"
  <2>1. Unended(p, others) = DOMAIN p.blocks /\ Unended(o, blocks) = DOMAIN o.blocks
    BY <1>2, ChunkedUnended
  <2> QED
    BY <2>1
<1>3. CASE api # "completions"
  <2>1. Unended(p, others) = {at \in DOMAIN p.blocks :
                    (\E k \in DOMAIN p.slots : p.slots[k] = at) \/ (p.current # None /\ at = Len(p.blocks))}
    BY <1>3, ChunkedUnended
  <2>2. Unended(o, blocks) = {at \in DOMAIN o.blocks :
                    (\E k \in DOMAIN o.slots : o.slots[k] = at) \/ (o.current # None /\ at = Len(o.blocks))}
    BY <1>3, ChunkedUnended
  <2> QED
    BY <1>1, <2>1, <2>2
<1> QED
  BY <1>2, <1>3

(* The current block ends. *)
LEMMA CurrentEnds ==
    ASSUME api \in {"google", "mistral"}, NEW o, NEW sent, NEW home, NEW blocks,
           Kept(o, sent, home, Unended(o, blocks)), NEW p, p = CloseCurrent(o)
    PROVE  Still(o, p, sent, home, blocks) /\ p.current = None
<1>0. api \in Chunked /\ api # "completions"
  BY DEF Chunked
<1>1. CASE o.current = None
  BY <1>1 DEF CloseCurrent, Still, Kinded
<1>2. CASE o.current # None
  <2> DEFINE at == Len(o.blocks)
             q == Close(o, at)
             U == Unended(o, blocks)
  <2>1. Sync(o) /\ Slotted(o, sent, home) /\ Kept(o, sent, home, U)
    BY DEF Kept
  <2>2. at > 0 /\ at \in Nat /\ DOMAIN o.blocks = 1..at /\ \A k \in DOMAIN o.slots : o.slots[k] # at
    BY <1>2, <2>1, OutputLen DEF Slotted
  <2>3. at \in DOMAIN o.blocks
    BY <2>2
  <2>4. at \in U
    BY <1>0, <1>2, <2>3, ChunkedUnended
  <2> HIDE DEF at, U, q
  <2>5. Moved(o, q, sent, home, U \ {at})
    BY <2>1, <2>3, <2>4, CloseKept DEF q
  <2>6. /\ Kept(q, sent, home, U \ {at}) /\ DOMAIN q.blocks = DOMAIN o.blocks
        /\ Kinded(o, q) /\ Beside(o, q)
    BY <2>5 DEF Moved
  <2>7. p = [q EXCEPT !.current = None]
    BY <1>2 DEF CloseCurrent, q, at
  <2>8. Kept(p, sent, home, U \ {at}) /\ p.blocks = q.blocks /\ p.slots = q.slots /\ p.current = None
    <3> DEFINE V == U \ {at}
    <3>1. Kept(q, sent, home, V)
      BY <2>6
    <3> HIDE DEF V
    <3>2. Kept(p, sent, home, V) /\ p.blocks = q.blocks /\ p.slots = q.slots /\ p.current = None
      BY <2>7, <3>1, CurrentKept
    <3> QED
      BY <3>2 DEF V
  <2>9. p.slots = o.slots /\ DOMAIN p.blocks = DOMAIN o.blocks /\ Kinded(o, p)
    BY <2>6, <2>8 DEF Beside, Kinded
  <2>10. Unended(p, blocks) = U \ {at}
    <3>1. Unended(p, blocks) = {b \in DOMAIN o.blocks : \E k \in DOMAIN o.slots : o.slots[k] = b}
      BY <1>0, <2>8, <2>9, ChunkedUnended
    <3>2. U = {b \in DOMAIN o.blocks : (\E k \in DOMAIN o.slots : o.slots[k] = b) \/ b = at}
      BY <1>0, <1>2, ChunkedUnended DEF U, at
    <3> QED
      BY <2>2, <3>1, <3>2
  <2> QED
    BY <2>8, <2>9, <2>10 DEF Still
<1> QED
  BY <1>1, <1>2

(* p is q, in which no block is current, with a further block. *)
FurtherBlock(o, q, p, sent, home, blocks, kind) ==
    /\ Still(o, q, sent, home, blocks) /\ q.current = None
    /\ Kept(p, sent, home, Unended(q, blocks) \cup {Len(p.blocks)})
    /\ p.blocks[Len(p.blocks)].kind = kind
    /\ At(home, Len(p.blocks)) = {}
    /\ DOMAIN p.blocks = DOMAIN q.blocks \cup {Len(p.blocks)}
    /\ Len(p.blocks) \notin DOMAIN q.blocks
    /\ Kinded(o, p) /\ p.slots = o.slots /\ p.current = None

(* A further block, after the current one has ended. *)
LEMMA NextBlock ==
    ASSUME api \in {"google", "mistral"}, NEW o, NEW sent, NEW home, NEW blocks,
           Kept(o, sent, home, Unended(o, blocks)), NEW kind, NEW p, p = Open(CloseCurrent(o), kind)
    PROVE  \E q : FurtherBlock(o, q, p, sent, home, blocks, kind)
<1> DEFINE q == CloseCurrent(o)
           U == Unended(q, blocks)
           N == Len(p.blocks)
<1>1. Still(o, q, sent, home, blocks) /\ q.current = None
  BY CurrentEnds
<1>2. p = Open(q, kind)
  OBVIOUS
<1> HIDE DEF q
<1>3. Kept(q, sent, home, U) /\ Sync(q)
  BY <1>1 DEF Still, Kept
<1> HIDE DEF U
<1>4. /\ Kept(p, sent, home, U \cup {Len(p.blocks)})
      /\ Len(q.blocks) \in Nat /\ Len(p.blocks) = Len(q.blocks) + 1
      /\ p.blocks[Len(p.blocks)] = [kind |-> kind, pieces |-> <<>>]
      /\ At(home, Len(p.blocks)) = {}
      /\ Len(p.blocks) \notin DOMAIN q.blocks /\ Len(p.blocks) \in DOMAIN p.blocks
      /\ Kinded(q, p) /\ Beside(q, p)
  BY <1>1, <1>2, <1>3, OpenKept
<1>5. DOMAIN p.blocks = DOMAIN q.blocks \cup {N}
  <2>1. DOMAIN q.blocks = 1..Len(q.blocks)
    BY <1>3, OutputLen
  <2>2. Sync(p)
    BY <1>4 DEF Kept
  <2>3. DOMAIN p.blocks = 1..Len(q.blocks) + 1 /\ N = Len(q.blocks) + 1
    BY <1>4, <2>2, OutputLen
  <2> HIDE DEF N
  <2> QED
    BY <1>4, <2>1, <2>3
<1>6. Kinded(o, p) /\ p.slots = o.slots /\ p.current = None
  BY <1>1, <1>4 DEF Still, Kinded, Beside
<1>7. p.blocks[N].kind = kind
  BY <1>4
<1>8. FurtherBlock(o, q, p, sent, home, blocks, kind)
  BY <1>1, <1>4, <1>5, <1>6, <1>7 DEF U, FurtherBlock
<1> QED
  BY <1>8

(* The current block is one of that kind. *)
LEMMA TurnMakes ==
    ASSUME api \in {"google", "mistral"}, NEW o, NEW sent, NEW home, NEW blocks,
           Kept(o, sent, home, Unended(o, blocks)), NEW kind \in Kinds,
           NEW p, p = Turn(o, kind)
    PROVE  Still(o, p, sent, home, blocks) /\ p.current = kind
<1>0. api \in Chunked /\ api # "completions" /\ kind # None
  BY NoneAssumption DEF Chunked
<1>1. CASE o.current = kind
  BY <1>1 DEF Turn, Still, Kinded
<1>2. CASE o.current # kind
  <2> DEFINE m == Open(CloseCurrent(o), kind)
             N == Len(m.blocks)
  <2>1. p = [m EXCEPT !.current = kind]
    BY <1>2 DEF Turn
  <2>11. m = Open(CloseCurrent(o), kind) /\ N = Len(m.blocks)
    OBVIOUS
  <2> HIDE DEF m, N
  <2>12. \E q : FurtherBlock(o, q, m, sent, home, blocks, kind)
    BY <2>11, NextBlock
  <2>13. PICK q : FurtherBlock(o, q, m, sent, home, blocks, kind)
    BY <2>12
  <2>2. /\ Still(o, q, sent, home, blocks) /\ q.current = None
        /\ Kept(m, sent, home, Unended(q, blocks) \cup {N})
        /\ m.blocks[N].kind = kind
        /\ At(home, N) = {}
        /\ DOMAIN m.blocks = DOMAIN q.blocks \cup {N}
        /\ N \notin DOMAIN q.blocks
        /\ Kinded(o, m) /\ m.slots = o.slots /\ m.current = None
    BY <2>11, <2>13 DEF FurtherBlock
  <2> DEFINE U == Unended(q, blocks) \cup {N}
  <2> HIDE DEF U
  <2>3. q.slots = o.slots /\ Slotted(q, sent, home) /\ Placed(m.blocks, sent, home) /\ Kept(m, sent, home, U) /\ Sync(m)
    BY <2>2 DEF Still, Kept, U
  <2>4. \A k \in DOMAIN m.slots : m.slots[k] # N
    BY <2>2, <2>3 DEF Slotted
  <2>5. \A r \in DOMAIN sent : home[r] # N
    BY <2>2, <2>3 DEF Placed, At
  <2>6. N > 0
    <3>1. DOMAIN m.blocks = 1..Len(m.blocks) /\ N \in DOMAIN m.blocks /\ Len(m.blocks) \in Nat
      BY <2>2, <2>3, OutputLen
    <3> QED
      BY <3>1
  <2>7. Kept(p, sent, home, U) /\ p.blocks = m.blocks /\ p.slots = m.slots /\ p.current = kind
    <3>1. kind # None =>
            /\ Len(m.blocks) > 0 /\ m.blocks[Len(m.blocks)].kind = kind
            /\ \A k \in DOMAIN m.slots : m.slots[k] # Len(m.blocks)
            /\ \A r \in DOMAIN sent : home[r] = Len(m.blocks) => sent[r].n = 0
      BY <2>2, <2>4, <2>5, <2>6 DEF N
    <3> QED
      BY <2>1, <2>3, <3>1, CurrentKept
  <2>8. Unended(p, blocks) = U
    <3>1. Unended(p, blocks) = {at \in DOMAIN m.blocks :
                                  (\E k \in DOMAIN o.slots : o.slots[k] = at) \/ at = N}
      BY <1>0, <2>2, <2>7, ChunkedUnended DEF N
    <3>2. Unended(q, blocks) = {at \in DOMAIN q.blocks : \E k \in DOMAIN o.slots : o.slots[k] = at}
      BY <1>0, <2>2, <2>3, ChunkedUnended
    <3>3. \A k \in DOMAIN o.slots : o.slots[k] # N
      BY <2>2, <2>4
    <3> QED
      BY <2>2, <3>1, <3>2, <3>3 DEF U
  <2> QED
    BY <2>2, <2>7, <2>8 DEF Still, Kinded
<1> QED
  BY <1>1, <1>2

(* A block that has not ended gets the next piece. *)
LEMMA ChunkedGrows ==
    ASSUME api \in Chunked, NEW p, NEW w \in Wire, NEW home, Kept(p, w.sent, home, Unended(p, w.blocks)),
           NEW at \in Unended(p, w.blocks), NEW piece, Takes(p, w.sent, home, at, piece),
           NEW v, v.sent = Append(w.sent, piece),
           NEW g, g = Grow(p, at, Len(w.sent) + 1)
    PROVE  Moved(p, g, v.sent, Joined(home, Len(w.sent) + 1, at), Unended(g, v.blocks))
<1> DEFINE U == Unended(p, w.blocks)
           sent == w.sent
<1>1. sent \in Seq([kind : Kinds, n : Nat]) /\ Kept(p, sent, home, U) /\ at \in U
      /\ Takes(p, sent, home, at, piece) /\ g = Grow(p, at, Len(sent) + 1)
  BY DEF Wire
<1> HIDE DEF U, sent
<1>2. Moved(p, g, Append(sent, piece), Joined(home, Len(sent) + 1, at), U)
  BY <1>1, GrowKept
<1>3. Unended(g, v.blocks) = U
  <2>1. DOMAIN g.blocks = DOMAIN p.blocks /\ Len(g.blocks) = Len(p.blocks) /\ Beside(p, g)
    BY <1>2 DEF Moved
  <2> QED
    BY <2>1, SameUnended DEF U
<1> QED
  BY <1>2, <1>3 DEF sent

(* What has been sent after one more piece. *)
LEMMA OneMoreSent ==
    ASSUME NEW w \in Wire, NEW piece, NEW v, v.sent = Append(w.sent, piece)
    PROVE  \A q \in DOMAIN v.sent : v.sent[q] = piece \/ \E r \in DOMAIN w.sent : v.sent[q] = w.sent[r]
<1>1. w.sent \in Seq([kind : Kinds, n : Nat])
  BY DEF Wire
<1>2. /\ DOMAIN v.sent = DOMAIN w.sent \cup {Len(w.sent) + 1}
      /\ v.sent[Len(w.sent) + 1] = piece /\ \A q \in DOMAIN w.sent : v.sent[q] = w.sent[q]
  BY <1>1, OneMore
<1> QED
  BY <1>2

(* The blocks of the provider are numbered from 1. *)
LEMMA WireLen == ASSUME NEW w \in Wire PROVE Len(w.blocks) \in Nat /\ DOMAIN w.blocks = 1..Len(w.blocks)
  BY DEF Wire

(* The slots are as they were. *)
LEMMA GoogleStill ==
    ASSUME NEW o, NEW w \in Wire, GoogleSlots(o, w), NEW piece, NEW v \in Wire, v.sent = Append(w.sent, piece),
           piece.n \in 0..Len(v.blocks), Len(w.blocks) <= Len(v.blocks), NEW g, g.slots = o.slots
    PROVE  GoogleSlots(g, v)
<1>1. Len(w.blocks) \in Nat /\ Len(v.blocks) \in Nat
  BY WireLen
<1>2. \A q \in DOMAIN v.sent : v.sent[q] = piece \/ \E r \in DOMAIN w.sent : v.sent[q] = w.sent[r]
  BY OneMoreSent
<1>3. \A r \in DOMAIN w.sent : w.sent[r].n \in 0..Len(w.blocks)
  BY DEF GoogleSlots
<1>4. 0..Len(w.blocks) \subseteq 0..Len(v.blocks)
  BY <1>1
<1> QED
  BY <1>2, <1>3, <1>4 DEF GoogleSlots

(* The slots are as they were, or there is one more for a tool call. *)
LEMMA MistralStill ==
    ASSUME NEW o, NEW w \in Wire, MistralSlots(o, w), NEW piece, NEW v, v.sent = Append(w.sent, piece),
           NEW g, Kinded(o, g), \A k \in DOMAIN o.slots : o.slots[k] \in DOMAIN o.blocks,
           g.current # "tool",
           DOMAIN o.slots \subseteq DOMAIN g.slots, \A k \in DOMAIN o.slots : g.slots[k] = o.slots[k],
           \A k \in DOMAIN g.slots \ DOMAIN o.slots : k # 0 /\ g.blocks[g.slots[k]].kind = "tool",
           piece.n # 0 => piece.n \in DOMAIN g.slots
    PROVE  MistralSlots(g, v)
<1>1. \A q \in DOMAIN v.sent : v.sent[q] = piece \/ \E r \in DOMAIN w.sent : v.sent[q] = w.sent[r]
  BY OneMoreSent
<1>2. \A q \in DOMAIN v.sent : v.sent[q].n # 0 => v.sent[q].n \in DOMAIN g.slots
  BY <1>1 DEF MistralSlots
<1>3. ASSUME NEW k \in DOMAIN g.slots PROVE k # 0 /\ g.blocks[g.slots[k]].kind = "tool"
  <2>1. CASE k \in DOMAIN o.slots
    BY <2>1 DEF MistralSlots, Kinded
  <2>2. CASE k \notin DOMAIN o.slots
    BY <2>2
  <2> QED
    BY <2>1, <2>2
<1> QED
  BY <1>2, <1>3 DEF MistralSlots

(* Text or thinking, for the adapters that keep a current block. *)
LEMMA TextKeepsWhole ==
    ASSUME api \in {"google", "mistral"}, NEW o, NEW w \in Wire, NEW home, Whole(o, w, home),
           NEW kind \in Kinds, kind # "tool",
           NEW piece, piece.kind = kind, piece.n = 0,
           NEW v \in Wire, v.sent = Append(w.sent, piece), v.blocks = w.blocks,
           NEW e, e.kind = kind, e.piece = Len(w.sent) + 1
    PROVE  \E there : Whole(Adapt(o, e), v, there)
<1> DEFINE new == Len(w.sent) + 1
           p == Turn(o, kind)
           at == Len(p.blocks)
           g == Grow(p, at, new)
           there == Joined(home, new, at)
<1>1. api \in Chunked /\ api # "completions" /\ kind # None
  BY NoneAssumption DEF Chunked
<1>2. Kept(o, w.sent, home, Unended(o, w.blocks)) /\ Slots(o, w)
  BY DEF Whole
<1>3. Adapt(o, e) = g
  <2> HIDE DEF p
  <2>1. CASE api = "google"
    BY <2>1 DEF Adapt, Google, GrowLast, p
  <2>2. CASE api = "mistral"
    BY <2>2 DEF Adapt, Mistral, GrowLast, p
  <2> QED
    BY <2>1, <2>2
<1> HIDE DEF p
<1>4. Still(o, p, w.sent, home, w.blocks) /\ p.current = kind
  BY <1>2, TurnMakes DEF p
<1>5. /\ Kept(p, w.sent, home, Unended(p, w.blocks)) /\ p.slots = o.slots /\ Kinded(o, p)
      /\ Sync(p) /\ Slotted(p, w.sent, home)
  BY <1>4 DEF Still, Kept
<1>6. at \in DOMAIN p.blocks /\ p.blocks[at].kind = kind /\ (\A k \in DOMAIN p.slots : p.slots[k] # at)
      /\ \A r \in DOMAIN w.sent : home[r] = at => w.sent[r].n = 0
  <2>1. at > 0 /\ at \in Nat /\ DOMAIN p.blocks = 1..at
    BY <1>1, <1>4, <1>5, OutputLen DEF Slotted
  <2>2. p.blocks[at].kind = kind /\ (\A k \in DOMAIN p.slots : p.slots[k] # at)
        /\ \A r \in DOMAIN w.sent : home[r] = at => w.sent[r].n = 0
    BY <1>1, <1>4, <1>5 DEF Slotted
  <2> QED
    BY <2>1, <2>2
<1>7. at \in Unended(p, w.blocks)
  BY <1>1, <1>4, <1>6, ChunkedUnended
<1>8. \A k \in DOMAIN p.slots : k # 0
  <2>1. CASE api = "google"
    BY <1>1, <1>2, <1>5, <2>1, ChunkedFacts DEF GoogleSlots
  <2>2. CASE api = "mistral"
    BY <1>1, <1>2, <1>5, <2>2, ChunkedFacts DEF MistralSlots
  <2> QED
    BY <2>1, <2>2
<1>9. KeyOf(piece) = 0
  BY <1>1, ChunkedFacts
<1> HIDE DEF at
<1>10. Takes(p, w.sent, home, at, piece)
  BY <1>6, <1>8, <1>9 DEF Takes, MayJoin
<1> HIDE DEF g
<1>11. Moved(p, g, v.sent, there, Unended(g, v.blocks))
  BY <1>1, <1>5, <1>7, <1>10, ChunkedGrows DEF g
<1> HIDE DEF there
<1>12. Kept(g, v.sent, there, Unended(g, v.blocks)) /\ g.slots = o.slots /\ g.current = kind /\ Kinded(o, g)
  BY <1>4, <1>5, <1>11 DEF Moved, Beside, Kinded
<1>13. Slots(g, v)
  <2>1. CASE api = "google"
    <3>1. piece.n \in 0..Len(v.blocks) /\ Len(w.blocks) <= Len(v.blocks)
      BY WireLen
    <3>2. GoogleSlots(o, w)
      BY <1>1, <1>2, <2>1, ChunkedFacts
    <3>3. GoogleSlots(g, v)
      BY <1>12, <3>1, <3>2, GoogleStill
    <3> QED
      BY <1>1, <2>1, <3>3, ChunkedFacts
  <2>2. CASE api = "mistral"
    <3>1. MistralSlots(o, w)
      BY <1>1, <1>2, <2>2, ChunkedFacts
    <3>2. \A k \in DOMAIN o.slots : o.slots[k] \in DOMAIN o.blocks
      BY <1>2 DEF Kept, Slotted
    <3>3. MistralSlots(g, v)
      BY <1>12, <3>1, <3>2, MistralStill
    <3> QED
      BY <1>1, <2>2, <3>3, ChunkedFacts
  <2> QED
    BY <2>1, <2>2
<1>14. Whole(g, v, there)
  BY <1>12, <1>13 DEF Whole
<1> QED
  BY <1>3, <1>14

(* A tool call that comes whole. *)
LEMMA GoogleCallKeepsWhole ==
    ASSUME api = "google", NEW o, NEW w \in Wire, NEW home, Whole(o, w, home),
           NEW piece, piece.kind = "tool", piece.n = Len(w.blocks) + 1,
           NEW v \in Wire, v.sent = Append(w.sent, piece), Len(v.blocks) = Len(w.blocks) + 1,
           NEW e, e.kind = "tool", e.piece = Len(w.sent) + 1
    PROVE  \E there : Whole(Adapt(o, e), v, there)
<1> DEFINE new == Len(w.sent) + 1
           m == Open(CloseCurrent(o), "tool")
           at == Len(m.blocks)
           g == Grow(m, at, new)
           c == Close(g, Len(g.blocks))
           there == Joined(home, new, at)
<1>1. api \in Chunked /\ api \in {"google", "mistral"} /\ api # "completions"
  BY DEF Chunked
<1>2. Kept(o, w.sent, home, Unended(o, w.blocks)) /\ GoogleSlots(o, w)
  BY <1>1, ChunkedFacts DEF Whole
<1>3. Adapt(o, e) = c
  <2> HIDE DEF m
  <2> QED
    BY DEF Adapt, Google, GrowLast, m
<1>4. m = Open(CloseCurrent(o), "tool")
  OBVIOUS
<1> HIDE DEF m
<1>5. \E q : FurtherBlock(o, q, m, w.sent, home, w.blocks, "tool")
  BY <1>1, <1>2, <1>4, NextBlock
<1>6. PICK q : FurtherBlock(o, q, m, w.sent, home, w.blocks, "tool")
  BY <1>5
<1>7. /\ Kept(m, w.sent, home, Unended(q, w.blocks) \cup {at})
      /\ m.blocks[at].kind = "tool"
      /\ At(home, at) = {} /\ at \in DOMAIN m.blocks
      /\ m.slots = o.slots /\ m.current = None /\ q.slots = o.slots /\ q.current = None
  BY <1>6 DEF FurtherBlock, Still
<1>8. DOMAIN o.slots = {} /\ \A r \in DOMAIN w.sent : w.sent[r].n # Len(w.blocks) + 1
  <2>1. Len(w.blocks) \in Nat
    BY WireLen
  <2>2. Len(w.blocks) + 1 \notin 0..Len(w.blocks)
    BY <2>1
  <2> QED
    BY <1>2, <2>2 DEF GoogleSlots
<1>9. Unended(q, w.blocks) = {}
  BY <1>1, <1>7, <1>8, ChunkedUnended
<1> HIDE DEF at
<1>10. Kept(m, w.sent, home, {at})
  BY <1>7, <1>9
<1>11. \A r \in DOMAIN w.sent : home[r] # at
  BY <1>7, <1>10 DEF Kept, Placed, At
<1>12. Takes(m, w.sent, home, at, piece)
  <2>1. piece.n # 0
    <3>1. Len(w.blocks) \in Nat
      BY WireLen
    <3> QED
      BY <3>1
  <2> QED
    BY <1>7, <1>8, <1>11, <2>1 DEF Takes, MayJoin
<1>13. w.sent \in Seq([kind : Kinds, n : Nat]) /\ at \in {at}
  BY DEF Wire
<1>14. Moved(m, g, v.sent, there, {at})
  <2> DEFINE U == {at}
  <2>1. at \in U /\ Kept(m, w.sent, home, U)
    BY <1>10
  <2> HIDE DEF U, g
  <2>2. Moved(m, g, Append(w.sent, piece), Joined(home, Len(w.sent) + 1, at), U)
    BY <1>12, <1>13, <2>1, GrowKept DEF g
  <2> QED
    BY <2>2 DEF U
<1> HIDE DEF g
<1>15. /\ Kept(g, v.sent, there, {at}) /\ at \in DOMAIN g.blocks /\ Len(g.blocks) = at
       /\ g.slots = o.slots /\ g.current = None
  BY <1>7, <1>14 DEF Moved, Beside, at
<1>16. Moved(g, c, v.sent, there, {})
  <2> DEFINE U == {at}
             sent == v.sent
  <2>1. at \in U /\ Kept(g, sent, there, U) /\ c = Close(g, at)
    BY <1>15
  <2> HIDE DEF U, c, there, sent
  <2>2. Moved(g, c, sent, there, U \ {at})
    BY <1>15, <2>1, CloseKept
  <2>3. U \ {at} = {}
    BY DEF U
  <2> QED
    BY <2>2, <2>3 DEF sent
<1> HIDE DEF c, there
<1>17. Kept(c, v.sent, there, {}) /\ c.slots = o.slots /\ c.current = None
  BY <1>15, <1>16 DEF Moved, Beside
<1>18. Unended(c, v.blocks) = {}
  BY <1>1, <1>8, <1>17, ChunkedUnended
<1>19. GoogleSlots(c, v)
  <2>1. piece.n \in 0..Len(v.blocks) /\ Len(w.blocks) <= Len(v.blocks)
    BY WireLen
  <2> QED
    BY <1>2, <1>17, <2>1, GoogleStill
<1>20. Whole(c, v, there)
  BY <1>1, <1>17, <1>18, <1>19, ChunkedFacts DEF Whole
<1> QED
  BY <1>3, <1>20

(* The blocks to end when a key has been given a block. *)
LEMMA MoreUnended ==
    ASSUME api \in {"completions", "mistral"}, NEW o, NEW sent, NEW home, NEW blocks, NEW key, NEW kind, NEW p,
           o.current = None, SlotOpened(o, p, sent, home, Unended(o, blocks), key, kind),
           \A k \in DOMAIN o.slots : o.slots[k] \in DOMAIN o.blocks, key \notin DOMAIN o.slots,
           DOMAIN o.blocks = 1..Len(o.blocks), DOMAIN p.blocks = 1..Len(p.blocks)
    PROVE  Unended(p, blocks) = Unended(o, blocks) \cup {Len(p.blocks)}
<1> DEFINE N == Len(p.blocks)
<1>1. /\ Len(o.blocks) \in Nat /\ N = Len(o.blocks) + 1
      /\ DOMAIN p.slots = DOMAIN o.slots \cup {key} /\ p.slots[key] = N
      /\ \A k \in DOMAIN o.slots : p.slots[k] = o.slots[k]
      /\ p.current = None
  BY DEF SlotOpened
<1>2. DOMAIN p.blocks = DOMAIN o.blocks \cup {N} /\ N \notin DOMAIN o.blocks
  BY <1>1
<1> HIDE DEF N
<1>3. CASE api = "completions"
  <2>1. Unended(p, blocks) = DOMAIN p.blocks /\ Unended(o, blocks) = DOMAIN o.blocks
    BY <1>3, ChunkedUnended DEF Chunked
  <2> QED
    BY <1>2, <2>1 DEF N
<1>4. CASE api = "mistral"
  <2>1. Unended(p, blocks) = {at \in DOMAIN p.blocks : \E k \in DOMAIN p.slots : p.slots[k] = at}
    <3>1. Unended(p, blocks) = {at \in DOMAIN p.blocks :
                    (\E k \in DOMAIN p.slots : p.slots[k] = at) \/ (p.current # None /\ at = Len(p.blocks))}
      BY <1>4, ChunkedUnended DEF Chunked
    <3> QED
      BY <1>1, <3>1
  <2>2. Unended(o, blocks) = {at \in DOMAIN o.blocks : \E k \in DOMAIN o.slots : o.slots[k] = at}
    <3>1. Unended(o, blocks) = {at \in DOMAIN o.blocks :
                    (\E k \in DOMAIN o.slots : o.slots[k] = at) \/ (o.current # None /\ at = Len(o.blocks))}
      BY <1>4, ChunkedUnended DEF Chunked
    <3> QED
      BY <3>1
  <2>3. ASSUME NEW at \in Unended(p, blocks) PROVE at \in Unended(o, blocks) \cup {N}
    BY <1>1, <1>2, <2>1, <2>2, <2>3
  <2>4. ASSUME NEW at \in Unended(o, blocks) \cup {N} PROVE at \in Unended(p, blocks)
    BY <1>1, <1>2, <2>1, <2>2, <2>4
  <2> QED
    BY <2>3, <2>4 DEF N
<1> QED
  BY <1>3, <1>4

(* p has a slot of the key, for a block of the kind. *)
Ensured(o, p, sent, home, blocks, key, kind) ==
    /\ Kept(p, sent, home, Unended(p, blocks)) /\ p.current = None /\ Kinded(o, p)
    /\ DOMAIN p.slots = DOMAIN o.slots \cup {key}
    /\ \A k \in DOMAIN o.slots : p.slots[k] = o.slots[k]
    /\ p.slots[key] \in Unended(p, blocks) /\ p.blocks[p.slots[key]].kind = kind

(* The key has a slot already, or is given one. *)
LEMMA EnsureMakes ==
    ASSUME api \in {"completions", "mistral"}, NEW o, NEW sent, NEW home, NEW blocks,
           Kept(o, sent, home, Unended(o, blocks)), o.current = None,
           NEW key, NEW kind \in Kinds,
           key \in DOMAIN o.slots => o.blocks[o.slots[key]].kind = kind,
           key \notin DOMAIN o.slots => \A q \in DOMAIN sent : KeyOf(sent[q]) # key,
           NEW p, p = Ensure(o, key, kind)
    PROVE  Ensured(o, p, sent, home, blocks, key, kind)
<1>0. api \in Chunked
  BY DEF Chunked
<1>1. Sync(o) /\ Slotted(o, sent, home)
  BY DEF Kept
<1>2. \A k \in DOMAIN o.slots : o.slots[k] \in DOMAIN o.blocks
  BY <1>1 DEF Slotted
<1>3. CASE key \in DOMAIN o.slots
  <2>1. p = o
    BY <1>3 DEF Ensure, Known
  <2>2. o.slots[key] \in Unended(o, blocks)
    BY <1>0, <1>2, <1>3, ChunkedUnended
  <2> QED
    BY <1>3, <2>1, <2>2 DEF Ensured, Kinded
<1>4. CASE key \notin DOMAIN o.slots
  <2> DEFINE U == Unended(o, blocks)
  <2>1. p = OpenSlot(o, key, kind) /\ Kept(o, sent, home, U)
    BY <1>4 DEF Ensure, Known
  <2> HIDE DEF U
  <2>2. SlotOpened(o, p, sent, home, U, key, kind)
    BY <1>4, <2>1, OpenSlotKept
  <2>3. Sync(p)
    BY <2>2 DEF SlotOpened, Kept
  <2>4. DOMAIN o.blocks = 1..Len(o.blocks) /\ DOMAIN p.blocks = 1..Len(p.blocks)
    BY <1>1, <2>3, OutputLen
  <2>5. Unended(p, blocks) = U \cup {Len(p.blocks)}
    BY <1>2, <1>4, <2>2, <2>4, MoreUnended DEF U
  <2> QED
    BY <2>2, <2>5 DEF SlotOpened, Ensured
<1> QED
  BY <1>3, <1>4

(* The slot of a key takes a piece of that key. *)
LEMMA SlotTakes ==
    ASSUME NEW p, NEW sent, NEW home, Slotted(p, sent, home), NEW piece, KeyOf(piece) \in DOMAIN p.slots,
           p.current = None, p.blocks[p.slots[KeyOf(piece)]].kind = piece.kind,
           piece.n # 0 => \A q \in DOMAIN sent : KeyOf(sent[q]) = KeyOf(piece) <=> sent[q].n = piece.n,
           piece.n = 0 => \A q \in DOMAIN sent : KeyOf(sent[q]) = KeyOf(piece) => sent[q].n = 0
    PROVE  Takes(p, sent, home, p.slots[KeyOf(piece)], piece)
<1> DEFINE key == KeyOf(piece)
           at == p.slots[key]
<1>1. /\ at \in DOMAIN p.blocks
      /\ \A k \in DOMAIN p.slots : p.slots[k] = at <=> key = k
      /\ \A q \in DOMAIN sent : home[q] = at <=> KeyOf(sent[q]) = key
  BY DEF Slotted
<1>2. MayJoin(sent, home, at, piece.n)
  <2> HIDE DEF at
  <2>1. piece.n # 0 => \A q \in DOMAIN sent : home[q] = at <=> sent[q].n = piece.n
    BY <1>1
  <2>2. piece.n = 0 => \A q \in DOMAIN sent : home[q] = at => sent[q].n = 0
    BY <1>1
  <2> QED
    BY <2>1, <2>2 DEF MayJoin
<1> QED
  BY <1>1, <1>2 DEF Takes

(* g is o with the piece in the block of the key. *)
Grown(o, g, v, there, key, piece) ==
    /\ Kept(g, v.sent, there, Unended(g, v.blocks)) /\ g.current = None /\ Kinded(o, g)
    /\ DOMAIN g.slots = DOMAIN o.slots \cup {key}
    /\ \A k \in DOMAIN o.slots : g.slots[k] = o.slots[k]
    /\ g.blocks[g.slots[key]].kind = piece.kind

(* A piece for the slot of its key. *)
LEMMA KeyedGrows ==
    ASSUME api \in {"completions", "mistral"}, NEW o, NEW w \in Wire, NEW home,
           Kept(o, w.sent, home, Unended(o, w.blocks)), o.current = None,
           NEW piece, NEW key, key = KeyOf(piece), piece.kind \in Kinds,
           key \in DOMAIN o.slots => o.blocks[o.slots[key]].kind = piece.kind,
           key \notin DOMAIN o.slots => \A q \in DOMAIN w.sent : KeyOf(w.sent[q]) # key,
           piece.n # 0 => \A q \in DOMAIN w.sent : KeyOf(w.sent[q]) = key <=> w.sent[q].n = piece.n,
           piece.n = 0 => \A q \in DOMAIN w.sent : KeyOf(w.sent[q]) = key => w.sent[q].n = 0,
           NEW v, v.sent = Append(w.sent, piece),
           NEW p, p = Ensure(o, key, piece.kind),
           NEW g, g = Grow(p, p.slots[key], Len(w.sent) + 1)
    PROVE  \E there : Grown(o, g, v, there, key, piece)
<1> DEFINE at == p.slots[key]
           there == Joined(home, Len(w.sent) + 1, at)
<1>0. api \in Chunked
  BY DEF Chunked
<1>1. Ensured(o, p, w.sent, home, w.blocks, key, piece.kind)
  BY EnsureMakes
<1>2. /\ Kept(p, w.sent, home, Unended(p, w.blocks)) /\ p.current = None /\ Kinded(o, p)
      /\ DOMAIN p.slots = DOMAIN o.slots \cup {key}
      /\ \A k \in DOMAIN o.slots : p.slots[k] = o.slots[k]
      /\ at \in Unended(p, w.blocks) /\ p.blocks[at].kind = piece.kind
  BY <1>1 DEF Ensured
<1>3. Slotted(p, w.sent, home)
  BY <1>2 DEF Kept
<1>4. Takes(p, w.sent, home, at, piece) /\ at \in DOMAIN p.blocks
  <2>1. KeyOf(piece) \in DOMAIN p.slots /\ p.blocks[p.slots[KeyOf(piece)]].kind = piece.kind
    BY <1>2
  <2>2. Takes(p, w.sent, home, p.slots[KeyOf(piece)], piece)
    BY <1>2, <1>3, <2>1, SlotTakes
  <2> QED
    BY <2>2 DEF Takes
<1> HIDE DEF at
<1>5. Moved(p, g, v.sent, there, Unended(g, v.blocks))
  <2>1. g = Grow(p, at, Len(w.sent) + 1) /\ w \in Wire /\ v.sent = Append(w.sent, piece)
    BY DEF at
  <2>2. Kept(p, w.sent, home, Unended(p, w.blocks)) /\ at \in Unended(p, w.blocks)
    BY <1>2
  <2> QED
    BY ONLY <1>0, <1>4, <2>1, <2>2, ChunkedGrows
<1> HIDE DEF there
<1>6. /\ Kept(g, v.sent, there, Unended(g, v.blocks)) /\ Kinded(p, g)
      /\ g.slots = p.slots /\ g.current = None
  BY <1>2, <1>5 DEF Moved, Beside
<1>7. Kinded(o, g)
  BY <1>2, <1>6 DEF Kinded
<1>8. g.blocks[g.slots[key]].kind = piece.kind
  <2>1. g.slots[key] = at
    BY <1>6 DEF at
  <2>2. g.blocks[at].kind = p.blocks[at].kind
    BY <1>4, <1>6 DEF Kinded
  <2> QED
    BY <1>2, <2>1, <2>2
<1>9. Grown(o, g, v, there, key, piece)
  BY <1>2, <1>6, <1>7, <1>8 DEF Grown
<1> QED
  BY <1>9

(* A piece of a tool call. *)
LEMMA MistralCallKeepsWhole ==
    ASSUME api = "mistral", NEW o, NEW w \in Wire, NEW home, Whole(o, w, home),
           NEW piece, piece.kind = "tool", piece.n # 0,
           NEW v, v.sent = Append(w.sent, piece),
           NEW e, e.kind = "tool", e.n = piece.n, e.piece = Len(w.sent) + 1
    PROVE  \E there : Whole(Adapt(o, e), v, there)
<1> DEFINE q == CloseCurrent(o)
           key == e.n
           p == Ensure(q, key, "tool")
           g == Grow(p, p.slots[key], Len(w.sent) + 1)
<1>1. api \in Chunked /\ api \in {"google", "mistral"} /\ api # "completions" /\ api \in {"completions", "mistral"}
  BY DEF Chunked
<1>2. Kept(o, w.sent, home, Unended(o, w.blocks)) /\ MistralSlots(o, w)
  BY <1>1, ChunkedFacts DEF Whole
<1>3. Adapt(o, e) = g
  BY DEF Adapt, Mistral
<1> HIDE DEF q
<1>4. Still(o, q, w.sent, home, w.blocks) /\ q.current = None
  BY <1>1, <1>2, CurrentEnds DEF q
<1>5. /\ Kept(q, w.sent, home, Unended(q, w.blocks)) /\ q.slots = o.slots /\ Kinded(o, q)
      /\ Slotted(o, w.sent, home)
  BY <1>2, <1>4 DEF Still, Kept
<1>6. \A k \in DOMAIN o.slots : o.slots[k] \in DOMAIN o.blocks
  BY <1>5 DEF Slotted
<1>7. key \in DOMAIN q.slots => q.blocks[q.slots[key]].kind = piece.kind
  BY <1>2, <1>5, <1>6 DEF MistralSlots, Kinded
<1>8. /\ KeyOf(piece) = key /\ \A r \in DOMAIN w.sent : KeyOf(w.sent[r]) = w.sent[r].n
      /\ piece.kind \in Kinds
  BY <1>1, ChunkedFacts DEF Kinds
<1>9. key \notin DOMAIN q.slots => \A r \in DOMAIN w.sent : KeyOf(w.sent[r]) # key
  BY <1>2, <1>5, <1>8 DEF MistralSlots
<1>10. p = Ensure(q, key, piece.kind)
  OBVIOUS
<1>11. piece.n # 0 => \A r \in DOMAIN w.sent : KeyOf(w.sent[r]) = key <=> w.sent[r].n = piece.n
  BY <1>8
<1> HIDE DEF p, g, key
<1>12. \E there : Grown(q, g, v, there, key, piece)
  BY <1>1, <1>4, <1>5, <1>7, <1>8, <1>9, <1>10, <1>11, KeyedGrows DEF g
<1>13. PICK there : Grown(q, g, v, there, key, piece)
  BY <1>12
<1>16. /\ Kept(g, v.sent, there, Unended(g, v.blocks)) /\ g.current = None /\ Kinded(q, g)
       /\ DOMAIN g.slots = DOMAIN q.slots \cup {key}
       /\ \A k \in DOMAIN q.slots : g.slots[k] = q.slots[k]
       /\ g.blocks[g.slots[key]].kind = piece.kind
  BY <1>13 DEF Grown
<1>14. MistralSlots(g, v)
  <2>1. Kinded(o, g) /\ DOMAIN o.slots \subseteq DOMAIN g.slots /\ \A k \in DOMAIN o.slots : g.slots[k] = o.slots[k]
    BY <1>5, <1>16 DEF Kinded
  <2>2. g.current # "tool"
    BY <1>16, NoneAssumption DEF Kinds
  <2>3. \A k \in DOMAIN g.slots \ DOMAIN o.slots : k # 0 /\ g.blocks[g.slots[k]].kind = "tool"
    BY <1>5, <1>16 DEF key
  <2>4. piece.n \in DOMAIN g.slots
    BY <1>16 DEF key
  <2> QED
    BY <1>2, <1>6, <2>1, <2>2, <2>3, <2>4, MistralStill
<1>15. Whole(g, v, there)
  BY <1>1, <1>16, <1>14, ChunkedFacts DEF Whole
<1> QED
  BY <1>3, <1>15

(* A piece of the text, the thinking or a tool call. *)
LEMMA CompletionsKeepsWhole ==
    ASSUME api = "completions", NEW o, NEW w \in Wire, NEW home, Whole(o, w, home),
           NEW piece, piece.kind \in Kinds, piece.n # 0 <=> piece.kind = "tool",
           NEW v, v.sent = Append(w.sent, piece),
           NEW e, e.kind = piece.kind, e.n = piece.n, e.piece = Len(w.sent) + 1
    PROVE  \E there : Whole(Adapt(o, e), v, there)
<1> DEFINE key == Key(e)
           p == Ensure(o, key, e.kind)
           g == Grow(p, p.slots[key], Len(w.sent) + 1)
<1>1. api \in Chunked /\ api \in {"completions", "mistral"}
  BY DEF Chunked
<1>2. Kept(o, w.sent, home, Unended(o, w.blocks)) /\ CompletionsSlots(o, w)
  BY <1>1, ChunkedFacts DEF Whole
<1>3. Adapt(o, e) = g
  BY DEF Adapt, Completions
<1>4. o.current = None
  BY <1>2 DEF CompletionsSlots
<1>5. /\ key = KeyOf(piece) /\ key[1] = piece.kind /\ key = <<piece.kind, piece.n>>
      /\ \A r \in DOMAIN w.sent : KeyOf(w.sent[r]) = <<w.sent[r].kind, w.sent[r].n>>
  BY <1>1, ChunkedFacts DEF Key
<1> HIDE DEF key
<1>6. key \in DOMAIN o.slots => o.blocks[o.slots[key]].kind = piece.kind
  BY <1>2, <1>5 DEF CompletionsSlots
<1>7. key \notin DOMAIN o.slots => \A r \in DOMAIN w.sent : KeyOf(w.sent[r]) # key
  BY <1>2 DEF CompletionsSlots
<1>8. piece.n # 0 => \A r \in DOMAIN w.sent : KeyOf(w.sent[r]) = key <=> w.sent[r].n = piece.n
  BY <1>2, <1>5 DEF CompletionsSlots
<1>9. piece.n = 0 => \A r \in DOMAIN w.sent : KeyOf(w.sent[r]) = key => w.sent[r].n = 0
  BY <1>5
<1>10. p = Ensure(o, key, piece.kind)
  OBVIOUS
<1> HIDE DEF p, g
<1>12. \E there : Grown(o, g, v, there, key, piece)
  BY <1>1, <1>2, <1>4, <1>5, <1>6, <1>7, <1>8, <1>9, <1>10, KeyedGrows DEF g
<1>13. PICK there : Grown(o, g, v, there, key, piece)
  BY <1>12
<1>16. /\ Kept(g, v.sent, there, Unended(g, v.blocks)) /\ g.current = None /\ Kinded(o, g)
       /\ DOMAIN g.slots = DOMAIN o.slots \cup {key}
       /\ \A k \in DOMAIN o.slots : g.slots[k] = o.slots[k]
       /\ g.blocks[g.slots[key]].kind = piece.kind
  BY <1>13 DEF Grown
<1>14. CompletionsSlots(g, v)
  <2>1. \A k \in DOMAIN g.slots : g.blocks[g.slots[k]].kind = k[1]
    <3>1. \A k \in DOMAIN o.slots : o.slots[k] \in DOMAIN o.blocks
      BY <1>2 DEF Kept, Slotted
    <3> QED
      BY <1>2, <1>5, <1>16, <3>1 DEF CompletionsSlots, Kinded
  <2>2. \A r \in DOMAIN v.sent : v.sent[r] = piece \/ \E s \in DOMAIN w.sent : v.sent[r] = w.sent[s]
    BY OneMoreSent
  <2>3. \A r \in DOMAIN v.sent :
          KeyOf(v.sent[r]) \in DOMAIN g.slots /\ (v.sent[r].n # 0 <=> v.sent[r].kind = "tool")
    BY <1>2, <1>5, <1>16, <2>2 DEF CompletionsSlots
  <2> QED
    BY <1>16, <2>1, <2>3 DEF CompletionsSlots
<1>15. Whole(g, v, there)
  BY <1>1, <1>16, <1>14, ChunkedFacts DEF Whole
<1> QED
  BY <1>3, <1>15

-----------------------------------------------------------------------------
(* How a reply that is done ends *)

(* Every block that has not ended is ended, one after the other. *)
LEMMA EndBlocksEnds ==
    ASSUME api \in {"completions", "mistral"}, NEW o, NEW sent, NEW home, NEW blocks,
           Kept(o, sent, home, Unended(o, blocks)), o.current = None
    PROVE  Kept(EndBlocks(o), sent, home, {})
<1> DEFINE n == Len(o.blocks)
           at == [i \in DOMAIN o.blocks |-> i]
           U == Unended(o, blocks)
           Left(k) == U \ (1..k)
<1>0. api \in Chunked
  BY DEF Chunked
<1>1. n \in Nat /\ DOMAIN o.blocks = 1..n /\ DOMAIN at = 1..n /\ \A i \in 1..n : at[i] = i
  BY OutputLen DEF Kept
<1>2. /\ U \subseteq 1..n
      /\ \A b \in 1..n : b \in U <=> api = "completions" \/ \E k \in DOMAIN o.slots : o.slots[k] = b
  <2>1. CASE api = "completions"
    BY <1>0, <1>1, <2>1, ChunkedUnended
  <2>2. CASE api # "completions"
    <3>1. U = {b \in DOMAIN o.blocks :
                    (\E k \in DOMAIN o.slots : o.slots[k] = b) \/ (o.current # None /\ b = Len(o.blocks))}
      BY <1>0, <2>2, ChunkedUnended
    <3> QED
      BY <1>1, <2>2, <3>1
  <2> QED
    BY <2>1, <2>2
<1>3. Kept(o, sent, home, U)
  OBVIOUS
<1> HIDE DEF n, U
<1>4. EndBlocks(o) = (CHOOSE f : Iterates(f, "end", o, at, n))[1..n]
  <2> HIDE DEF at
  <2>1. FoldLeft(EndBlock, o, at) = (CHOOSE f : f = [s \in SUBSET DOMAIN at |-> IF s = {} THEN o
                          ELSE EndBlock(f[s \ {Max(s)}], at[Max(s)])])[DOMAIN at]
    BY DEF FoldLeft, MapThenFoldSet
  <2>2. FoldLeft(EndBlock, o, at) = (CHOOSE f : Iterates(f, "end", o, at, n))[1..n]
    BY <1>1, <2>1 DEF Iterates, Step, Apply
  <2> QED
    BY <2>2 DEF EndBlocks, at
<1> HIDE DEF at
<1>5. Iterates(CHOOSE f : Iterates(f, "end", o, at, n), "end", o, at, n)
  BY <1>1, IterationExists, Zenon
<1>6. PICK f : Iterates(f, "end", o, at, n) /\ EndBlocks(o) = f[1..n]
  BY <1>4, <1>5
<1> DEFINE T == {k \in Nat : k <= n => Moved(o, f[1..k], sent, home, Left(k))}
<1>7. 0 \in T
  <2>1. f[1..0] = o
    BY <1>1, <1>6, IterationStarts
  <2>2. Left(0) = U
    OBVIOUS
  <2>3. Moved(o, o, sent, home, U)
    BY <1>3 DEF Moved, Kinded, Beside
  <2> QED
    BY <2>1, <2>2, <2>3
<1>8. ASSUME NEW k \in Nat, k \in T PROVE k + 1 \in T
  <2> SUFFICES ASSUME k + 1 <= n PROVE Moved(o, f[1..k + 1], sent, home, Left(k + 1))
    OBVIOUS
  <2> DEFINE x == f[1..k]
             y == f[1..k + 1]
             V == Left(k)
  <2>1. k < n /\ Moved(o, x, sent, home, V) /\ k + 1 \in 1..n
    BY <1>1, <1>8
  <2>2. y = EndBlock(x, k + 1)
    <3>1. y = Apply("end", x, at[k + 1])
      BY <1>1, <1>6, <2>1, IterationGoesOn
    <3> HIDE DEF x, y
    <3> QED
      BY <1>1, <2>1, <3>1 DEF Apply
  <2> HIDE DEF x, y
  <2>3. /\ Kept(x, sent, home, V) /\ DOMAIN x.blocks = DOMAIN o.blocks /\ Len(x.blocks) = Len(o.blocks)
        /\ Kinded(o, x) /\ x.slots = o.slots /\ x.current = o.current
    BY <2>1 DEF Moved, Beside
  <2>4. CASE k + 1 \in U
    <3>1. k + 1 \in V /\ Left(k + 1) = V \ {k + 1}
      BY <2>4
    <3> HIDE DEF V
    <3>2. y = Close(x, k + 1)
      BY <1>2, <2>1, <2>2, <2>3, <2>4 DEF EndBlock
    <3>3. Moved(x, y, sent, home, V \ {k + 1})
      BY <1>1, <2>1, <2>3, <3>1, <3>2, CloseKept
    <3> DEFINE W == V \ {k + 1}
    <3>4. Moved(x, y, sent, home, W)
      BY <3>3
    <3> HIDE DEF W
    <3>5. Moved(o, y, sent, home, W)
      BY <2>3, <3>4 DEF Moved, Kinded, Beside
    <3> QED
      BY <3>1, <3>5 DEF W, y
  <2>5. CASE k + 1 \notin U
    <3>1. Left(k + 1) = V
      BY <1>2, <2>5
    <3>2. y = x
      BY <1>2, <2>1, <2>2, <2>3, <2>5 DEF EndBlock
    <3> QED
      BY <2>1, <3>1, <3>2 DEF x, y
  <2> QED
    BY <2>4, <2>5
<1> HIDE DEF T
<1>9. n \in T
  BY <1>1, <1>7, <1>8, SetInduction
<1>10. Left(n) = {}
  BY <1>2
<1>11. Moved(o, EndBlocks(o), sent, home, Left(n))
  BY <1>1, <1>6, <1>9 DEF T
<1> QED
  BY <1>10, <1>11 DEF Moved

(* The blocks of the numbers that the provider has not stopped. *)
LeftOpen(o, w) ==
    {o.slots[n] : n \in {m \in DOMAIN o.slots : api \in Numbered /\ w.blocks[m].open}}

(* When the adapter is done every block has ended but those that were not stopped. *)
LEMMA SettleEnds ==
    ASSUME api \in Numbered \cup Chunked, NEW o, NEW w, NEW home, Whole(o, w, home)
    PROVE  /\ Kept(Settle(o), w.sent, home, LeftOpen(o, w))
           /\ api \in Numbered => Settle(o) = o
<1>0. api \notin Numbered => LeftOpen(o, w) = {}
  BY DEF LeftOpen
<1>5. api \in Chunked => api \notin Numbered
  BY DEF Chunked, Numbered
<1>1. Kept(o, w.sent, home, Unended(o, w.blocks)) /\ Slots(o, w)
  BY DEF Whole
<1>2. CASE api \in Numbered
  <2>1. NumberedSlots(o, w)
    BY <1>1, <1>2, NumberedFacts
  <2>2. Unended(o, w.blocks) = Live(o, w.blocks)
    BY <1>2, <2>1, NumberedFacts DEF NumberedSlots
  <2>3. Live(o, w.blocks) = LeftOpen(o, w)
    <3>1. \A k \in DOMAIN o.slots : o.slots[k] \in DOMAIN o.blocks
      BY <1>1 DEF Kept, Slotted
    <3>2. \A k \in DOMAIN o.slots : api # "pi" => w.blocks[k].open
      BY <2>1 DEF NumberedSlots
    <3> QED
      BY <1>2, <3>1, <3>2 DEF Live, LeftOpen
  <2>4. Settle(o) = o
    BY <1>2 DEF Numbered, Settle
  <2> QED
    BY <1>1, <2>2, <2>3, <2>4
<1>3. CASE api = "completions"
  <2>1. o.current = None
    BY <1>1, <1>3, ChunkedFacts DEF CompletionsSlots, Chunked
  <2>2. Settle(o) = EndBlocks(o)
    BY <1>3 DEF Settle
  <2> QED
    BY <1>0, <1>1, <1>3, <1>5, <2>1, <2>2, EndBlocksEnds DEF Chunked
<1>4. CASE api \in {"google", "mistral"}
  <2> DEFINE p == CloseCurrent(o)
  <2>1. p = CloseCurrent(o)
    OBVIOUS
  <2> HIDE DEF p
  <2>2. Still(o, p, w.sent, home, w.blocks) /\ p.current = None
    BY <1>1, <1>4, <2>1, CurrentEnds
  <2>3. Kept(p, w.sent, home, Unended(p, w.blocks)) /\ p.slots = o.slots
    BY <2>2 DEF Still
  <2>4. CASE api = "google"
    <3>1. DOMAIN o.slots = {}
      BY <1>1, <2>4, ChunkedFacts DEF GoogleSlots, Chunked
    <3>2. Unended(p, w.blocks) = {at \in DOMAIN p.blocks :
                    (\E k \in DOMAIN p.slots : p.slots[k] = at) \/ (p.current # None /\ at = Len(p.blocks))}
      BY <2>4, ChunkedUnended DEF Chunked
    <3>3. Unended(p, w.blocks) = {}
      BY <2>2, <2>3, <3>1, <3>2
    <3>4. Settle(o) = p
      BY <2>1, <2>4 DEF Settle
    <3> QED
      BY <1>0, <1>5, <2>3, <2>4, <3>3, <3>4 DEF Chunked
  <2>5. CASE api = "mistral"
    <3>1. Settle(o) = EndBlocks(p)
      BY <2>1, <2>5 DEF Settle
    <3> QED
      BY <1>0, <1>5, <2>2, <2>3, <2>5, <3>1, EndBlocksEnds DEF Chunked
  <2> QED
    BY <1>4, <2>4, <2>5
<1> QED
  BY <1>2, <1>3, <1>4 DEF Chunked

(* q is o with the last event. *)
Ended(o, q, type, blocks) ==
    /\ q.log # <<>> /\ Last(q.log).type = type /\ Last(q.log).message = blocks
    /\ DOMAIN o.log \subseteq DOMAIN q.log
    /\ \A at : \A kind \in {"block_start", "block_delta", "block_end"} :
         EventsOf(q.log, kind, at) = EventsOf(o.log, kind, at)

(* One event more, of another type. *)
LEMMA LastEventTold ==
    ASSUME NEW o, Sync(o), NEW type \in {"done", "error"}, NEW blocks, NEW q, q = Finish(o, type, blocks)
    PROVE  Ended(o, q, type, blocks)
<1> DEFINE event == [type |-> type, message |-> blocks]
<1>1. event.type = type /\ event.message = blocks
  OBVIOUS
<1>2. q = [o EXCEPT !.log = Append(@, event)]
  BY DEF Finish
<1> HIDE DEF event
<1>3. q.log = Append(o.log, event)
  BY <1>2 DEF Sync, Output
<1>4. PICK E : o.log \in Seq(E)
  BY DEF Sync
<1>5. /\ Len(o.log) \in Nat /\ DOMAIN q.log = DOMAIN o.log \cup {Len(o.log) + 1}
      /\ Len(q.log) = Len(o.log) + 1 /\ q.log[Len(o.log) + 1] = event
  <2>1. o.log \in Seq(E \cup {event}) /\ event \in E \cup {event}
    BY <1>4
  <2> QED
    BY <1>3, <2>1
<1>6. q.log # <<>> /\ Last(q.log) = event
  <2>1. Len(q.log) # 0
    BY <1>5
  <2> QED
    BY <1>5, <2>1 DEF Last
<1>7. ASSUME NEW kind \in {"block_start", "block_delta", "block_end"}, NEW at
      PROVE  EventsOf(q.log, kind, at) = EventsOf(o.log, kind, at)
  <2>1. event.type # kind
    BY <1>1
  <2> QED
    BY <1>3, <1>4, <2>1, OneMoreEvent
<1> QED
  BY <1>1, <1>5, <1>6, <1>7 DEF Ended

(* A reply that is done with every piece in its place. *)
LEMMA WholeWhenDone ==
    ASSUME NEW o, NEW home, NEW U, Kept(o, wire'.sent, home, U), out' = Finish(o, "done", o.blocks),
           U = Unstopped'
    PROVE  DoneIsWhole'
<1> DEFINE sent == wire'.sent
           blocks == o.blocks
           log == out'.log
<1>1. Sync(o) /\ Placed(blocks, sent, home) /\ Told(o.log, Len(blocks), U)
  BY DEF Kept
<1>2. /\ log # <<>> /\ Last(log).message = blocks
      /\ DOMAIN o.log \subseteq DOMAIN log
      /\ \A at : \A kind \in {"block_start", "block_delta", "block_end"} :
           EventsOf(log, kind, at) = EventsOf(o.log, kind, at)
      /\ out'.blocks = blocks
  <2>1. out'.blocks = blocks
    <3> DEFINE longer == Append(o.log, [type |-> "done", message |-> o.blocks])
    <3>1. out' = [o EXCEPT !.log = longer]
      BY DEF Finish
    <3> HIDE DEF longer
    <3> QED
      BY <1>1, <3>1 DEF Sync, Output
  <2> DEFINE q == out'
  <2>2. q = Finish(o, "done", blocks) /\ "done" \in {"done", "error"}
    OBVIOUS
  <2> HIDE DEF q, blocks
  <2>3. Ended(o, q, "done", blocks)
    BY <1>1, <2>2, LastEventTold
  <2> QED
    BY <2>1, <2>3 DEF Ended, q
<1>3. DOMAIN blocks = 1..Len(blocks)
  BY <1>1, OutputLen
<1> HIDE DEF sent, log, blocks
<1>4. /\ DOMAIN home = DOMAIN sent
      /\ \A p \in DOMAIN sent : home[p] \in DOMAIN blocks /\ blocks[home[p]].kind = sent[p].kind
      /\ \A at \in DOMAIN blocks : Lists(blocks[at].pieces, At(home, at))
      /\ \A p, q \in DOMAIN sent : sent[p].n # 0 => (home[q] = home[p] <=> sent[q].n = sent[p].n)
  BY <1>1 DEF Placed
<1> DEFINE Has(at, piece) == \E i \in DOMAIN blocks[at].pieces : blocks[at].pieces[i] = piece
<1>5. ASSUME NEW at \in DOMAIN blocks
      PROVE  \A piece : Has(at, piece) <=> piece \in DOMAIN sent /\ home[piece] = at
  <2>1. ToSet(blocks[at].pieces) = At(home, at)
    BY <1>4 DEF Lists
  <2> QED
    BY <1>4, <2>1 DEF ToSet, At
<1> HIDE DEF Has
<1>6. ASSUME NEW piece \in DOMAIN sent
      PROVE  \E at \in DOMAIN blocks :
                /\ blocks[at].kind = sent[piece].kind
                /\ {b \in DOMAIN blocks : Has(b, piece)} = {at}
                /\ \A other \in DOMAIN sent : sent[piece].n # 0 => (Has(at, other) <=> sent[other].n = sent[piece].n)
  <2> DEFINE at == home[piece]
  <2>1. at \in DOMAIN blocks /\ blocks[at].kind = sent[piece].kind
    BY <1>4
  <2>2. {b \in DOMAIN blocks : Has(b, piece)} = {at}
    BY <1>5, <2>1
  <2>3. \A other \in DOMAIN sent : sent[piece].n # 0 => (Has(at, other) <=> sent[other].n = sent[piece].n)
    BY <1>4, <1>5, <2>1
  <2> QED
    BY <2>1, <2>2, <2>3
<1>7. ASSUME NEW at \in DOMAIN blocks
      PROVE  /\ Increasing(blocks[at].pieces)
             /\ \E first \in DOMAIN log :
                  /\ EventsOf(log, "block_start", at) = {first}
                  /\ \A i \in EventsOf(log, "block_delta", at) : first < i
             /\ at \in U => EventsOf(log, "block_end", at) = {}
             /\ at \notin U => \E last \in DOMAIN log :
                  /\ EventsOf(log, "block_end", at) = {last}
                  /\ \A i \in EventsOf(log, "block_delta", at) : i < last
  <2>1. Increasing(blocks[at].pieces)
    BY <1>4 DEF Lists
  <2>2. at \in 1..Len(blocks)
    BY <1>3
  <2>3. PICK first \in DOMAIN o.log :
          /\ EventsOf(o.log, "block_start", at) = {first}
          /\ \A i \in EventsOf(o.log, "block_delta", at) : first < i
    BY <1>1, <2>2 DEF Told
  <2>4. ASSUME at \in U PROVE EventsOf(log, "block_end", at) = {}
    <3>1. at \in 1..Len(blocks) \cap U
      BY <2>2, <2>4
    <3>2. EventsOf(o.log, "block_end", at) = {}
      BY <1>1, <3>1 DEF Told
    <3> QED
      BY <1>2, <3>2
  <2>5. ASSUME at \notin U
        PROVE  \E last \in DOMAIN log :
                  /\ EventsOf(log, "block_end", at) = {last}
                  /\ \A i \in EventsOf(log, "block_delta", at) : i < last
    <3>1. at \in 1..Len(blocks) \ U
      BY <2>2, <2>5
    <3>2. PICK last \in DOMAIN o.log :
            /\ EventsOf(o.log, "block_end", at) = {last}
            /\ \A i \in EventsOf(o.log, "block_delta", at) : i < last
      BY <1>1, <3>1 DEF Told
    <3> QED
      BY <1>2, <3>2
  <2>6. \E f \in DOMAIN log :
           /\ EventsOf(log, "block_start", at) = {f}
           /\ \A i \in EventsOf(log, "block_delta", at) : f < i
    BY <1>2, <2>3
  <2> QED
    BY <2>1, <2>4, <2>5, <2>6
<1>8. \A type, at : Events(type, at)' = EventsOf(log, type, at)
  BY DEF Events, EventsOf, log
<1>9. \A at, piece : Holds(at, piece)' <=> Has(at, piece)
  BY <1>2 DEF Holds, Has
<1> QED
  BY <1>2, <1>6, <1>7, <1>8, <1>9 DEF DoneIsWhole, log, sent

-----------------------------------------------------------------------------
(* Every step keeps the pieces in their places *)

AllPlaced ==
    /\ api \in Numbered \cup Chunked
    /\ wire \in Wire
    /\ wire.stage = "calling" =>
        /\ wire.blocks = <<>> /\ wire.sent = <<>>
        /\ out = [blocks |-> <<>>, log |-> <<>>, slots |-> <<>>, current |-> None]
    /\ wire.stage = "streaming" => \E home : Whole(out, wire, home)
    /\ wire.stage = "over" => DoneIsWhole

(* Before a reply is over no event says that it is done. *)
LEMMA NotYetDone == AllPlaced => DoneIsWhole
<1> SUFFICES ASSUME AllPlaced PROVE DoneIsWhole
  OBVIOUS
<1>1. CASE wire.stage = "calling"
  BY <1>1 DEF AllPlaced, DoneIsWhole
<1>2. CASE wire.stage = "streaming"
  <2>1. PICK home : Whole(out, wire, home)
    BY <1>2 DEF AllPlaced
  <2>2. Sync(out) /\ \A i \in DOMAIN out.log : out.log[i].type # "done"
    BY <2>1 DEF Whole, Kept, Told
  <2>3. PICK E : out.log \in Seq(E)
    BY <2>2 DEF Sync
  <2>4. out.log # <<>> => Last(out.log).type # "done"
    BY <2>2, <2>3 DEF Last
  <2> QED
    BY <2>4 DEF DoneIsWhole
<1>3. CASE wire.stage = "over"
  BY <1>3 DEF AllPlaced
<1> QED
  BY <1>1, <1>2, <1>3 DEF AllPlaced, Wire

(* Nothing has been sent. *)
LEMMA InitPlaced == ReplyInit => AllPlaced
<1> SUFFICES ASSUME ReplyInit PROVE AllPlaced
  OBVIOUS
<1>1. wire.stage = "calling" /\ wire.blocks = <<>> /\ wire.sent = <<>> /\ wire \in Wire
  <2>1. <<>> \in Seq([kind : Kinds \cup {"other"}, open : BOOLEAN]) /\ <<>> \in Seq([kind : Kinds, n : Nat])
    OBVIOUS
  <2> QED
    BY <2>1 DEF ReplyInit, Wire
<1> QED
  BY <1>1, ApisAssumption DEF ReplyInit, AllPlaced

(* The adapter stays the same. *)
LEMMA SameAdapter ==
    ASSUME api' = api, NEW there, Whole(out', wire', there)
    PROVE  (\E home : Whole(out, wire, home))'
<1>1. Whole(out, wire, there)'
  BY DEF Whole, Kept, Slots, Unended, Slotted, KeyOf, NumberedSlots, CompletionsSlots, GoogleSlots, MistralSlots
<1> QED
  BY <1>1

(* The adapter has been given an event. *)
LEMMA ReceivePlaced ==
    ASSUME AllPlaced, api' = api, wire' \in Wire, wire'.stage = "streaming",
           \E there : Whole(out', wire', there)
    PROVE  AllPlaced'
  BY SameAdapter DEF AllPlaced

(* What the provider has sent and numbered when the adapter is given an event. *)
LEMMA WireGoesOn ==
    ASSUME wire \in Wire, NEW e, NEW blocks \in Seq([kind : Kinds \cup {"other"}, open : BOOLEAN])
    PROVE  /\ Receive(e, blocks, <<>>) =>
                wire' \in Wire /\ wire'.stage = "streaming" /\ wire'.blocks = blocks /\ wire'.sent = wire.sent
           /\ \A piece \in [kind : Kinds, n : Nat] : Receive(e, blocks, <<piece>>) =>
                /\ wire' \in Wire /\ wire'.stage = "streaming" /\ wire'.blocks = blocks
                /\ wire'.sent = Append(wire.sent, piece)
<1> DEFINE P == [kind : Kinds, n : Nat]
           B == [kind : Kinds \cup {"other"}, open : BOOLEAN]
<1>1. wire.sent \in Seq(P) /\ wire = [stage |-> wire.stage, blocks |-> wire.blocks, sent |-> wire.sent]
      /\ wire.stage \in {"calling", "streaming", "over"}
  BY DEF Wire
<1>2. Wire = [stage : {"calling", "streaming", "over"}, blocks : Seq(B), sent : Seq(P)]
  BY DEF Wire
<1> HIDE DEF P, B
<1>3. ASSUME NEW sent, sent \in Seq(P), NEW more, more = <<>> \/ \E piece \in P : more = <<piece>>,
             sent = wire.sent \o more, Receive(e, blocks, more)
      PROVE  wire' \in Wire /\ wire'.stage = "streaming" /\ wire'.blocks = blocks /\ wire'.sent = sent
  <2>1. wire' = [wire EXCEPT !.blocks = blocks, !.sent = sent] /\ wire.stage = "streaming"
    BY <1>3 DEF Receive
  <2>2. wire' = [stage |-> "streaming", blocks |-> blocks, sent |-> sent]
    BY <1>1, <2>1
  <2>3. blocks \in Seq(B)
    BY DEF B
  <2> QED
    BY <1>2, <1>3, <2>2, <2>3
<1>4. ASSUME Receive(e, blocks, <<>>)
      PROVE  wire' \in Wire /\ wire'.stage = "streaming" /\ wire'.blocks = blocks /\ wire'.sent = wire.sent
  <2>1. wire.sent = wire.sent \o <<>>
    BY <1>1, ConcatEmptySeq
  <2> QED
    BY <1>1, <1>3, <1>4, <2>1
<1>5. ASSUME NEW piece \in P, Receive(e, blocks, <<piece>>)
      PROVE  /\ wire' \in Wire /\ wire'.stage = "streaming" /\ wire'.blocks = blocks
             /\ wire'.sent = Append(wire.sent, piece)
  <2>1. Append(wire.sent, piece) \in Seq(P) /\ Append(wire.sent, piece) = wire.sent \o <<piece>>
    BY <1>1, AppendedIsConcat
  <2> QED
    BY <1>3, <1>5, <2>1
<1> QED
  BY <1>4, <1>5 DEF P, B

(* The provider answers, and the reply has started. *)
LEMMA AnswerPlaced ==
    ASSUME AllPlaced, InStep', Answer
    PROVE  AllPlaced'
<1>1. /\ wire.blocks = <<>> /\ wire.sent = <<>> /\ wire \in Wire /\ api \in Numbered \cup Chunked
      /\ out = [blocks |-> <<>>, log |-> <<>>, slots |-> <<>>, current |-> None]
      /\ wire' = [wire EXCEPT !.stage = "streaming"] /\ api' = api
  BY DEF AllPlaced, Answer
<1>2. wire'.stage = "streaming" /\ wire'.blocks = <<>> /\ wire'.sent = <<>> /\ wire' \in Wire
  BY <1>1 DEF Wire
<1> DEFINE first == [type |-> "start"]
<1>3. /\ out'.blocks = <<>> /\ out'.slots = <<>> /\ out'.current = None /\ out'.log = <<first>>
      /\ first.type = "start"
  BY <1>1 DEF Answer
<1> HIDE DEF first
<1>4. /\ DOMAIN out'.blocks = {} /\ DOMAIN out'.slots = {} /\ DOMAIN wire'.sent = {} /\ DOMAIN wire'.blocks = {}
      /\ Len(out'.blocks) = 0 /\ DOMAIN out'.log = {1} /\ out'.log[1] = first
  BY <1>2, <1>3
<1>5. Sync(out')
  BY DEF InStep
<1>6. Placed(out'.blocks, wire'.sent, <<>>)
  <2>1. DOMAIN <<>> = {}
    OBVIOUS
  <2> QED
    BY <1>4, <2>1 DEF Placed
<1>7. Slotted(out', wire'.sent, <<>>)
  BY <1>3, <1>4 DEF Slotted
<1>8. \A U : Told(out'.log, Len(out'.blocks), U)
  <2>1. 1..0 = {}
    OBVIOUS
  <2> QED
    BY <1>3, <1>4, <2>1 DEF Told
<1>9. Slots(out', wire')
  <2>1. NumberedSlots(out', wire') /\ CompletionsSlots(out', wire') /\ GoogleSlots(out', wire')
    BY <1>3, <1>4 DEF NumberedSlots, CompletionsSlots, GoogleSlots
  <2>2. MistralSlots(out', wire')
    <3>1. None # "tool"
      BY NoneAssumption DEF Kinds
    <3> QED
      BY <1>3, <1>4, <3>1 DEF MistralSlots
  <2> QED
    BY <1>1, <2>1, <2>2 DEF Slots, Chunked
<1>10. Whole(out', wire', <<>>)
  BY <1>5, <1>6, <1>7, <1>8, <1>9 DEF Whole, Kept
<1> QED
  BY <1>1, <1>2, <1>10, ReceivePlaced

(* A block is announced. *)
LEMMA StartPlaced ==
    ASSUME AllPlaced, NEW kind \in Kinds \cup {"other"}, StartBlock(kind)
    PROVE  AllPlaced'
<1> DEFINE blocks == Append(wire.blocks, [kind |-> kind, open |-> TRUE])
           e == [type |-> "start", n |-> Len(wire.blocks) + 1, kind |-> kind]
<1>1. wire \in Wire /\ api \in Numbered /\ (kind = "other" => api # "pi") /\ Receive(e, blocks, <<>>)
  BY DEF AllPlaced, StartBlock
<1>2. PICK home : Whole(out, wire, home)
  BY <1>1 DEF AllPlaced, Receive
<1>3. blocks \in Seq([kind : Kinds \cup {"other"}, open : BOOLEAN])
  BY <1>1 DEF Wire
<1>4. e.type = "start" /\ e.n = Len(wire.blocks) + 1 /\ e.kind = kind
  OBVIOUS
<1> HIDE DEF e
<1>5. wire' \in Wire /\ wire'.stage = "streaming" /\ wire'.blocks = blocks /\ wire'.sent = wire.sent
  <2> HIDE DEF blocks
  <2> QED
    BY <1>1, <1>3, WireGoesOn
<1>6. out' = Adapt(out, e) /\ api' = api
  BY <1>1 DEF Receive
<1>7. Whole(Adapt(out, e), wire', home)
  BY <1>1, <1>2, <1>4, <1>5, StartKeepsWhole
<1> QED
  BY <1>5, <1>6, <1>7, ReceivePlaced

(* A piece of a numbered block. *)
LEMMA DeltaPlaced ==
    ASSUME AllPlaced, NEW n \in DOMAIN wire.blocks, SendDelta(n)
    PROVE  AllPlaced'
<1> DEFINE blocks == wire.blocks
           kind == wire.blocks[n].kind
           piece == [kind |-> kind, n |-> n]
           e == [type |-> "delta", n |-> n, kind |-> kind, piece |-> NextPiece]
<1>1. wire \in Wire /\ api \in Numbered /\ wire.blocks[n].open /\ kind \in Kinds /\ Receive(e, blocks, <<piece>>)
  BY DEF AllPlaced, SendDelta
<1>2. PICK home : Whole(out, wire, home)
  BY <1>1 DEF AllPlaced, Receive
<1>3. blocks \in Seq([kind : Kinds \cup {"other"}, open : BOOLEAN]) /\ n \in Nat
  BY <1>1 DEF Wire
<1>4. e.type = "delta" /\ e.n = n /\ e.kind = kind /\ e.piece = Len(wire.sent) + 1
  BY DEF NextPiece
<1>5. piece.n = n /\ piece.kind = kind /\ piece \in [kind : Kinds, n : Nat]
  BY <1>1, <1>3
<1> HIDE DEF e, piece
<1>6. wire' \in Wire /\ wire'.stage = "streaming" /\ wire'.blocks = blocks /\ wire'.sent = Append(wire.sent, piece)
  BY <1>1, <1>3, <1>5, WireGoesOn
<1>7. out' = Adapt(out, e) /\ api' = api
  BY <1>1 DEF Receive
<1>8. \E there : Whole(Adapt(out, e), wire', there)
  BY <1>1, <1>2, <1>4, <1>5, <1>6, DeltaKeepsWhole
<1> QED
  BY <1>6, <1>7, <1>8, ReceivePlaced

(* A numbered block is stopped. *)
LEMMA StopPlaced ==
    ASSUME AllPlaced, NEW n \in DOMAIN wire.blocks, StopBlock(n)
    PROVE  AllPlaced'
<1> DEFINE B == [kind : Kinds \cup {"other"}, open : BOOLEAN]
           blocks == [wire.blocks EXCEPT ![n].open = FALSE]
           kind == wire.blocks[n].kind
           e == [type |-> "stop", n |-> n, kind |-> kind, whole |-> Of(n)]
<1>1. wire \in Wire /\ api \in Numbered /\ wire.blocks[n].open /\ Receive(e, blocks, <<>>)
  BY DEF AllPlaced, StopBlock
<1>2. PICK home : Whole(out, wire, home)
  BY <1>1 DEF AllPlaced, Receive
<1>3. blocks \in Seq(B)
  <2>1. wire.blocks \in Seq(B)
    BY <1>1 DEF Wire
  <2>2. wire.blocks[n] \in B
    <3> HIDE DEF B
    <3> QED
      BY <2>1
  <2>3. [wire.blocks[n] EXCEPT !.open = FALSE] \in B
    BY <2>2
  <2>4. blocks = [wire.blocks EXCEPT ![n] = [wire.blocks[n] EXCEPT !.open = FALSE]]
    OBVIOUS
  <2> HIDE DEF B, blocks
  <2> QED
    BY <2>1, <2>3, <2>4
<1>4. e.type = "stop" /\ e.n = n /\ e.kind = kind /\ e.whole = Of(n)
  OBVIOUS
<1>5. Lists(e.whole, {q \in DOMAIN wire.sent : wire.sent[q].n = n})
  <2> DEFINE P == {q \in DOMAIN wire.sent : wire.sent[q].n = n}
  <2>1. Len(wire.sent) \in Nat /\ DOMAIN wire.sent = 1..Len(wire.sent)
    BY <1>1 DEF Wire
  <2>2. P \in SUBSET (1..Len(wire.sent)) /\ Of(n) = InOrder(P)
    BY <2>1 DEF Of
  <2> HIDE DEF P, e
  <2>3. Lists(InOrder(P), P)
    BY <2>1, <2>2, InOrderLists
  <2> QED
    BY <1>4, <2>2, <2>3 DEF P
<1> HIDE DEF e
<1>6. wire' \in Wire /\ wire'.stage = "streaming" /\ wire'.blocks = blocks /\ wire'.sent = wire.sent
  <2> HIDE DEF blocks
  <2> QED
    BY <1>1, <1>3, WireGoesOn
<1>7. out' = Adapt(out, e) /\ api' = api
  BY <1>1 DEF Receive
<1>8. Whole(Adapt(out, e), wire', home)
  BY <1>1, <1>2, <1>4, <1>5, <1>6, StopKeepsWhole
<1> QED
  BY <1>6, <1>7, <1>8, ReceivePlaced

(* An item that was never added is done. *)
LEMMA ItemPlaced ==
    ASSUME AllPlaced, NEW kind \in Kinds, SendItem(kind)
    PROVE  AllPlaced'
<1> DEFINE n == Len(wire.blocks) + 1
           blocks == Append(wire.blocks, [kind |-> kind, open |-> FALSE])
           piece == [kind |-> kind, n |-> n]
           e == [type |-> "stop", n |-> n, kind |-> kind, whole |-> <<NextPiece>>]
<1>1. wire \in Wire /\ api = "responses" /\ Receive(e, blocks, <<piece>>)
  BY DEF AllPlaced, SendItem
<1>2. PICK home : Whole(out, wire, home)
  BY <1>1 DEF AllPlaced, Receive
<1>3. blocks \in Seq([kind : Kinds \cup {"other"}, open : BOOLEAN]) /\ n \in Nat
  BY <1>1 DEF Wire
<1>4. e.type = "stop" /\ e.n = n /\ e.kind = kind /\ e.whole = <<Len(wire.sent) + 1>>
  BY DEF NextPiece
<1>5. piece.n = n /\ piece.kind = kind /\ piece \in [kind : Kinds, n : Nat]
  BY <1>3
<1> HIDE DEF e, piece
<1>6. wire' \in Wire /\ wire'.stage = "streaming" /\ wire'.blocks = blocks /\ wire'.sent = Append(wire.sent, piece)
  <2> HIDE DEF blocks
  <2> QED
    BY <1>1, <1>3, <1>5, WireGoesOn
<1>7. out' = Adapt(out, e) /\ api' = api
  BY <1>1 DEF Receive
<1>8. \E there : Whole(Adapt(out, e), wire', there)
  BY <1>1, <1>2, <1>4, <1>5, <1>6, ItemKeepsWhole
<1> QED
  BY <1>6, <1>7, <1>8, ReceivePlaced

(* A piece of text or thinking. *)
LEMMA TextPlaced ==
    ASSUME AllPlaced, NEW kind \in {"text", "thinking"}, SendText(kind)
    PROVE  AllPlaced'
<1> DEFINE blocks == wire.blocks
           piece == [kind |-> kind, n |-> 0]
           e == [kind |-> kind, n |-> 0, piece |-> NextPiece]
<1>1. /\ wire \in Wire /\ api \in Chunked /\ kind \in Kinds /\ kind # "tool"
      /\ Receive(e, blocks, <<piece>>)
  BY DEF AllPlaced, SendText, Kinds
<1>2. PICK home : Whole(out, wire, home)
  BY <1>1 DEF AllPlaced, Receive
<1>3. blocks \in Seq([kind : Kinds \cup {"other"}, open : BOOLEAN])
  BY <1>1 DEF Wire
<1>4. e.n = 0 /\ e.kind = kind /\ e.piece = Len(wire.sent) + 1
  BY DEF NextPiece
<1>5. piece.n = 0 /\ piece.kind = kind /\ piece \in [kind : Kinds, n : Nat]
  BY <1>1
<1> HIDE DEF e, piece
<1>6. wire' \in Wire /\ wire'.stage = "streaming" /\ wire'.blocks = blocks /\ wire'.sent = Append(wire.sent, piece)
  BY <1>1, <1>3, <1>5, WireGoesOn
<1>7. out' = Adapt(out, e) /\ api' = api
  BY <1>1 DEF Receive
<1>8. \E there : Whole(Adapt(out, e), wire', there)
  <2>1. CASE api = "completions"
    <3>1. piece.kind \in Kinds /\ (piece.n # 0 <=> piece.kind = "tool") /\ e.kind = piece.kind /\ e.n = piece.n
      BY <1>1, <1>4, <1>5
    <3> QED
      BY <1>1, <1>2, <1>4, <1>6, <2>1, <3>1, CompletionsKeepsWhole
  <2>2. CASE api \in {"google", "mistral"}
    BY <1>1, <1>2, <1>4, <1>5, <1>6, <2>2, TextKeepsWhole
  <2> QED
    BY <1>1, <2>1, <2>2 DEF Chunked
<1> QED
  BY <1>6, <1>7, <1>8, ReceivePlaced

(* A piece of a tool call. *)
LEMMA CallPlaced ==
    ASSUME AllPlaced, NEW n \in 1..MaxBlocks, SendCall(n)
    PROVE  AllPlaced'
<1> DEFINE longer == Append(wire.blocks, [kind |-> "tool", open |-> TRUE])
           blocks == IF n > Len(wire.blocks) THEN longer ELSE wire.blocks
           piece == [kind |-> "tool", n |-> n]
           e == [kind |-> "tool", n |-> n, piece |-> NextPiece]
<1>0. n \in Nat /\ n # 0
  BY BoundsAssumption
<1>1. /\ wire \in Wire /\ api \in Chunked /\ "tool" \in Kinds
      /\ n = Len(wire.blocks) + 1 \/ (n <= Len(wire.blocks) /\ api # "google")
      /\ Receive(e, blocks, <<piece>>)
  BY DEF AllPlaced, SendCall, Kinds
<1>2. PICK home : Whole(out, wire, home)
  BY <1>1 DEF AllPlaced, Receive
<1>3. /\ longer \in Seq([kind : Kinds \cup {"other"}, open : BOOLEAN])
      /\ wire.blocks \in Seq([kind : Kinds \cup {"other"}, open : BOOLEAN])
      /\ Len(longer) = Len(wire.blocks) + 1 /\ Len(wire.blocks) \in Nat
  BY <1>1 DEF Wire
<1>4. e.n = n /\ e.kind = "tool" /\ e.piece = Len(wire.sent) + 1
  BY DEF NextPiece
<1>5. piece.n = n /\ piece.kind = "tool" /\ piece \in [kind : Kinds, n : Nat]
  BY <1>0, <1>1
<1> HIDE DEF e, piece, longer
<1>6. blocks \in Seq([kind : Kinds \cup {"other"}, open : BOOLEAN])
  BY <1>3
<1>7. api = "google" => blocks = longer /\ n = Len(wire.blocks) + 1
  BY <1>1, <1>3
<1> HIDE DEF blocks
<1>8. wire' \in Wire /\ wire'.stage = "streaming" /\ wire'.blocks = blocks /\ wire'.sent = Append(wire.sent, piece)
  BY <1>1, <1>5, <1>6, WireGoesOn
<1>9. out' = Adapt(out, e) /\ api' = api
  BY <1>1 DEF Receive
<1>10. \E there : Whole(Adapt(out, e), wire', there)
  <2>1. CASE api = "completions"
    <3>1. piece.kind \in Kinds /\ (piece.n # 0 <=> piece.kind = "tool") /\ e.kind = piece.kind /\ e.n = piece.n
      BY <1>0, <1>1, <1>4, <1>5
    <3> QED
      BY <1>1, <1>2, <1>4, <1>8, <2>1, <3>1, CompletionsKeepsWhole
  <2>2. CASE api = "google"
    <3>1. Len(wire'.blocks) = Len(wire.blocks) + 1 /\ piece.n = Len(wire.blocks) + 1
      BY <1>3, <1>5, <1>7, <1>8, <2>2
    <3> QED
      BY <1>1, <1>2, <1>4, <1>5, <1>8, <2>2, <3>1, GoogleCallKeepsWhole
  <2>3. CASE api = "mistral"
    <3>1. piece.n # 0 /\ e.n = piece.n
      BY <1>0, <1>4, <1>5
    <3> QED
      BY <1>1, <1>2, <1>4, <1>5, <1>8, <2>3, <3>1, MistralCallKeepsWhole
  <2> QED
    BY <1>1, <2>1, <2>2, <2>3 DEF Chunked
<1> QED
  BY <1>8, <1>9, <1>10, ReceivePlaced

(* How it ends. *)
LEMMA OverPlaced ==
    ASSUME AllPlaced, NEW o, NEW type, NEW blocks, Conclude(o, type, blocks), DoneIsWhole'
    PROVE  AllPlaced'
<1>1. wire \in Wire /\ wire' = [wire EXCEPT !.stage = "over"] /\ api' = api
  BY DEF AllPlaced, Conclude
<1>2. wire'.stage = "over" /\ wire' \in Wire
  BY <1>1 DEF Wire
<1> QED
  BY <1>1, <1>2 DEF AllPlaced

(* An error is not a reply that is done. *)
LEMMA ErrorPlaced ==
    ASSUME AllPlaced, NEW o, Sync(o), NEW blocks, Conclude(o, "error", blocks)
    PROVE  AllPlaced'
<1> DEFINE q == out'
<1>1. q = Finish(o, "error", blocks) /\ "error" \in {"done", "error"}
  BY DEF Conclude
<1> HIDE DEF q
<1>2. Ended(o, q, "error", blocks)
  BY <1>1, LastEventTold
<1>3. Last(out'.log).type # "done"
  BY <1>2 DEF Ended, q
<1>4. DoneIsWhole'
  BY <1>3 DEF DoneIsWhole
<1> QED
  BY <1>4, OverPlaced

(* The provider has said all, and the adapter ends what has not ended. *)
LEMMA CompletePlaced ==
    ASSUME AllPlaced, InStep, Complete
    PROVE  AllPlaced'
<1> DEFINE o == Settle(out)
           type == IF aborted /\ api # "pi" THEN "error" ELSE "done"
<1>1. Conclude(o, type, o.blocks) /\ api \in Numbered \cup Chunked
  BY DEF Complete, AllPlaced
<1>2. PICK home : Whole(out, wire, home)
  BY DEF AllPlaced, Complete
<1>3. /\ Kept(o, wire.sent, home, LeftOpen(out, wire)) /\ Sync(o)
      /\ api \in Numbered => o = out
  BY <1>1, <1>2, SettleEnds DEF Kept
<1> HIDE DEF o
<1>4. CASE type = "error"
  BY <1>1, <1>3, <1>4, ErrorPlaced
<1>5. CASE type = "done"
  <2>1. /\ wire'.sent = wire.sent /\ wire'.blocks = wire.blocks /\ api' = api
        /\ out' = Finish(o, "done", o.blocks)
    BY <1>1, <1>5 DEF Conclude, AllPlaced, Wire
  <2>2. out'.slots = o.slots
    <3> DEFINE longer == Append(o.log, [type |-> "done", message |-> o.blocks])
    <3>1. out' = [o EXCEPT !.log = longer]
      BY <2>1 DEF Finish
    <3> HIDE DEF longer
    <3> QED
      BY <1>3, <3>1 DEF Sync, Output
  <2>3. LeftOpen(out, wire) = Unstopped'
    <3>1. CASE api \in Numbered
      BY <1>3, <2>1, <2>2, <3>1 DEF LeftOpen, Unstopped
    <3>2. CASE api \notin Numbered
      BY <2>1, <3>2 DEF LeftOpen, Unstopped
    <3> QED
      BY <3>1, <3>2
  <2>4. DoneIsWhole'
    BY <1>3, <2>1, <2>3, WholeWhenDone
  <2> QED
    BY <1>1, <1>5, <2>4, OverPlaced
<1> QED
  BY <1>4, <1>5

(* DoneIsWhole of any log, blocks, pieces and blocks that were not stopped. *)
WholeReply(log, blocks, sent, unstopped) ==
    (log # <<>> /\ Last(log).type = "done") =>
        LET message == Last(log).message
            Has(at, piece) == \E i \in DOMAIN blocks[at].pieces : blocks[at].pieces[i] = piece
        IN
        /\ \A piece \in DOMAIN sent :
            \E at \in DOMAIN message :
                /\ message[at].kind = sent[piece].kind
                /\ {b \in DOMAIN message : Has(b, piece)} = {at}
                /\ \A other \in DOMAIN sent :
                    sent[piece].n # 0 => (Has(at, other) <=> sent[other].n = sent[piece].n)
        /\ \A at \in DOMAIN message :
            /\ Increasing(message[at].pieces)
            /\ \E first \in DOMAIN log :
                /\ EventsOf(log, "block_start", at) = {first}
                /\ \A i \in EventsOf(log, "block_delta", at) : first < i
            /\ at \in unstopped => EventsOf(log, "block_end", at) = {}
            /\ at \notin unstopped => \E last \in DOMAIN log :
                /\ EventsOf(log, "block_end", at) = {last}
                /\ \A i \in EventsOf(log, "block_delta", at) : i < last

(* Every step of provider and adapter. *)
LEMMA StepPlaced ==
    ASSUME AllPlaced, InStep, InStep', [ReplyNext]_replyVars
    PROVE  AllPlaced'
<1>1. CASE Answer
  BY <1>1, AnswerPlaced
<1>2. ASSUME NEW kind \in Kinds \cup {"other"}, StartBlock(kind) PROVE AllPlaced'
  BY <1>2, StartPlaced
<1>3. ASSUME NEW n \in DOMAIN wire.blocks, SendDelta(n) PROVE AllPlaced'
  BY <1>3, DeltaPlaced
<1>4. ASSUME NEW n \in DOMAIN wire.blocks, StopBlock(n) PROVE AllPlaced'
  BY <1>4, StopPlaced
<1>5. ASSUME NEW kind \in Kinds, SendItem(kind) PROVE AllPlaced'
  BY <1>5, ItemPlaced
<1>6. ASSUME NEW kind \in {"text", "thinking"}, SendText(kind) PROVE AllPlaced'
  BY <1>6, TextPlaced
<1>7. ASSUME NEW n \in 1..MaxBlocks, SendCall(n) PROVE AllPlaced'
  BY <1>7, CallPlaced
<1>8. CASE Complete
  BY <1>8, CompletePlaced
<1>9. CASE Break
  BY <1>9, ErrorPlaced DEF Break, InStep
<1>10. ASSUME NEW told \in BOOLEAN, CutShort(told) PROVE AllPlaced'
  BY <1>10, SettleKeeps, ErrorPlaced DEF CutShort, InStep
<1>11. ASSUME api' = api, wire' = wire, out' = out PROVE AllPlaced'
  <2>1. (\E home : Whole(out, wire, home)) => (\E home : Whole(out, wire, home))'
    BY <1>11, SameAdapter
  <2>2. DoneIsWhole => DoneIsWhole'
    <3>1. DoneIsWhole = WholeReply(out.log, out.blocks, wire.sent, Unstopped)
      BY DEF DoneIsWhole, WholeReply, Events, Holds, EventsOf
    <3>2. DoneIsWhole' = WholeReply(out'.log, out'.blocks, wire'.sent, Unstopped')
      BY DEF DoneIsWhole, WholeReply, Events, Holds, EventsOf
    <3>3. Unstopped' = Unstopped
      BY <1>11 DEF Unstopped
    <3> QED
      BY <1>11, <3>1, <3>2, <3>3
  <2> QED
    BY <1>11, <2>1, <2>2 DEF AllPlaced
<1>12. CASE Abort
  BY <1>11, <1>12 DEF Abort
<1>13. CASE UNCHANGED replyVars
  BY <1>11, <1>13 DEF replyVars
<1> QED
  BY <1>1, <1>2, <1>3, <1>4, <1>5, <1>6, <1>7, <1>8, <1>9, <1>10, <1>12, <1>13 DEF ReplyNext

(* A reply that is done has every piece the provider sent, once and in order, in a
   block of its kind, and each block was started, grew and ended once, unless the
   provider never stopped it: then it has no end. For every adapter, any number of
   blocks and pieces, and whatever order they come in. *)
THEOREM DoneRepliesAreWhole == ReplySpec => []DoneIsWhole
<1>1. InStep /\ AllPlaced => DoneIsWhole
  BY NotYetDone
<1>2. InStep /\ AllPlaced /\ [ReplyNext]_replyVars => (InStep /\ AllPlaced)'
  BY StepInStep, StepPlaced
<1>3. ReplyInit => InStep /\ AllPlaced
  BY InitInStep, InitPlaced
<1> QED
  BY <1>1, <1>2, <1>3, PTL DEF ReplySpec
=============================================================================
