----------------------------- MODULE SessionLog -----------------------------
(* What a session store promises, whatever it keeps its data in: the session is
   a log of mutations that only grows, each one acceptable after those before
   it, and a call that has been answered is in the log for good. A store that
   cannot promise this of all its steps says which ones are sound. *)
EXTENDS SessionState

VARIABLES
    log,        \* the durable mutations, oldest first
    acked,      \* the mutations whose calls have been answered
    sound       \* the store answers for the step that led here

vars == <<log, acked>>

Init == log = <<>> /\ acked = {}

(* One mutation becomes durable; its caller hears of it at once, ... *)
Commit ==
    /\ Len(log') = Len(log) + 1
    /\ log = SubSeq(log', 1, Len(log))
    /\ Accepts(Replay(log), Last(log'))
    /\ acked' \in {acked, acked \cup {Last(log')}}

(* ... or later, if nothing dies before. *)
Answer ==
    /\ \E i \in 1..Len(log) : acked' = acked \cup {log[i]}
    /\ UNCHANGED log

Spec == Init /\ [][sound' => Commit \/ Answer]_vars
=============================================================================
