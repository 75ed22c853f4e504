---------------------------- MODULE JsonlSession ----------------------------
(* JsonlSessionStorage (harness/session/jsonl): a session kept in a file, one
   mutation per line, under a promise chain that makes its calls one after the
   other. The bytes of an append reach the file in pieces, and the append may
   fail, or the process die, after any of them. Loading the file drops a torn
   last line by publishing the lines before it, and completes a last line that
   lacks its newline; a fork loads the file of its source in this way while the
   source goes on writing to it. *)
EXTENDS SessionState

CONSTANTS
    MaxQueue,       \* calls that wait at a time
    Torn            \* a line that is not JSON: it has no fields of a mutation

ASSUME TornAssumption == "kind" \notin DOMAIN Torn
ASSUME NoStateAssumption == {"kind", "seq"} \cap DOMAIN None = {}
ASSUME QueueAssumption == MaxQueue \in Nat

VARIABLES
    file,       \* the lines after the header: mutations, or Torn
    ended,      \* the last line has its newline
    mem,        \* the SessionState of the open storage, or None
    queue,      \* the calls on the promise chain
    writing,    \* the mutation whose append is under way, or None
    put,        \* what the append has put: "none", "part" of its line, "joined"
                \* (a part, on a line begun by others), or "line" (all but the newline)
    acked,      \* the mutations whose calls were answered
    loader,     \* None, or the load under way: the lines it read
    detached,   \* the append under way goes to a file that was renamed over
    damage      \* history, for the properties: "apart" when the file and memory
                \* have come apart, "built" when more was written to it since

vars == <<file, ended, mem, queue, writing, put, acked, loader, detached, damage>>

Init ==
    /\ file = <<>> /\ ended = TRUE
    /\ mem = Empty
    /\ queue = <<>> /\ writing = None /\ put = "none"
    /\ acked = {}
    /\ loader = None
    /\ detached = FALSE
    /\ damage = "none"

(* The bytes of a line and the newline, at the end of the file: bytes after an
   unended line join it, a newline after an ended one makes a blank line. *)
Bytes(line) ==
    /\ file' = IF ended THEN Append(file, line) ELSE [file EXCEPT ![Len(file)] = Torn]
    /\ ended' = FALSE
Newline ==
    /\ file' = IF ended THEN Append(file, Torn) ELSE file
    /\ ended' = TRUE

(* What the history says after something was written, came apart, or both. *)
Written == IF damage = "none" THEN "none" ELSE "built"
Apart == IF damage = "none" THEN "apart" ELSE damage
Worse == IF damage = "none" THEN "apart" ELSE "built"

-----------------------------------------------------------------------------

(* enqueue: the call joins the chain. Bounded by MaxLog: the lines of the file,
   the mutations in memory, and those ever answered. *)
Call ==
    /\ mem # None
    /\ Len(queue) < MaxQueue
    /\ \A n \in {Len(file), mem.seq, Cardinality(acked)} :
          n + Len(queue) + (IF writing = None THEN 0 ELSE 1) < MaxLog
    /\ \E c \in Calls : queue' = Append(queue, c)
    /\ UNCHANGED <<file, ended, mem, writing, put, acked, loader, detached, damage>>

(* The call at the head fails its checks; the chain goes on. *)
Refuse ==
    /\ mem # None /\ writing = None /\ queue # <<>>
    /\ ~Admits(mem, Head(queue))
    /\ queue' = Tail(queue)
    /\ UNCHANGED <<file, ended, mem, writing, put, acked, loader, detached, damage>>

(* Mutant of StartAppend: the checks are made when the call is queued, so that
   none is left when its turn comes. *)
StartUnchecked ==
    /\ mem # None /\ writing = None /\ queue # <<>>
    /\ Head(queue).kind = "entry" => HasLane(mem, Head(queue).lane)
    /\ writing' = MutationOf(mem, Head(queue))
    /\ queue' = Tail(queue)
    /\ UNCHANGED <<file, ended, mem, put, acked, loader, detached, damage>>

StartAppend ==
    /\ mem # None /\ writing = None /\ queue # <<>>
    /\ Admits(mem, Head(queue))
    /\ writing' = MutationOf(mem, Head(queue))
    /\ queue' = Tail(queue)
    /\ UNCHANGED <<file, ended, mem, put, acked, loader, detached, damage>>

(* appendFile: a part of the line reaches the file, ... *)
PutPart ==
    /\ writing # None /\ ~detached /\ put = "none"
    /\ Bytes(Torn)
    /\ put' = IF ended THEN "part" ELSE "joined"
    /\ damage' = Written
    /\ UNCHANGED <<mem, queue, writing, acked, loader, detached>>

(* ... then the rest of it, which makes the line whole unless other bytes came
   before it or between. *)
PutLine ==
    /\ writing # None /\ ~detached /\ put \in {"part", "joined"}
    /\ IF put = "part" /\ ~ended
       THEN file' = [file EXCEPT ![Len(file)] = writing] /\ ended' = FALSE
       ELSE Bytes(Torn)
    /\ put' = "line"
    /\ damage' = Written
    /\ UNCHANGED <<mem, queue, writing, acked, loader, detached>>

(* The append is done with its newline: memory follows, the caller is answered. *)
EndAppend ==
    /\ writing # None
    /\ \/ detached /\ UNCHANGED <<file, ended, damage>>
       \/ ~detached /\ put = "line" /\ Newline /\ damage' = Written
    /\ mem' = Apply(mem, writing)
    /\ acked' = acked \cup {writing}
    /\ writing' = None /\ put' = "none" /\ detached' = FALSE
    /\ UNCHANGED <<queue, loader>>

(* An append that stops leaves what it has put, its newline perhaps included. *)
Stopped ==
    \/ UNCHANGED <<file, ended>>
    \/ ~detached /\ put = "line" /\ Newline

(* Mutant of FailAppend: the caller is told that its append succeeded. *)
FailUnheard ==
    /\ writing # None
    /\ Stopped
    /\ damage' = IF detached \/ put = "none" THEN damage ELSE Worse
    /\ acked' = acked \cup {writing}
    /\ writing' = None /\ put' = "none" /\ detached' = FALSE
    /\ UNCHANGED <<mem, queue, loader>>

(* The append fails: the call is rejected and memory stays as it was; nothing
   takes back the bytes that were written. *)
FailAppend ==
    /\ writing # None
    /\ Stopped
    /\ damage' = IF detached \/ put = "none" THEN damage ELSE Worse
    /\ writing' = None /\ put' = "none" /\ detached' = FALSE
    /\ UNCHANGED <<mem, queue, acked, loader>>

(* The process dies. *)
Crash ==
    /\ mem # None
    /\ Stopped
    /\ damage' = IF file' = file /\ ended' = ended THEN damage ELSE Written
    /\ mem' = None /\ queue' = <<>> /\ writing' = None /\ put' = "none"
    /\ loader' = None /\ detached' = FALSE
    /\ UNCHANGED acked

-----------------------------------------------------------------------------
(* load, for a repo that opens the session again or forks it. *)

TornTail(lines) == lines # <<>> /\ Last(lines) = Torn
WithoutTorn(lines) == IF TornTail(lines) THEN Front(lines) ELSE lines

(* What load throws on: a torn line before the last one, or a mutation that
   does not follow from those before it. *)
Loadable(lines) ==
    /\ \A i \in 1..(Len(lines) - 1) : lines[i] # Torn
    /\ Replays(WithoutTorn(lines))

ReadForOpen ==
    /\ mem = None /\ loader = None
    /\ Loadable(file)
    /\ loader' = [lines |-> file, ended |-> ended]
    /\ UNCHANGED <<file, ended, mem, queue, writing, put, acked, detached, damage>>

(* A fork reads the file whatever its source is doing. One load at a time. *)
ReadForFork ==
    /\ mem # None /\ loader = None
    /\ Loadable(file)
    /\ loader' = [lines |-> file, ended |-> ended]
    /\ UNCHANGED <<file, ended, mem, queue, writing, put, acked, detached, damage>>

(* What the history says after a load: opening the session makes memory of the
   file, a fork that repairs the file of its source changes it behind memory. *)
Loaded ==
    CASE mem = None /\ damage = "apart"                                -> "none"
      [] mem # None /\ TornTail(loader.lines)                          -> Apart
      [] mem # None /\ ~TornTail(loader.lines) /\ ~loader.ended        -> Worse
      [] OTHER                                                         -> damage

(* Mutant of Repair: the prefix is cut one line too early. *)
RepairTooFar ==
    /\ loader # None
    /\ LET kept == WithoutTorn(loader.lines) IN
       /\ \/ /\ TornTail(loader.lines)
             /\ file' = IF kept = <<>> THEN kept ELSE Front(kept)
             /\ ended' = TRUE
             /\ detached' \in {writing # None, detached \/ put # "none"}
          \/ ~TornTail(loader.lines) /\ ~loader.ended /\ Newline /\ UNCHANGED detached
          \/ ~TornTail(loader.lines) /\ loader.ended /\ UNCHANGED <<file, ended, detached>>
       /\ mem' = IF mem = None THEN Replay(kept) ELSE mem
    /\ damage' = Loaded
    /\ loader' = None
    /\ UNCHANGED <<queue, writing, put, acked>>

(* The end of load: a torn tail is replaced by the lines before it (written
   aside, then renamed over the file, from which an append that has opened it
   is cut off), a missing newline is appended. *)
Repair ==
    /\ loader # None
    /\ LET kept == WithoutTorn(loader.lines) IN
       /\ \/ /\ TornTail(loader.lines)
             /\ file' = kept /\ ended' = TRUE
             /\ detached' \in {writing # None, detached \/ put # "none"}
          \/ ~TornTail(loader.lines) /\ ~loader.ended /\ Newline /\ UNCHANGED detached
          \/ ~TornTail(loader.lines) /\ loader.ended /\ UNCHANGED <<file, ended, detached>>
       /\ mem' = IF mem = None THEN Replay(kept) ELSE mem
    /\ damage' = Loaded
    /\ loader' = None
    /\ UNCHANGED <<queue, writing, put, acked>>

(* The repair fails, or the process that opens the session dies before it: the
   file is as it was. *)
AbandonLoad ==
    /\ loader # None
    /\ loader' = None
    /\ UNCHANGED <<file, ended, mem, queue, writing, put, acked, detached, damage>>

Next ==
    \/ Call
    \/ Refuse
    \/ StartAppend
    \/ PutPart
    \/ PutLine
    \/ EndAppend
    \/ FailAppend
    \/ Crash
    \/ ReadForOpen
    \/ ReadForFork
    \/ Repair
    \/ AbandonLoad

Spec == Init /\ [][Next]_vars

-----------------------------------------------------------------------------
(* However its writer died and was opened again, a new process can load the
   file, since only its last line may be torn (load, storage.ts:83-96), and
   would read from it the state of the open storage. An append that fails midway
   and a fork of the open session put the two apart; the file can still be
   loaded, and opening the session again brings them together, unless the open
   storage has written more meanwhile. *)
MemoryIsTheFile ==
    /\ damage # "built" => Loadable(file)
    /\ damage = "none" /\ mem # None /\ put # "line" => mem = Replay(WithoutTorn(file))

(* At most one operation is open on a lane, over any crash and retry: the
   recovery reducer calls anything else corrupt (reducer.ts:304). *)
OneOpenOperation ==
    damage # "built" /\ mem # None
        => \A lane \in DOMAIN mem.lanes : Cardinality(OpenOn(mem, lane)) <= 1

(* A fork of any scope is faithful to what its load has read of the session, be
   it in the middle of an append (createForkMutations, state.ts:252). *)
ForksMatch ==
    damage # "built" /\ loader # None => ForksAreFaithful(Replay(WithoutTorn(loader.lines)))

(* As long as the file and memory agree, the file is a log of acceptable
   mutations that only grows and keeps what was acknowledged. *)
Log == INSTANCE SessionLog WITH log <- WithoutTorn(file), sound <- (damage = "none")
ImplementsSessionLog == Log!Spec
=============================================================================
