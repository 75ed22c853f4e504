----------------------------- MODULE Compaction -----------------------------
(* Compaction of a conversation (harness/compaction/compaction.ts): the older
   messages of a branch are replaced by a summary, the recent ones are kept on
   the compaction entry. A path is a sequence of messages and compactions; a
   compaction records which messages its summary was made from, directly or
   through the summary before it. Every message counts for one token; branch
   summaries, custom entries and changes of settings are left out. *)
EXTENDS Transcript

Summary == User("summary")
Compacted(covers, retained) == [role |-> "compaction", covers |-> covers, retained |-> retained]
IsCompaction(e) == e.role = "compaction"
LastCompaction(path) == SelectLastInSeq(path, IsCompaction)

(* What follows the last compaction, with the messages that one kept. *)
Compactable(path) ==
    LET c == LastCompaction(path) IN
    IF c = 0 THEN path ELSE path[c].retained \o SubSeq(path, c + 1, Len(path))
PreviouslyCovered(path) ==
    LET c == LastCompaction(path) IN IF c = 0 THEN {} ELSE path[c].covers

(* Mutant of CutPoints: any message may come first. *)
AnyMessage(es) == DOMAIN es
(* findValidCutPoints: the result of a tool call never comes first. *)
CutPoints(es) == {i \in DOMAIN es : es[i].role # "toolResult"}

(* findCutPoint: the first cut point after which no more than keep messages
   follow. When there is none, everything from the first one on is kept. *)
Cut(es, keep) ==
    LET after == {i \in CutPoints(es) : keep <= Len(es) /\ i >= Len(es) - keep + 1} IN
    IF CutPoints(es) = {} THEN 1
    ELSE IF after = {} THEN Min(CutPoints(es)) ELSE Min(after)

(* The start of the turn that a cut splits, or 0. *)
TurnStart(es, cut) ==
    LET starts == {i \in 1..cut : es[i].role = "user"} IN
    IF es[cut].role = "user" \/ starts = {} THEN 0 ELSE Max(starts)

MayCompact(path) == path # <<>> /\ ~IsCompaction(Last(path))

(* prepareCompaction and compact. The prefix of a split turn gets a summary of
   its own, next to that of the history before it; where there is no history,
   that is "No prior history.". *)
Compact(path, keep) ==
    LET es      == Compactable(path)
        cut     == Cut(es, keep)
        start   == TurnStart(es, cut)
        history == {es[i] : i \in 1..((IF start = 0 THEN cut ELSE start) - 1)}
        prefix  == IF start = 0 THEN {} ELSE {es[i] : i \in start..(cut - 1)}
        covers  == IF start # 0 /\ history = {} THEN prefix
                   ELSE PreviouslyCovered(path) \cup history \cup prefix
    IN  Append(path, Compacted(covers, SubSeq(es, cut, Len(es))))

(* buildSessionContext *)
ContextOf(path) ==
    LET c == LastCompaction(path) IN
    IF c = 0 THEN path
    ELSE <<Summary>> \o path[c].retained \o SubSeq(path, c + 1, Len(path))

-----------------------------------------------------------------------------
(* Two compactions of a conversation, the first of them when it had n messages. *)
Twice(msgs, n, first, second) ==
    LET path == Compact(SubSeq(msgs, 1, n), first) \o SubSeq(msgs, n + 1, Len(msgs))
    IN  IF MayCompact(path) THEN Compact(path, second) ELSE path

(* What the summaries were made from.  The last one need not cover it all: a
   summary that finds only a part of one turn to summarize is not given the
   summary before it. *)
Summarized(path) == UNION {path[i].covers : i \in {j \in DOMAIN path : IsCompaction(path[j])}}

(* After a compaction the model is asked with something it can answer, and with
   the end of the conversation, in order; and no message is left out that no
   summary was made from. *)
KeepsTheEnd(msgs, path) ==
    /\ Acceptable(TransformMessages(ContextOf(path)))
    /\ IsSuffix(Tail(ContextOf(path)), msgs)
    /\ ToSet(msgs) \subseteq Summarized(path) \cup ToSet(Last(path).retained)
=============================================================================
