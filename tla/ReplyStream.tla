---------------------------- MODULE ReplyStream ----------------------------
(* How the answer of a model provider becomes a reply (ai/src/api). Each adapter
   turns the provider's own events into the events of a reply, which name a block
   of the message by its position, and pushes them into an EventStream, which is
   modelled in EventStream. The provider keeps to its protocol, but ends, fails or is aborted
   whenever it likes. A piece of text, thinking or tool arguments is a number;
   usage, signatures and ids are left out. *)
EXTENDS Naturals, Sequences, FiniteSets, SequencesExt

CONSTANTS
    Apis,           \* the adapters that are used
    MaxPieces,      \* pieces of content sent
    MaxBlocks,      \* blocks the provider numbers
    None

(* Anthropic, OpenAI Responses, Bedrock and pi number their blocks and say where
   each ends; OpenAI Completions, Google and Mistral only send pieces. *)
Numbered == {"anthropic", "responses", "bedrock", "pi"}
Chunked == {"completions", "google", "mistral"}
Kinds == {"text", "thinking", "tool"}

ASSUME ApisAssumption == Apis \subseteq Numbered \union Chunked
ASSUME BoundsAssumption == {MaxPieces, MaxBlocks} \subseteq Nat
ASSUME NoneAssumption == None \notin Kinds

VARIABLES
    api,        \* the adapter
    wire,       \* how far the provider is, the blocks it has numbered, the pieces it has sent
    out,        \* what the adapter has made of it
    aborted     \* options.signal

replyVars == <<api, wire, out, aborted>>

ReplyInit ==
    /\ api \in Apis
    /\ wire = [stage |-> "calling", blocks |-> <<>>, sent |-> <<>>]
    /\ out = [blocks |-> <<>>, log |-> <<>>, slots |-> <<>>, current |-> None]
    /\ aborted = FALSE

-----------------------------------------------------------------------------
(* The events and blocks of a reply. o is what an adapter has made so far: the
   blocks of output.content, the events pushed, which block the provider's number
   (or kind) stands for, and the kind of the current block. *)
Emit(o, type, at, data) ==
    [o EXCEPT !.log = Append(@, [type |-> type, kind |-> o.blocks[at].kind, at |-> at, data |-> data])]
Open(o, kind) ==
    Emit([o EXCEPT !.blocks = Append(@, [kind |-> kind, pieces |-> <<>>])], "block_start", Len(o.blocks) + 1, <<>>)
(* Mutant of Grow: the event names the last block, whichever has grown. *)
GrowUnderLast(o, at, piece) ==
    Emit([o EXCEPT !.blocks[at].pieces = @ \o <<piece>>], "block_delta", Len(o.blocks), <<piece>>)
Grow(o, at, piece) ==
    Emit([o EXCEPT !.blocks[at].pieces = @ \o <<piece>>], "block_delta", at, <<piece>>)
Close(o, at) == Emit(o, "block_end", at, o.blocks[at].pieces)

Known(o, key) == key \in DOMAIN o.slots
Slot(o, key, at) ==
    [o EXCEPT !.slots = [k \in DOMAIN @ \cup {key} |-> IF k = key THEN at ELSE @[k]]]
Unslot(o, key) == [o EXCEPT !.slots = [k \in DOMAIN @ \ {key} |-> @[k]]]
(* No block is made of a kind the adapter does not know. *)
OpenSlot(o, key, kind) ==
    IF kind \in Kinds THEN Slot(Open(o, kind), key, Len(o.blocks) + 1) ELSE o
Ensure(o, key, kind) == IF Known(o, key) THEN o ELSE OpenSlot(o, key, kind)
CloseSlot(o, key) == IF Known(o, key) THEN Unslot(Close(o, o.slots[key]), key) ELSE o

(* An event of the provider: start, delta or stop of block n. *)
Anthropic(o, e) ==
    CASE e.type = "start" -> OpenSlot(o, e.n, e.kind)
      [] e.type = "delta" -> IF Known(o, e.n) THEN Grow(o, o.slots[e.n], e.piece) ELSE o
      [] e.type = "stop"  -> CloseSlot(o, e.n)

(* The item that is done carries its whole content; one that was never added is
   made then. *)
Responses(o, e) ==
    CASE e.type = "start" -> OpenSlot(o, e.n, e.kind)
      [] e.type = "delta" -> IF Known(o, e.n) THEN Grow(o, o.slots[e.n], e.piece) ELSE o
      [] e.type = "stop"  ->
            LET p == Ensure(o, e.n, e.kind)
            IN  IF Known(p, e.n)
                THEN CloseSlot([p EXCEPT !.blocks[p.slots[e.n]].pieces = e.whole], e.n)
                ELSE p

(* Only tool calls are announced: a piece makes the block of its text or thinking. *)
Bedrock(o, e) ==
    CASE e.type = "start" -> IF e.kind = "tool" THEN OpenSlot(o, e.n, e.kind) ELSE o
      [] e.type = "delta" ->
            LET p == IF e.kind = "tool" THEN o ELSE Ensure(o, e.n, e.kind)
            IN  IF Known(p, e.n) THEN Grow(p, p.slots[e.n], e.piece) ELSE p
      [] e.type = "stop"  -> CloseSlot(o, e.n)

(* The backend sends the events of a reply itself. *)
Pi(o, e) ==
    CASE e.type = "start" -> OpenSlot(o, e.n, e.kind)
      [] e.type = "delta" -> Grow(o, o.slots[e.n], e.piece)
      [] e.type = "stop"  -> Close([o EXCEPT !.blocks[o.slots[e.n]].pieces = e.whole], o.slots[e.n])

(* One block for the text, one for the thinking, one for each tool call. *)
Key(e) == <<e.kind, e.n>>
Completions(o, e) ==
    LET p == Ensure(o, Key(e), e.kind) IN Grow(p, p.slots[Key(e)], e.piece)

(* A run of pieces of one kind is a block; it is the last one while it grows. *)
CloseCurrent(o) ==
    IF o.current = None THEN o ELSE [Close(o, Len(o.blocks)) EXCEPT !.current = None]
Turn(o, kind) ==
    IF o.current = kind THEN o ELSE [Open(CloseCurrent(o), kind) EXCEPT !.current = kind]
GrowLast(o, piece) == Grow(o, Len(o.blocks), piece)

(* A tool call comes whole. *)
Google(o, e) ==
    IF e.kind = "tool"
    THEN LET p == GrowLast(Open(CloseCurrent(o), "tool"), e.piece) IN Close(p, Len(p.blocks))
    ELSE GrowLast(Turn(o, e.kind), e.piece)

Mistral(o, e) ==
    IF e.kind = "tool"
    THEN LET p == Ensure(CloseCurrent(o), e.n, "tool") IN Grow(p, p.slots[e.n], e.piece)
    ELSE GrowLast(Turn(o, e.kind), e.piece)

Adapt(o, e) ==
    CASE api = "anthropic"   -> Anthropic(o, e)
      [] api = "responses"   -> Responses(o, e)
      [] api = "bedrock"     -> Bedrock(o, e)
      [] api = "pi"          -> Pi(o, e)
      [] api = "completions" -> Completions(o, e)
      [] api = "google"      -> Google(o, e)
      [] api = "mistral"     -> Mistral(o, e)

(* Mutant of Settle: the blocks of tool calls are not ended. *)
SettleCurrent(o) == IF api \in {"google", "mistral"} THEN CloseCurrent(o) ELSE o
(* When the stream of the provider has ended the adapter ends what it has not:
   OpenAI Completions every block, Mistral those of its tool calls. *)
EndBlock(o, at) ==
    IF api = "completions" \/ at \in {o.slots[k] : k \in DOMAIN o.slots} THEN Close(o, at) ELSE o
EndBlocks(o) == FoldLeft(EndBlock, o, [at \in DOMAIN o.blocks |-> at])
Settle(o) ==
    CASE api = "completions" -> EndBlocks(o)
      [] api = "google"      -> CloseCurrent(o)
      [] api = "mistral"     -> EndBlocks(CloseCurrent(o))
      [] OTHER -> o

Finish(o, type, blocks) == [o EXCEPT !.log = Append(@, [type |-> type, message |-> blocks])]

-----------------------------------------------------------------------------
(* The provider. *)
Answer ==
    /\ wire.stage = "calling"
    /\ wire' = [wire EXCEPT !.stage = "streaming"]
    /\ out' = [out EXCEPT !.log = <<[type |-> "start"]>>]
    /\ UNCHANGED <<api, aborted>>

(* The adapter is given an event that carries the next piece, or none. *)
Receive(e, blocks, sent) ==
    /\ wire.stage = "streaming"
    /\ wire' = [wire EXCEPT !.blocks = blocks, !.sent = @ \o sent]
    /\ out' = Adapt(out, e)
    /\ UNCHANGED <<api, aborted>>

NextPiece == Len(wire.sent) + 1
Increasing(s) == \A i, j \in DOMAIN s : i < j => s[i] < s[j]
InOrder(P) == CHOOSE s \in [1..Cardinality(P) -> P] : ToSet(s) = P /\ Increasing(s)
Of(n) == InOrder({p \in DOMAIN wire.sent : wire.sent[p].n = n})

(* A block of a kind the adapters do not know may be announced and stopped as well. *)
StartBlock(kind) ==
    /\ api \in Numbered
    /\ Len(wire.blocks) < MaxBlocks
    /\ kind = "other" => api # "pi"
    /\ Receive([type |-> "start", n |-> Len(wire.blocks) + 1, kind |-> kind],
               Append(wire.blocks, [kind |-> kind, open |-> TRUE]), <<>>)

SendDelta(n) ==
    /\ api \in Numbered
    /\ NextPiece <= MaxPieces
    /\ wire.blocks[n].open /\ wire.blocks[n].kind \in Kinds
    /\ Receive([type |-> "delta", n |-> n, kind |-> wire.blocks[n].kind, piece |-> NextPiece],
               wire.blocks, <<[kind |-> wire.blocks[n].kind, n |-> n]>>)

StopBlock(n) ==
    /\ api \in Numbered
    /\ wire.blocks[n].open
    /\ Receive([type |-> "stop", n |-> n, kind |-> wire.blocks[n].kind, whole |-> Of(n)],
               [wire.blocks EXCEPT ![n].open = FALSE], <<>>)

(* OpenAI Responses: an item that is done without having been added. *)
SendItem(kind) ==
    /\ api = "responses"
    /\ NextPiece <= MaxPieces /\ Len(wire.blocks) < MaxBlocks
    /\ LET n == Len(wire.blocks) + 1
       IN  Receive([type |-> "stop", n |-> n, kind |-> kind, whole |-> <<NextPiece>>],
                   Append(wire.blocks, [kind |-> kind, open |-> FALSE]), <<[kind |-> kind, n |-> n]>>)

SendText(kind) ==
    /\ api \in Chunked
    /\ NextPiece <= MaxPieces
    /\ Receive([kind |-> kind, n |-> 0, piece |-> NextPiece], wire.blocks, <<[kind |-> kind, n |-> 0]>>)

(* A piece of the arguments of tool call n, the next call or one begun before. *)
SendCall(n) ==
    /\ api \in Chunked
    /\ NextPiece <= MaxPieces
    /\ n = Len(wire.blocks) + 1 \/ (n <= Len(wire.blocks) /\ api # "google")
    /\ Receive([kind |-> "tool", n |-> n, piece |-> NextPiece],
               IF n > Len(wire.blocks) THEN Append(wire.blocks, [kind |-> "tool", open |-> TRUE]) ELSE wire.blocks,
               <<[kind |-> "tool", n |-> n]>>)

-----------------------------------------------------------------------------
(* How it ends. *)
Conclude(o, type, blocks) ==
    /\ wire' = [wire EXCEPT !.stage = "over"]
    /\ out' = Finish(o, type, blocks)
    /\ UNCHANGED <<api, aborted>>

(* The provider has said why it stops and its stream ends, whether it has stopped
   every block or not; a call that was aborted meanwhile is an error, which pi does
   not look at. *)
Complete ==
    /\ wire.stage = "streaming"
    /\ LET o == Settle(out)
       IN  Conclude(o, IF aborted /\ api # "pi" THEN "error" ELSE "done", o.blocks)

(* A stop reason that is an error, or the stream ends without one. pi makes an
   empty message when the stream ends, and keeps the content when told the error. *)
CutShort(told) ==
    /\ wire.stage = "streaming"
    /\ LET o == Settle(out)
       IN  Conclude(o, "error", IF api = "pi" /\ ~told THEN <<>> ELSE o.blocks)

(* The call fails or is refused, the connection breaks, an abort is noticed. *)
Break ==
    /\ wire.stage \in {"calling", "streaming"}
    /\ Conclude(out, "error", IF api = "pi" THEN <<>> ELSE out.blocks)

Abort ==
    /\ wire.stage \in {"calling", "streaming"}
    /\ ~aborted
    /\ aborted' = TRUE
    /\ UNCHANGED <<api, wire, out>>

-----------------------------------------------------------------------------
ReplyNext ==
    \/ Answer
    \/ \E kind \in Kinds \union {"other"} : StartBlock(kind)
    \/ \E n \in DOMAIN wire.blocks : SendDelta(n) \/ StopBlock(n)
    \/ \E kind \in Kinds : SendItem(kind)
    \/ \E kind \in {"text", "thinking"} : SendText(kind)
    \/ \E n \in 1..MaxBlocks : SendCall(n)
    \/ Complete \/ Break \/ Abort
    \/ \E told \in BOOLEAN : CutShort(told)

ReplySpec == ReplyInit /\ [][ReplyNext]_replyVars

-----------------------------------------------------------------------------
(* What a listener makes of the events alone. *)
Replay(blocks, event) ==
    CASE event.type = "block_start" -> Append(blocks, [kind |-> event.kind, pieces |-> <<>>])
      [] event.type = "block_delta" -> [blocks EXCEPT ![event.at].pieces = @ \o event.data]
      [] event.type = "block_end"   -> [blocks EXCEPT ![event.at].pieces = event.data]
      [] OTHER -> blocks

(* A listener that only follows the events, by their positions, has at every moment
   the very blocks of the message, even when blocks grow side by side and the
   provider's numbers are not positions (Claude-style and OpenAI-style streams). *)
ListenerRebuildsTheMessage == FoldLeft(Replay, <<>>, out.log) = out.blocks

Events(type, at) == {i \in DOMAIN out.log : out.log[i].type = type /\ out.log[i].at = at}
Holds(at, piece) == \E i \in DOMAIN out.blocks[at].pieces : out.blocks[at].pieces[i] = piece

(* The blocks of the numbers that the provider has not stopped. *)
Unstopped == {out.slots[n] : n \in {m \in DOMAIN out.slots : api \in Numbered /\ wire.blocks[m].open}}

(* A reply that is done has every piece the provider sent, once, in its order, in a
   block of its kind, and the pieces of one numbered block or call in one block; of
   each block the listener has seen one start, then the pieces, then one end, or
   none where the provider never stopped the block ("a stream can settle without
   stopping every block", bedrock-converse-stream.ts:324). *)
DoneIsWhole ==
    (out.log # <<>> /\ Last(out.log).type = "done") =>
        LET blocks == Last(out.log).message IN
        /\ \A piece \in DOMAIN wire.sent :
            \E at \in DOMAIN blocks :
                /\ blocks[at].kind = wire.sent[piece].kind
                /\ {b \in DOMAIN blocks : Holds(b, piece)} = {at}
                /\ \A other \in DOMAIN wire.sent :
                    wire.sent[piece].n # 0 => (Holds(at, other) <=> wire.sent[other].n = wire.sent[piece].n)
        /\ \A at \in DOMAIN blocks :
            /\ Increasing(blocks[at].pieces)
            /\ \E first \in DOMAIN out.log :
                /\ Events("block_start", at) = {first}
                /\ \A i \in Events("block_delta", at) : first < i
            /\ at \in Unstopped => Events("block_end", at) = {}
            /\ at \notin Unstopped => \E last \in DOMAIN out.log :
                /\ Events("block_end", at) = {last}
                /\ \A i \in Events("block_delta", at) : i < last
=============================================================================
