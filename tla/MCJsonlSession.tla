--------------------------- MODULE MCJsonlSession ---------------------------
(* Instances of JsonlSession for TLC: an entry on each of two lanes, an operation
   that starts and finishes, one that would overlap it, a lane that is created,
   one that is moved, and a label. *)
EXTENDS JsonlSession

MCTorn == [text |-> "torn"]
MCNone == [nothing |-> "here"]

MCCalls ==
    {[kind |-> "entry", id |-> "e1", type |-> "message", lane |-> "main"],
     [kind |-> "entry", id |-> "e2", type |-> "message", lane |-> "side"],
     [kind |-> "record", id |-> "r1", type |-> "operation_started", lane |-> "main"],
     [kind |-> "record", id |-> "r2", type |-> "operation_started", lane |-> "main"],
     [kind |-> "record", id |-> "f1", type |-> "operation_finished", lane |-> "main", run |-> "r1"],
     [kind |-> "create", lane |-> "side", leaf |-> "e1"],
     [kind |-> "move", lane |-> "main", leaf |-> Root],
     [kind |-> "label", id |-> "e1", label |-> "L"]}
=============================================================================
