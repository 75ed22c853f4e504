-------------------------- MODULE MCSqliteSession ---------------------------
(* Instances of SqliteSession for TLC: two processes, entries on two branches. *)
EXTENDS SqliteSession

CONSTANTS p, q

MCCalls ==
    {[kind |-> "entry", id |-> "e1", type |-> "message", lane |-> "main"],
     [kind |-> "entry", id |-> "e2", type |-> "message", lane |-> "main"],
     [kind |-> "entry", id |-> "e3", type |-> "message", lane |-> "side"],
     [kind |-> "record", id |-> "r1", type |-> "operation_started", lane |-> "main"],
     [kind |-> "create", lane |-> "side", leaf |-> "e1"]}
=============================================================================
