---------------------------- MODULE MCEventStream ----------------------------
(* Replies of at most MaxEvents events and the last one. *)
EXTENDS EventStream
=============================================================================
