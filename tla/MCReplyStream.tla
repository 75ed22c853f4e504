---------------------------- MODULE MCReplyStream ----------------------------
(* Every adapter; four pieces in at most two numbered blocks or tool calls. *)
EXTENDS ReplyStream
=============================================================================
