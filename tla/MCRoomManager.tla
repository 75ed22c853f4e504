--------------------------- MODULE MCRoomManager ---------------------------
(* An instance of RoomManager for TLC. *)
EXTENDS RoomManager

CONSTANTS a1, a2, r1, r2
=============================================================================
