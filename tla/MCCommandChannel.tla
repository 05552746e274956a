-------------------------- MODULE MCCommandChannel --------------------------
(* Small instances of CommandChannel for TLC. *)
EXTENDS CommandChannel

CONSTANTS c1, c2, conn, w1
=============================================================================
