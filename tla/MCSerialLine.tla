----------------------------- MODULE MCSerialLine -----------------------------
(* Small instances of SerialLine for TLC. *)
EXTENDS SerialLine

CONSTANTS on1, off1, info1
===============================================================================
