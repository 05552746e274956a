--------------------------- MODULE MCReminderWorker ---------------------------
(* Small instances of ReminderWorker for TLC. *)
EXTENDS ReminderWorker

CONSTANTS t1, t2, t3
===============================================================================
