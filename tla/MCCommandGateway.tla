------------------------- MODULE MCCommandGateway -------------------------
(* Small instances of CommandGateway for TLC. *)
EXTENDS CommandGateway, TLC

CONSTANTS c1, c2, c3, cloud, local, w1, w2

\* Threads and connections are interchangeable; commands are not.
Interchangeable == Permutations(Workers) \cup Permutations(Conns)
===========================================================================
