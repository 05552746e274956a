------------------------------ MODULE MCTlsClient ------------------------------
(* Small instances of TlsClient for TLC. *)
EXTENDS TlsClient

CONSTANTS p1, p2, p3, date1, plain1, h1, h2

\* p1 and p2 ask the same host; the others ask a second one.
MCHostOf == [r \in Reqs |-> IF r \in {p1, p2} THEN h1 ELSE h2]

\* Pairs: a kept connection, an eviction, the calls without a pool.
MCCalls == {{p1, p2}, {p1, p3}, {p1, date1}, {p1, plain1}}

Resp(frame, size, keep) == [frame |-> frame, size |-> size, keep |-> keep]

\* The longer body does not fit (Cap = 2).
MCResponses == [h \in {h1, h2} |->
    IF h = h1
    THEN {Resp("length", 1, TRUE), Resp("length", 3, TRUE),
          Resp("close", 1, FALSE)}
    ELSE {Resp("chunks", 1, FALSE), Resp("extended", 1, TRUE), Resp("empty", 0, TRUE)}]
===============================================================================
