----------------------------- MODULE CommandApi -----------------------------
(***************************************************************************)
(* The command rows of the cloud API: the HTTP handler that creates and    *)
(* publishes a command, the MQTT callback that applies acknowledgements    *)
(* and the sweeper that expires overdue rows.  The three run on different  *)
(* threads, each with its own database session.  A session reads a row and *)
(* later writes back the status it computed, with an UPDATE by primary     *)
(* key: the read and the write are separate steps and another thread may   *)
(* commit between them.                                                    *)
(***************************************************************************)
EXTENDS Integers

CONSTANTS
    Commands,        \* command ids (uuid4: never reused)
    ApiTtl,          \* ttls a client may ask for
    MaxApiTtl,       \* max(COMMAND_TTL_SEC, 300)
    MaxTime,         \* bound on the clock
    MaxApiRestarts,  \* bound on restarts of the API process
    None             \* no row, no acknowledgement, no sweep in progress

ASSUME ApiAssumption ==
    /\ ApiTtl \subseteq Int
    /\ MaxApiTtl \in Nat
    /\ MaxTime \in Nat
    /\ MaxApiRestarts \in Nat
    /\ None \notin [status : {"queued", "acked", "done", "expired"}, created : Nat, ttl : Int]

VARIABLES
    now,          \* the clock
    cmdNet,       \* commands handed to the broker
    ackNet,       \* acknowledgements published by the gateway
    row,          \* table commands: [status, created, ttl], or None
    sending,      \* rows committed but not yet published by their handler
    ackRead,      \* acknowledgement in on_message and the status it read
    sweep,        \* rows the sweeper read as overdue, or None
    apiRestarts   \* restarts so far

apiVars == <<row, sending, ackRead, sweep, apiRestarts>>

Live     == {"queued", "acked"}
Terminal == {"done", "expired"}
Row      == [status : Live \cup Terminal, created : Nat, ttl : Int]

ApiTypeOK ==
    /\ row \in [Commands -> Row \cup {None}]
    /\ sending \subseteq Commands
    /\ ackRead = None \/ ackRead.cid \in Commands
    /\ sweep = None \/ sweep \subseteq Commands
    /\ apiRestarts \in Nat

ApiInit ==
    /\ row = [c \in Commands |-> None]
    /\ sending = {}
    /\ ackRead = None
    /\ sweep = None
    /\ apiRestarts = 0

Status(c) == IF row[c] = None THEN "none" ELSE row[c].status

SetStatus(S, s) ==
    row' = [c \in Commands |->
              IF c \in S THEN [row[c] EXCEPT !.status = s] ELSE row[c]]

-----------------------------------------------------------------------------
(* POST /v1/devices/{id}/commands.  A request that is refused (404, 400, 403) *)
(* changes nothing.                                                          *)
SendCommand(c, ttl) ==
    /\ row[c] = None
    /\ ttl >= 1 /\ ttl <= MaxApiTtl
    /\ row' = [row EXCEPT ![c] = [status |-> "queued", created |-> now, ttl |-> ttl]]
    /\ sending' = sending \cup {c}
    /\ UNCHANGED <<now, cmdNet, ackNet, ackRead, sweep, apiRestarts>>

(* publish_command, after the commit *)
PublishCommand(c) ==
    /\ c \in sending
    /\ cmdNet' = cmdNet \cup {[cid |-> c, ts |-> now, ttl |-> row[c].ttl]}
    /\ sending' = sending \ {c}
    /\ UNCHANGED <<now, ackNet, row, ackRead, sweep, apiRestarts>>

(* The broker is out of reach: the exception is logged, the row stays queued. *)
PublishFails(c) ==
    /\ c \in sending
    /\ sending' = sending \ {c}
    /\ UNCHANGED <<now, cmdNet, ackNet, row, ackRead, sweep, apiRestarts>>

-----------------------------------------------------------------------------
(* on_message for device/+/ack: one callback thread, one message at a time *)

\* Mutant: any final acknowledgement counts as done.
NextStatusAllDone(seen, st) ==
    CASE st = "acked" /\ seen = "queued" -> "acked"
      [] st \in Terminal /\ seen \in Live -> "done"
      [] OTHER -> seen

NextStatus(seen, st) ==
    CASE st = "acked" /\ seen = "queued" -> "acked"
      [] st \in Terminal /\ seen \in Live -> st
      [] OTHER -> seen

AckReadRow(a) ==
    /\ ackRead = None
    /\ row[a.cid] # None
    /\ ackRead' = [cid |-> a.cid, seen |-> row[a.cid].status, status |-> a.status]
    /\ UNCHANGED <<now, cmdNet, ackNet, row, sending, sweep, apiRestarts>>

(* An UPDATE is issued only for a status that differs from the one read. *)
AckCommit ==
    /\ ackRead # None
    /\ LET new == NextStatus(ackRead.seen, ackRead.status) IN
          IF new = ackRead.seen THEN UNCHANGED row
                                ELSE SetStatus({ackRead.cid}, new)
    /\ ackRead' = None
    /\ UNCHANGED <<now, cmdNet, ackNet, sending, sweep, apiRestarts>>

(* The commit raises: logged, and the acknowledgement is lost. *)
AckFails ==
    /\ ackRead # None
    /\ ackRead' = None
    /\ UNCHANGED <<now, cmdNet, ackNet, row, sending, sweep, apiRestarts>>

-----------------------------------------------------------------------------
(* expire_sweeper *)

\* Mutant: only queued rows are swept.
OverdueQueued == {c \in Commands :
                    /\ Status(c) = "queued"
                    /\ now - row[c].created > row[c].ttl}

Overdue == {c \in Commands :
              /\ Status(c) \in Live
              /\ now - row[c].created > row[c].ttl}

SweepRead ==
    /\ sweep = None
    /\ Overdue # {}
    /\ sweep' = Overdue
    /\ UNCHANGED <<now, cmdNet, ackNet, row, sending, ackRead, apiRestarts>>

SweepCommit ==
    /\ sweep # None
    /\ SetStatus(sweep, "expired")
    /\ sweep' = None
    /\ UNCHANGED <<now, cmdNet, ackNet, sending, ackRead, apiRestarts>>

SweepFails ==
    /\ sweep # None
    /\ sweep' = None
    /\ UNCHANGED <<now, cmdNet, ackNet, row, sending, ackRead, apiRestarts>>

-----------------------------------------------------------------------------
(* The API process restarts: only the rows survive. *)
ApiRestart ==
    /\ apiRestarts < MaxApiRestarts
    /\ apiRestarts' = apiRestarts + 1
    /\ sending' = {}
    /\ ackRead' = None
    /\ sweep' = None
    /\ UNCHANGED <<now, cmdNet, ackNet, row>>

ApiStep ==
    \/ \E c \in Commands, ttl \in ApiTtl :
          /\ now + ttl < MaxTime   \* leaves room for the row to expire
          /\ SendCommand(c, ttl)
    \/ \E c \in Commands : PublishCommand(c) \/ PublishFails(c)
    \/ \E a \in ackNet : AckReadRow(a)
    \/ AckCommit \/ AckFails
    \/ SweepRead \/ SweepCommit \/ SweepFails
    \/ ApiRestart
=============================================================================
