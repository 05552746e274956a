--------------------------- MODULE CommandGateway ---------------------------
(***************************************************************************)
(* The home gateway's command path: CommandPolicy (validation and the      *)
(* in-process table that suppresses MQTT QoS 1 redeliveries), the MQTT     *)
(* callback that claims a command and acknowledges it, and the worker      *)
(* threads that execute it and report the outcome.                         *)
(*                                                                         *)
(* The broker may deliver a published command any number of times, at any  *)
(* moment and on any connection, or never: cmdNet only grows and a         *)
(* delivery does not consume it.  ackNet holds every acknowledgement the   *)
(* gateway ever published.                                                 *)
(***************************************************************************)
EXTENDS Integers, FiniteSets

CONSTANTS
    Commands,     \* command ids
    Conns,        \* MQTT connections of the gateway (cloud, local)
    Workers,      \* slots for worker threads; bounds how many run at once
    SerialCmds,   \* commands whose action is executed over the serial line
    Unserved,     \* commands no executor takes: no serial port, no such entity
    Forbidden,    \* commands whose action is not in allowed_actions
    MaxTtl,       \* CommandPolicy.max_ttl
    FutureSkew,   \* CommandPolicy.future_skew
    MaxRecords,   \* CommandPolicy.max_records
    MinExpiry,    \* the 60 of max(max_ttl * 2, 60)
    SentTs,       \* time stamps a sender may put into a command
    SentTtl,      \* and the ttls
    MaxTime,      \* bound on the clock
    MaxRestarts,  \* bound on restarts of the gateway process
    NoMsg         \* no message

ASSUME GatewayAssumption ==
    /\ SerialCmds \subseteq Commands
    /\ Unserved \subseteq Commands
    /\ Forbidden \subseteq Commands
    /\ MaxTtl \in Nat \ {0}
    /\ FutureSkew \in Nat
    /\ MaxRecords \in Nat
    /\ MinExpiry \in Nat
    /\ SentTs \subseteq Int /\ SentTtl \subseteq Int
    /\ MaxTime \in Nat
    /\ MaxRestarts \in Nat
    \* 5 <= 300 in the code: a record outlives every acceptable redelivery
    /\ FutureSkew <= MaxTtl
    /\ NoMsg \notin [cid : Commands, ts : Int, ttl : Int]
    /\ NoMsg \notin Workers

VARIABLES
    now,       \* time.time()
    cmdNet,    \* commands handed to the broker
    ackNet,    \* acknowledgements the gateway published
    records,   \* CommandPolicy._records: command id -> [status, at]
    callback,  \* connection -> the message its on_message has just claimed
    workers,   \* worker slot -> the thread running _handle, or Idle
    serial,    \* the worker holding SerialExecutor.lock, or NoMsg
    attempts,  \* command -> times handed to an executor: 0, 1 or 2 (= many)
    claimed,   \* commands accepted at least once
    forgotten, \* commands whose live record was evicted or lost in a restart
    restarts   \* restarts so far

policyVars == <<records, forgotten>>
vars == <<now, cmdNet, ackNet, records, callback, workers, serial, attempts,
          claimed, forgotten, restarts>>

-----------------------------------------------------------------------------
Message   == [cid : Commands, ts : Int, ttl : Int]
AckStatus == {"acked", "done", "expired"}
Ack       == [cid : Commands, status : AckStatus]
Status    == {"queued"} \cup AckStatus
Record    == [status : Status, at : Nat]
Idle      == [pc |-> "idle", msg |-> NoMsg]
Worker    == {Idle} \cup [pc : {"ready", "running", "reported"}, msg : Message]

TypeOK ==
    /\ now \in Nat
    /\ cmdNet \subseteq Message
    /\ ackNet \subseteq Ack
    /\ DOMAIN records \subseteq Commands
    /\ records \in [DOMAIN records -> Record]
    /\ callback \in [Conns -> Message \cup {NoMsg}]
    /\ workers \in [Workers -> Worker]
    /\ serial \in Workers \cup {NoMsg}
    /\ attempts \in [Commands -> 0..2]
    /\ claimed \subseteq Commands
    /\ forgotten \subseteq Commands
    /\ restarts \in Nat

-----------------------------------------------------------------------------
(* CommandPolicy *)

\* Mutant: records are kept for max_ttl only.
RecordExpiryOneTtl == MaxTtl

RecordExpiry == IF 2 * MaxTtl >= MinExpiry THEN 2 * MaxTtl ELSE MinExpiry

Live(c) == c \in DOMAIN records /\ now - records[c].at <= RecordExpiry

(***************************************************************************)
(* The records dropped for capacity: the oldest of the OrderedDict.  A     *)
(* record enters at the end and every update moves it there with the       *)
(* current time, so the order of the dictionary is the order of "at".      *)
(***************************************************************************)
Evictable(V) ==
    /\ \/ Cardinality(DOMAIN records) <= MaxRecords /\ V = {}
       \/ Cardinality(DOMAIN records \ V) = MaxRecords
    /\ \A v \in V, c \in DOMAIN records \ V : records[v].at <= records[c].at

Pruned(V) == [c \in {d \in DOMAIN records \ V : Live(d)} |-> records[c]]

Prune(V) == /\ Evictable(V)
            /\ forgotten' = forgotten \cup {c \in V : Live(c)}

Acceptable(m) ==
    /\ m.cid \notin Forbidden
    /\ m.ttl >= 1 /\ m.ttl <= MaxTtl
    /\ now - m.ts >= -FutureSkew
    /\ now - m.ts <= m.ttl

WithRecord(recs, c, s) ==
    [d \in DOMAIN recs \cup {c} |->
        IF d = c THEN [status |-> s, at |-> now] ELSE recs[d]]

Update(c, s) ==
    IF c \in DOMAIN records THEN WithRecord(records, c, s) ELSE records

-----------------------------------------------------------------------------
Init ==
    /\ now = 0
    /\ cmdNet = {}
    /\ ackNet = {}
    /\ records = [c \in {} |-> 0]
    /\ callback = [k \in Conns |-> NoMsg]
    /\ workers = [w \in Workers |-> Idle]
    /\ serial = NoMsg
    /\ attempts = [c \in Commands |-> 0]
    /\ claimed = {}
    /\ forgotten = {}
    /\ restarts = 0

Reply(c, s) == ackNet' = ackNet \cup {[cid |-> c, status |-> s]}

(***************************************************************************)
(* on_message, up to the verdict of COMMAND_POLICY.claim.  _prune runs     *)
(* before any check, so even a rejected or malformed message drops old     *)
(* records.                                                                *)
(***************************************************************************)
ClaimMalformed(k) ==
    /\ callback[k] = NoMsg
    /\ \E V \in SUBSET DOMAIN records : Prune(V) /\ records' = Pruned(V)
    /\ UNCHANGED <<now, cmdNet, ackNet, callback, workers, serial, attempts,
                   claimed, restarts>>

\* Mutant: a redelivery starts the record over.
ClaimDuplicateRequeues(k, m) ==
    /\ callback[k] = NoMsg
    /\ \E V \in SUBSET DOMAIN records :
          /\ Prune(V)
          /\ m.cid \in DOMAIN Pruned(V)
          /\ records' = WithRecord(Pruned(V), m.cid, "queued")
    /\ UNCHANGED <<now, cmdNet, ackNet, callback, workers, serial, attempts,
                   claimed, restarts>>

ClaimDuplicate(k, m) ==
    /\ callback[k] = NoMsg
    /\ \E V \in SUBSET DOMAIN records :
          /\ Prune(V)
          /\ m.cid \in DOMAIN Pruned(V)
          /\ records' = Pruned(V)
          /\ Reply(m.cid, IF records[m.cid].status \in AckStatus
                          THEN records[m.cid].status ELSE "acked")
    /\ UNCHANGED <<now, cmdNet, callback, workers, serial, attempts, claimed,
                   restarts>>

ClaimRejected(k, m) ==
    /\ callback[k] = NoMsg
    /\ ~Acceptable(m)
    /\ \E V \in SUBSET DOMAIN records :
          /\ Prune(V)
          /\ m.cid \notin DOMAIN Pruned(V)
          /\ records' = Pruned(V)
    /\ Reply(m.cid, "expired")
    /\ UNCHANGED <<now, cmdNet, callback, workers, serial, attempts, claimed,
                   restarts>>

ClaimAccepted(k, m) ==
    /\ callback[k] = NoMsg
    /\ Acceptable(m)
    /\ \E V \in SUBSET DOMAIN records :
          /\ Prune(V)
          /\ m.cid \notin DOMAIN Pruned(V)
          /\ records' = WithRecord(Pruned(V), m.cid, "queued")
    /\ callback' = [callback EXCEPT ![k] = m]
    /\ claimed' = claimed \cup {m.cid}
    /\ UNCHANGED <<now, cmdNet, ackNet, workers, serial, attempts, restarts>>

(* The rest of on_message: publish acked, update the record, start _handle. *)
Acknowledge(k, w) ==
    /\ callback[k] # NoMsg
    /\ workers[w] = Idle
    /\ Reply(callback[k].cid, "acked")
    /\ records' = Update(callback[k].cid, "acked")
    /\ workers' = [workers EXCEPT ![w] = [pc |-> "ready", msg |-> callback[k]]]
    /\ callback' = [callback EXCEPT ![k] = NoMsg]
    /\ UNCHANGED <<now, cmdNet, serial, attempts, claimed, forgotten, restarts>>

-----------------------------------------------------------------------------
(* _handle, one worker thread per accepted command *)

(* exec writes to the serial port under the lock; a MiHome action needs no lock. *)
BeginExec(w) ==
    /\ workers[w].pc = "ready"
    /\ LET c == workers[w].msg.cid IN
          /\ c \notin Unserved
          /\ \/ c \in SerialCmds /\ serial = NoMsg /\ serial' = w
             \/ c \notin SerialCmds /\ UNCHANGED serial
          /\ attempts' = [attempts EXCEPT ![c] = IF @ = 0 THEN 1 ELSE 2]
    /\ workers' = [workers EXCEPT ![w].pc = "running"]
    /\ UNCHANGED <<now, cmdNet, ackNet, records, callback, claimed, forgotten,
                   restarts>>

\* Mutant: the lock is not given back.
ReleaseNever(w) == UNCHANGED serial

Release(w) == serial' = IF serial = w THEN NoMsg ELSE serial

\* Mutant: success is reported without having run the command.
ConfirmUntried(w) ==
    /\ workers[w].pc \in {"ready", "running"}
    /\ now - workers[w].msg.ts <= workers[w].msg.ttl
    /\ records' = Update(workers[w].msg.cid, "done")
    /\ Reply(workers[w].msg.cid, "done")
    /\ workers' = [workers EXCEPT ![w].pc = "reported"]
    /\ Release(w)
    /\ UNCHANGED <<now, cmdNet, callback, attempts, claimed, forgotten, restarts>>

(* The executor returned, nothing in its output tells of a failure, and the *)
(* command is still within its ttl.                                         *)
Confirm(w) ==
    /\ workers[w].pc = "running"
    /\ now - workers[w].msg.ts <= workers[w].msg.ttl
    /\ records' = Update(workers[w].msg.cid, "done")
    /\ Reply(workers[w].msg.cid, "done")
    /\ workers' = [workers EXCEPT ![w].pc = "reported"]
    /\ Release(w)
    /\ UNCHANGED <<now, cmdNet, callback, attempts, claimed, forgotten, restarts>>

ReportExpired(w) ==
    /\ records' = Update(workers[w].msg.cid, "expired")
    /\ Reply(workers[w].msg.cid, "expired")
    /\ workers' = [workers EXCEPT ![w] = Idle]
    /\ UNCHANGED <<now, cmdNet, callback, attempts, claimed, forgotten, restarts>>

(* No executor takes the command; or the executor raised, its output tells of *)
(* a failure, or the ttl ran out.                                             *)
Fail(w) ==
    /\ \/ workers[w].pc = "ready" /\ workers[w].msg.cid \in Unserved
       \/ workers[w].pc = "running"
    /\ ReportExpired(w)
    /\ Release(w)

(* After "done" the thread reads the entities and publishes the status. *)
PublishStatus(w) ==
    /\ workers[w].pc = "reported"
    /\ workers' = [workers EXCEPT ![w] = Idle]
    /\ UNCHANGED <<now, cmdNet, ackNet, records, callback, serial, attempts,
                   claimed, forgotten, restarts>>

(* ... and an exception there lands in the handler of the whole thread. *)
StatusRaises(w) ==
    /\ workers[w].pc = "reported"
    /\ ReportExpired(w)
    /\ UNCHANGED serial

-----------------------------------------------------------------------------
Tick == /\ now < MaxTime
        /\ now' = now + 1
        /\ UNCHANGED <<cmdNet, ackNet, records, callback, workers, serial,
                       attempts, claimed, forgotten, restarts>>

(* The process restarts: the table and the threads are in memory only. *)
Restart ==
    /\ restarts < MaxRestarts
    /\ restarts' = restarts + 1
    /\ records' = [c \in {} |-> 0]
    /\ callback' = [k \in Conns |-> NoMsg]
    /\ workers' = [w \in Workers |-> Idle]
    /\ serial' = NoMsg
    /\ forgotten' = forgotten \cup claimed
    /\ UNCHANGED <<now, cmdNet, ackNet, attempts, claimed>>

Deliver(k, m) == \/ ClaimDuplicate(k, m)
                 \/ ClaimRejected(k, m)
                 \/ ClaimAccepted(k, m)

Work(w) == \/ BeginExec(w)
           \/ Confirm(w)
           \/ Fail(w)
           \/ PublishStatus(w)
           \/ StatusRaises(w)

GatewayStep ==
    \/ \E k \in Conns : ClaimMalformed(k)
    \/ \E k \in Conns, m \in cmdNet : Deliver(k, m)
    \/ \E k \in Conns, w \in Workers : Acknowledge(k, w)
    \/ \E w \in Workers : Work(w)
    \/ Restart

(* The API side, here unconstrained: any command, once, with any ts and ttl. *)
Publish(c, ts, ttl) ==
    /\ \A m \in cmdNet : m.cid # c
    /\ cmdNet' = cmdNet \cup {[cid |-> c, ts |-> ts, ttl |-> ttl]}
    /\ UNCHANGED <<now, ackNet, records, callback, workers, serial, attempts,
                   claimed, forgotten, restarts>>

Next ==
    \/ GatewayStep
    \/ \E c \in Commands, ts \in SentTs, ttl \in SentTtl : Publish(c, ts, ttl)
    \/ Tick

Spec == Init /\ [][Next]_vars

(***************************************************************************)
(* A thread that can run is scheduled; exec, the HTTP calls and the polling *)
(* of set_power all have time-outs, so a running worker ends.  Fairness is *)
(* strong where a worker waits for the serial lock, and where the model's  *)
(* (not the code's) worker slots may all be taken.                         *)
(***************************************************************************)
WorkerFairness ==
    /\ \A k \in Conns : SF_vars(\E w \in Workers : Acknowledge(k, w))
    /\ \A w \in Workers :
          /\ SF_vars(BeginExec(w))
          /\ WF_vars(Confirm(w) \/ Fail(w))
          /\ WF_vars(PublishStatus(w) \/ StatusRaises(w))

FairSpec == Spec /\ WorkerFairness

-----------------------------------------------------------------------------
(* Properties *)

(***************************************************************************)
(* A command is handed to an executor at most once, however often and      *)
(* however late the broker delivers it, as long as its live record was     *)
(* neither evicted for capacity nor lost in a restart.  In particular the  *)
(* time-based pruning of CommandPolicy._prune never re-opens a command.    *)
(***************************************************************************)
AtMostOnce == \A c \in Commands \ forgotten : attempts[c] <= 1

(***************************************************************************)
(* What a redelivery is answered never goes back: the status remembered    *)
(* for a command moves along queued, acked, done, expired.                 *)
(***************************************************************************)
Rank(s) == CASE s = "queued" -> 0 [] s = "acked" -> 1
             [] s = "done" -> 2 [] s = "expired" -> 3

StatusAdvances ==
    [][\A c \in DOMAIN records \cap DOMAIN records' :
          c \in forgotten' \/ Rank(records[c].status) <= Rank(records'[c].status)]_vars

(***************************************************************************)
(* "done" is only ever acknowledged for a command that was handed to an    *)
(* executor.                                                               *)
(***************************************************************************)
DoneWasAttempted ==
    \A a \in ackNet : a.status = "done" => attempts[a.cid] >= 1

(***************************************************************************)
(* Every accepted command is eventually answered with an outcome, unless   *)
(* its record is forgotten on the way.                                     *)
(***************************************************************************)
Answered(c) == \E a \in ackNet : a.cid = c /\ a.status \in {"done", "expired"}

ClaimedIsAnswered ==
    \A c \in Commands : (c \in claimed) ~> (Answered(c) \/ c \in forgotten)

-----------------------------------------------------------------------------
(* The inductive invariant behind AtMostOnce, DoneWasAttempted, StatusAdvances *)

Holds(k, c) == callback[k] # NoMsg /\ callback[k].cid = c
Busy(w, c)  == workers[w].pc # "idle" /\ workers[w].msg.cid = c

OneMessage == \A m1, m2 \in cmdNet : m1.cid = m2.cid => m1 = m2

(* Whatever mentions a command was preceded by its claim. *)
KnownOnly ==
    /\ DOMAIN records \subseteq claimed
    /\ \A k \in Conns : callback[k] # NoMsg => callback[k].cid \in claimed
    /\ \A w \in Workers :
          workers[w].pc # "idle" => workers[w].msg.cid \in claimed
    /\ \A c \in Commands \ claimed : attempts[c] = 0
    /\ \A c \in claimed : \E m \in cmdNet : m.cid = c

(* A claimed command that is not forgotten cannot be claimed again: it is   *)
(* past its ttl, or still on record - and the record was touched late enough *)
(* to outlive the ttl.                                                       *)
Guarded ==
    /\ \A c \in DOMAIN records : records[c].at <= now
    /\ \A m \in cmdNet : m.cid \in claimed \ forgotten =>
          \/ now - m.ts > m.ttl
          \/ /\ m.cid \in DOMAIN records
             /\ m.ttl <= MaxTtl
             /\ m.ts <= records[m.cid].at + FutureSkew

SingleOwner ==
    \A c \in Commands \ forgotten :
       /\ \A k1, k2 \in Conns : Holds(k1, c) /\ Holds(k2, c) => k1 = k2
       /\ \A k \in Conns, w \in Workers : ~(Holds(k, c) /\ Busy(w, c))
       /\ \A v, w \in Workers : Busy(v, c) /\ Busy(w, c) => v = w

Untried ==
    \A c \in Commands \ forgotten :
       /\ attempts[c] <= 1
       /\ \A k \in Conns : Holds(k, c) => attempts[c] = 0
       /\ \A w \in Workers :
             Busy(w, c) /\ workers[w].pc = "ready" => attempts[c] = 0

Tried ==
    /\ \A w \in Workers : workers[w].pc \in {"running", "reported"}
                            => attempts[workers[w].msg.cid] >= 1
    /\ \A c \in DOMAIN records :
          records[c].status = "done" => attempts[c] >= 1
    /\ DoneWasAttempted

OwnerStatus ==
    \A c \in DOMAIN records \ forgotten :
       /\ \A k \in Conns : Holds(k, c) => records[c].status = "queued"
       /\ \A w \in Workers : Busy(w, c) =>
             records[c].status =
                IF workers[w].pc = "reported" THEN "done" ELSE "acked"

IInv == /\ TypeOK
        /\ OneMessage
        /\ KnownOnly
        /\ Guarded
        /\ SingleOwner
        /\ Untried
        /\ Tried
        /\ OwnerStatus
=============================================================================
