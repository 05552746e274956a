------------------------- MODULE CommandChannelProofs -------------------------
(***************************************************************************)
(* The channel keeps the promise, for any commands, connections, threads,  *)
(* ttls and numbers of restarts: every step of CommandChannel is a step of *)
(* CommandPromise or leaves its variables alone.                           *)
(*                                                                         *)
(* A status is shown because an acknowledgement said so, possibly long ago *)
(* and read before a restart; so the invariant follows what "acked" and    *)
(* "done" stand for from the gateway's threads and table (Threads, Table)  *)
(* through the network and the callback (Backed) to the row.               *)
(*                                                                         *)
(* And the gateway in the channel is the gateway of CommandGateway: what   *)
(* CommandGatewayProofs proves of it holds from the API to the executor.   *)
(***************************************************************************)
EXTENDS CommandChannel, TLAPS

Exists(c) == c \in Commands /\ row[c] # None

(* What an acknowledgement stands for. *)
Backed(c, s) ==
    /\ s = "acked" => c \in claimed
    /\ s = "done" => attempts[c] > 0

ChTypeOK ==
    /\ ApiTypeOK
    /\ now \in Nat
    /\ cmdNet \subseteq Gw!Message
    /\ callback \in [Conns -> Gw!Message \cup {NoMsg}]
    /\ workers \in [Workers -> Gw!Worker]
    /\ attempts \in [Commands -> 0..2]

(* What is on its way, in whatever place, is of a command that has a row. *)
Accepted ==
    /\ \A c \in sending : Exists(c)
    /\ \A m \in cmdNet : Exists(m.cid)
    /\ \A c \in claimed : Exists(c)
    /\ \A a \in ackNet : Exists(a.cid)
    /\ ackRead # None => Exists(ackRead.cid) /\ ackRead.seen \in {"queued", "acked", "done", "expired"}
    /\ sweep # None => \A c \in sweep : Exists(c)

Threads ==
    /\ \A k \in Conns : callback[k] # NoMsg => callback[k].cid \in claimed
    /\ \A w \in Workers : workers[w].pc # "idle" => workers[w].msg.cid \in claimed
    /\ \A w \in Workers : workers[w].pc \in {"running", "reported"}
                             => attempts[workers[w].msg.cid] > 0

Table ==
    /\ DOMAIN records \subseteq claimed
    /\ \A c \in DOMAIN records : records[c].status = "done" => attempts[c] > 0

Replies ==
    /\ \A a \in ackNet : Backed(a.cid, a.status)
    /\ ackRead # None => Backed(ackRead.cid, ackRead.status)

ChInv == ChTypeOK /\ Accepted /\ Threads /\ Table /\ Replies

LEMMA InitInv == ChInit => ChInv
<1> SUFFICES ASSUME ChInit PROVE ChInv
  OBVIOUS
<1> USE DEF ChInit, ApiInit, Gw!Init
<1>1. ChTypeOK
  BY DEF ChTypeOK, ApiTypeOK, Gw!Worker, Gw!Idle
<1>2. Accepted
  BY DEF Accepted
<1>3. Threads
  BY DEF Threads, Gw!Idle
<1>4. Table
  BY DEF Table
<1>5. Replies
  BY DEF Replies
<1> QED
  BY <1>1, <1>2, <1>3, <1>4, <1>5 DEF ChInv

-----------------------------------------------------------------------------
(* The promise's view of a step *)

LEMMA Silent ==
    ASSUME row' = row, claimed' = claimed, attempts' = attempts
    PROVE  UNCHANGED Promise!vars
  BY DEF Promise!vars, Status

(* A commit that sets the status of a set of rows. *)
LEMMA SetShows ==
    ASSUME ChTypeOK, NEW S \in SUBSET Commands, \A c \in S : Exists(c),
           NEW s \in {"acked", "done", "expired"}, \A c \in S : Backed(c, s),
           SetStatus(S, s), UNCHANGED <<claimed, attempts>>
    PROVE  /\ row' \in [Commands -> Row \cup {None}]
           /\ \A c \in Commands : row[c] # None => row'[c] # None
           /\ Promise!Next
<1> USE ApiAssumption DEF Exists, Row, Live, Terminal
<1>1. \A c \in Commands : row[c] \in Row \cup {None}
  BY DEF ChTypeOK, ApiTypeOK
<1>2. \A c \in S : [row[c] EXCEPT !.status = s] \in Row
  BY <1>1
<1>3. \A c \in Commands : row'[c] = IF c \in S THEN [row[c] EXCEPT !.status = s] ELSE row[c]
  BY DEF SetStatus
<1>4. row' \in [Commands -> Row \cup {None}]
  BY <1>1, <1>2 DEF SetStatus
<1>5. \A c \in Commands : row[c] # None => row'[c] # None
  BY <1>2, <1>3
<1>6. \A c \in Commands : Status(c)' = IF c \in S THEN s ELSE Status(c)
  <2>1. \A c \in S : [row[c] EXCEPT !.status = s].status = s
    BY <1>1
  <2>2. \A c \in S : row'[c] # None /\ row'[c].status = s
    BY <1>2, <1>3, <2>1
  <2> QED
    BY <1>3, <2>2 DEF Status
<1>7. Promise!Show(S, s)
  <2>1. \A c \in S : Status(c) # "none"
    BY <1>1 DEF Status
  <2>2. s = "acked" => S \subseteq claimed
    BY DEF Backed
  <2>3. s = "done" => S \subseteq {c \in Commands : attempts[c] > 0}
    BY DEF Backed
  <2>4. [c \in Commands |-> Status(c)]' =
          [c \in Commands |-> IF c \in S THEN s ELSE [d \in Commands |-> Status(d)][c]]
    BY <1>6
  <2> QED
    BY <2>1, <2>2, <2>3, <2>4 DEF Promise!Show
<1>8. s \in Promise!Shown \ {"queued"}
  BY DEF Promise!Shown
<1> QED
  BY <1>4, <1>5, <1>7, <1>8 DEF Promise!Next

-----------------------------------------------------------------------------
(* The API *)

LEMMA SendStep ==
    ASSUME ChInv, NEW c \in Commands, NEW ttl \in ApiTtl, SendCommand(c, ttl), UNCHANGED gwVars
    PROVE  ChInv' /\ Promise!Next
<1> USE ApiAssumption DEF gwVars, SendCommand
<1>1. ttl \in Int /\ now \in Nat
  BY DEF ChInv, ChTypeOK
<1>2. [status |-> "queued", created |-> now, ttl |-> ttl] \in Row
  BY <1>1 DEF Row, Live, Terminal
<1>3. row'[c] # None /\ row'[c].status = "queued" /\ row[c] = None
  BY <1>2 DEF ChInv, ChTypeOK, ApiTypeOK, Row, Live, Terminal
<1>4. \A d \in Commands \ {c} : row'[d] = row[d]
  BY DEF ChInv, ChTypeOK, ApiTypeOK
<1>5. ChTypeOK'
  BY <1>2 DEF ChInv, ChTypeOK, ApiTypeOK
<1>6. Accepted'
  BY <1>3, <1>4 DEF ChInv, Accepted, Exists
<1>7. Threads' /\ Table' /\ Replies'
  BY DEF ChInv, Threads, Table, Replies, Backed
<1>8. Promise!Accept(c)
  <2>1. Status(c) = "none" /\ Status(c)' = "queued"
    BY <1>3 DEF Status
  <2>2. \A d \in Commands \ {c} : Status(d)' = Status(d)
    BY <1>4 DEF Status
  <2> QED
    BY <2>1, <2>2 DEF Promise!Accept
<1> QED
  BY <1>5, <1>6, <1>7, <1>8 DEF ChInv, Promise!Next

LEMMA PublishStep ==
    ASSUME ChInv, NEW c \in Commands, PublishCommand(c) \/ PublishFails(c), UNCHANGED gwVars
    PROVE  ChInv' /\ UNCHANGED Promise!vars
<1> USE DEF gwVars, PublishCommand, PublishFails
<1>1. cmdNet' \subseteq cmdNet \cup {[cid |-> c, ts |-> now, ttl |-> row[c].ttl]}
  OBVIOUS
<1>2. c \in sending /\ sending' = sending \ {c}
  OBVIOUS
<1>3. Exists(c) /\ row[c] \in Row
  BY <1>2 DEF ChInv, Accepted, Exists, ChTypeOK, ApiTypeOK
<1>4. cmdNet' \subseteq Gw!Message
  BY <1>1, <1>3 DEF ChInv, ChTypeOK, Row, Gw!Message
<1>5. ChTypeOK'
  BY <1>2, <1>4 DEF ChInv, ChTypeOK, ApiTypeOK
<1>6. Accepted'
  BY <1>1, <1>2, <1>3 DEF ChInv, Accepted, Exists
<1>7. Threads' /\ Table' /\ Replies'
  BY DEF ChInv, Threads, Table, Replies, Backed
<1> QED
  BY <1>5, <1>6, <1>7, Silent DEF ChInv

(* Reading an acknowledgement, or losing it. *)
LEMMA AckReadStep ==
    ASSUME ChInv, (\E a \in ackNet : AckReadRow(a)) \/ AckFails, UNCHANGED gwVars
    PROVE  ChInv' /\ UNCHANGED Promise!vars
<1> USE DEF gwVars
<1>1. UNCHANGED <<now, cmdNet, ackNet, row, sending, sweep, apiRestarts>>
  BY DEF AckReadRow, AckFails
<1>2. \/ ackRead' = None
      \/ \E a \in ackNet : /\ row[a.cid] # None
                           /\ ackRead' = [cid |-> a.cid, seen |-> row[a.cid].status,
                                          status |-> a.status]
  BY DEF AckReadRow, AckFails
<1>3. ackRead' # None =>
        /\ Exists(ackRead'.cid) /\ Backed(ackRead'.cid, ackRead'.status)
        /\ ackRead'.seen \in {"queued", "acked", "done", "expired"}
  <2> SUFFICES ASSUME NEW a \in ackNet, row[a.cid] # None,
                      ackRead' = [cid |-> a.cid, seen |-> row[a.cid].status,
                                  status |-> a.status]
               PROVE  /\ Exists(ackRead'.cid) /\ Backed(ackRead'.cid, ackRead'.status)
                      /\ ackRead'.seen \in {"queued", "acked", "done", "expired"}
    BY <1>2
  <2>1. Exists(a.cid) /\ Backed(a.cid, a.status)
    BY DEF ChInv, Accepted, Replies
  <2>2. row[a.cid] \in Row
    BY <2>1 DEF ChInv, ChTypeOK, ApiTypeOK, Exists
  <2> QED
    BY <2>1, <2>2 DEF Row, Live, Terminal
<1>4. ChTypeOK'
  BY <1>1, <1>3 DEF ChInv, ChTypeOK, ApiTypeOK, Exists
<1>5. Accepted'
  BY <1>1, <1>3 DEF ChInv, Accepted, Exists
<1>6. Threads' /\ Table'
  BY <1>1 DEF ChInv, Threads, Table
<1>7. Replies'
  BY <1>1, <1>3 DEF ChInv, Replies, Backed
<1> QED
  BY <1>1, <1>4, <1>5, <1>6, <1>7, Silent DEF ChInv

LEMMA AckCommitStep ==
    ASSUME ChInv, AckCommit, UNCHANGED gwVars
    PROVE  ChInv' /\ (Promise!Next \/ UNCHANGED Promise!vars)
<1> DEFINE new == NextStatus(ackRead.seen, ackRead.status)
<1> USE DEF gwVars
<1>1. /\ ackRead # None /\ ackRead' = None
      /\ UNCHANGED <<now, cmdNet, ackNet, sending, sweep, apiRestarts>>
      /\ IF new = ackRead.seen THEN UNCHANGED row ELSE SetStatus({ackRead.cid}, new)
  BY DEF AckCommit
<1>2. Exists(ackRead.cid) /\ Backed(ackRead.cid, ackRead.status)
  BY <1>1 DEF ChInv, Accepted, Replies
<1>3. new # ackRead.seen => new \in {"acked", "done", "expired"} /\ new = ackRead.status
  BY DEF NextStatus, Live, Terminal
<1>4. /\ row' \in [Commands -> Row \cup {None}]
      /\ \A c \in Commands : row[c] # None => row'[c] # None
      /\ Promise!Next \/ UNCHANGED Promise!vars
  <2>1. CASE new = ackRead.seen
    BY <1>1, <2>1, Silent DEF ChInv, ChTypeOK, ApiTypeOK
  <2>2. CASE new # ackRead.seen
    <3> DEFINE S == {ackRead.cid}
    <3>1. S \in SUBSET Commands /\ \A c \in S : Exists(c) /\ Backed(c, new)
      BY <1>2, <1>3, <2>2 DEF Exists
    <3>2. SetStatus(S, new) /\ new \in {"acked", "done", "expired"}
      BY <1>1, <1>3, <2>2
    <3> HIDE DEF S, new
    <3> QED
      BY <3>1, <3>2, SetShows DEF ChInv
  <2> QED
    BY <2>1, <2>2
<1>5. ChTypeOK'
  BY <1>1, <1>4 DEF ChInv, ChTypeOK, ApiTypeOK
<1>6. Accepted'
  BY <1>1, <1>4 DEF ChInv, Accepted, Exists
<1>7. Threads' /\ Table' /\ Replies'
  BY <1>1 DEF ChInv, Threads, Table, Replies, Backed
<1> QED
  BY <1>4, <1>5, <1>6, <1>7 DEF ChInv

LEMMA SweepStep ==
    ASSUME ChInv, SweepRead \/ SweepCommit \/ SweepFails, UNCHANGED gwVars
    PROVE  ChInv' /\ (Promise!Next \/ UNCHANGED Promise!vars)
<1> USE DEF gwVars
<1>1. UNCHANGED <<now, cmdNet, ackNet, sending, ackRead, apiRestarts>>
  BY DEF SweepRead, SweepCommit, SweepFails
<1>2. sweep' # None => sweep' \subseteq Commands /\ \A c \in sweep' : row'[c] # None
  BY DEF SweepRead, SweepCommit, SweepFails, Overdue, Status, Live
<1>3. /\ row' \in [Commands -> Row \cup {None}]
      /\ \A c \in Commands : row[c] # None => row'[c] # None
      /\ Promise!Next \/ UNCHANGED Promise!vars
  <2>1. CASE SweepRead \/ SweepFails
    <3>1. row' = row
      BY <2>1 DEF SweepRead, SweepFails
    <3> QED
      BY <3>1, Silent DEF ChInv, ChTypeOK, ApiTypeOK
  <2>2. CASE SweepCommit
    <3>1. /\ sweep \in SUBSET Commands
          /\ \A c \in sweep : Exists(c) /\ Backed(c, "expired")
      BY <2>2 DEF SweepCommit, ChInv, ChTypeOK, ApiTypeOK, Accepted, Backed
    <3>2. SetStatus(sweep, "expired")
      BY <2>2 DEF SweepCommit
    <3> QED
      BY <3>1, <3>2, SetShows DEF ChInv
  <2> QED
    BY <2>1, <2>2
<1>4. ChTypeOK'
  BY <1>1, <1>2, <1>3 DEF ChInv, ChTypeOK, ApiTypeOK
<1>5. Accepted'
  BY <1>1, <1>2, <1>3 DEF ChInv, Accepted, Exists
<1>6. Threads' /\ Table' /\ Replies'
  BY <1>1 DEF ChInv, Threads, Table, Replies, Backed
<1> QED
  BY <1>3, <1>4, <1>5, <1>6 DEF ChInv

LEMMA RestartStep ==
    ASSUME ChInv, ApiRestart, UNCHANGED gwVars
    PROVE  ChInv' /\ UNCHANGED Promise!vars
<1> USE DEF gwVars, ApiRestart
<1>1. ChTypeOK'
  BY DEF ChInv, ChTypeOK, ApiTypeOK
<1>2. Accepted'
  BY DEF ChInv, Accepted, Exists
<1>3. Threads' /\ Table' /\ Replies'
  BY DEF ChInv, Threads, Table, Replies, Backed
<1> QED
  BY <1>1, <1>2, <1>3, Silent DEF ChInv

-----------------------------------------------------------------------------
(* The gateway *)

(* What a step of the gateway has to show: its claims, its attempts and its *)
(* replies only grow, and what is new in them has its reason.               *)
LEMMA Carry ==
    ASSUME ChInv, UNCHANGED apiVars, cmdNet' = cmdNet, now' \in Nat,
           claimed \subseteq claimed', \A c \in claimed' : Exists(c),
           attempts' \in [Commands -> 0..2],
           \A c \in Commands : attempts[c] > 0 => attempts'[c] > 0,
           \A a \in ackNet' \ ackNet : Exists(a.cid) /\ Backed(a.cid, a.status)',
           callback' \in [Conns -> Gw!Message \cup {NoMsg}],
           workers' \in [Workers -> Gw!Worker],
           Threads', Table'
    PROVE  ChInv'
<1> USE DEF apiVars
<1>1. ChTypeOK'
  BY DEF ChInv, ChTypeOK, ApiTypeOK
<1>2. Accepted'
  BY DEF ChInv, Accepted, Exists
<1>3. \A c \in Commands : \A s : Backed(c, s) => Backed(c, s)'
  BY DEF Backed
<1>4. \A a \in ackNet' : Backed(a.cid, a.status)'
  BY <1>3 DEF ChInv, Replies, Accepted, Exists
<1>5. ackRead' # None => Backed(ackRead.cid, ackRead.status)'
  BY <1>3 DEF ChInv, Replies, Accepted, Exists
<1>6. Replies'
  BY <1>4, <1>5 DEF Replies
<1> QED
  BY <1>1, <1>2, <1>6 DEF ChInv

(* A reply the gateway may give without claiming or trying anything. *)
Founded(a) == \/ a.cid \in claimed /\ (a.status = "done" => attempts[a.cid] > 0)
              \/ Exists(a.cid) /\ a.status = "expired"

(* Most steps claim nothing and try nothing. *)
LEMMA CarrySilent ==
    ASSUME ChInv, UNCHANGED apiVars, UNCHANGED <<cmdNet, claimed, attempts>>, now' \in Nat,
           \A a \in ackNet' \ ackNet : Founded(a),
           callback' \in [Conns -> Gw!Message \cup {NoMsg}],
           workers' \in [Workers -> Gw!Worker],
           Threads', Table'
    PROVE  ChInv' /\ UNCHANGED Promise!vars
<1>2. \A a \in ackNet' \ ackNet : Exists(a.cid) /\ Backed(a.cid, a.status)'
  BY DEF ChInv, Accepted, Backed, Founded
<1>3. attempts' \in [Commands -> 0..2] /\ \A c \in claimed' : Exists(c)
  BY DEF ChInv, ChTypeOK, Accepted
<1>4. ChInv'
  BY <1>2, <1>3, Carry
<1>5. row' = row
  BY DEF apiVars
<1> QED
  BY <1>4, <1>5, Silent

(* Pruning and updating keep the table's relation to claims and attempts. *)
LEMMA PrunedTable ==
    ASSUME ChInv, NEW V \in SUBSET DOMAIN records
    PROVE  /\ DOMAIN Gw!Pruned(V) \subseteq DOMAIN records
           /\ \A c \in DOMAIN Gw!Pruned(V) : Gw!Pruned(V)[c] = records[c]
  BY DEF Gw!Pruned

LEMMA UpdatedTable ==
    ASSUME ChInv, NEW c \in claimed, NEW s, records' = Gw!Update(c, s),
           s = "done" => attempts[c] > 0, UNCHANGED <<claimed, attempts>>
    PROVE  Table'
<1>1. CASE c \notin DOMAIN records
  BY <1>1 DEF Gw!Update, ChInv, Table
<1>2. CASE c \in DOMAIN records
  <2>1. /\ DOMAIN records' = DOMAIN records
        /\ \A d \in DOMAIN records : records'[d] = IF d = c THEN [status |-> s, at |-> now] ELSE records[d]
    BY <1>2 DEF Gw!Update, Gw!WithRecord
  <2>2. \A d \in DOMAIN records' : records'[d].status = "done" => attempts'[d] > 0
    BY <2>1 DEF ChInv, Table
  <2> QED
    BY <2>1, <2>2 DEF ChInv, Table
<1> QED
  BY <1>1, <1>2

LEMMA MalformedStep ==
    ASSUME ChInv, NEW k \in Conns, Gw!ClaimMalformed(k), UNCHANGED apiVars
    PROVE  ChInv' /\ UNCHANGED Promise!vars
<1> PICK V \in SUBSET DOMAIN records : Gw!Prune(V) /\ records' = Gw!Pruned(V)
  BY DEF Gw!ClaimMalformed
<1>1. UNCHANGED <<now, cmdNet, ackNet, callback, workers, serial, attempts, claimed, restarts>>
  BY DEF Gw!ClaimMalformed
<1>2. Table'
  BY <1>1, PrunedTable DEF ChInv, Table
<1>3. Threads'
  BY <1>1 DEF ChInv, Threads
<1>4. (\A a \in ackNet' \ ackNet : Founded(a)) /\ now' \in Nat
  BY <1>1 DEF ChInv, ChTypeOK
<1>5. callback' \in [Conns -> Gw!Message \cup {NoMsg}] /\ workers' \in [Workers -> Gw!Worker]
  BY <1>1 DEF ChInv, ChTypeOK
<1> QED
  BY <1>1, <1>2, <1>3, <1>4, <1>5, CarrySilent

LEMMA DuplicateStep ==
    ASSUME ChInv, NEW k \in Conns, NEW m \in cmdNet, Gw!ClaimDuplicate(k, m), UNCHANGED apiVars
    PROVE  ChInv' /\ UNCHANGED Promise!vars
<1> DEFINE s == IF records[m.cid].status \in Gw!AckStatus THEN records[m.cid].status ELSE "acked"
<1> PICK V \in SUBSET DOMAIN records :
           /\ m.cid \in DOMAIN Gw!Pruned(V)
           /\ records' = Gw!Pruned(V)
           /\ Gw!Reply(m.cid, s)
  BY DEF Gw!ClaimDuplicate
<1>1. UNCHANGED <<now, cmdNet, callback, workers, serial, attempts, claimed, restarts>>
  BY DEF Gw!ClaimDuplicate
<1>2. Table'
  BY <1>1, PrunedTable DEF ChInv, Table
<1>3. Threads'
  BY <1>1 DEF ChInv, Threads
<1>4. ackNet' = ackNet \cup {[cid |-> m.cid, status |-> s]} /\ now' \in Nat
  BY <1>1 DEF ChInv, ChTypeOK, Gw!Reply
<1>5. m.cid \in claimed /\ (s = "done" => attempts[m.cid] > 0)
  BY PrunedTable DEF ChInv, Table
<1>6. callback' \in [Conns -> Gw!Message \cup {NoMsg}] /\ workers' \in [Workers -> Gw!Worker]
  BY <1>1 DEF ChInv, ChTypeOK
<1> HIDE DEF s
<1>7. \A a \in ackNet' \ ackNet : Founded(a)
  BY <1>4, <1>5 DEF Founded
<1> QED
  BY <1>1, <1>2, <1>3, <1>4, <1>5, <1>6, <1>7, CarrySilent

LEMMA RejectedStep ==
    ASSUME ChInv, NEW k \in Conns, NEW m \in cmdNet, Gw!ClaimRejected(k, m), UNCHANGED apiVars
    PROVE  ChInv' /\ UNCHANGED Promise!vars
<1> PICK V \in SUBSET DOMAIN records : records' = Gw!Pruned(V)
  BY DEF Gw!ClaimRejected
<1>1. UNCHANGED <<now, cmdNet, callback, workers, serial, attempts, claimed, restarts>>
  BY DEF Gw!ClaimRejected
<1>2. Table'
  BY <1>1, PrunedTable DEF ChInv, Table
<1>3. Threads'
  BY <1>1 DEF ChInv, Threads
<1>4. ackNet' = ackNet \cup {[cid |-> m.cid, status |-> "expired"]} /\ now' \in Nat
  BY <1>1 DEF ChInv, ChTypeOK, Gw!ClaimRejected, Gw!Reply
<1>5. \A a \in ackNet' \ ackNet : Founded(a)
  BY <1>4 DEF ChInv, Accepted, Founded
<1>6. callback' \in [Conns -> Gw!Message \cup {NoMsg}] /\ workers' \in [Workers -> Gw!Worker]
  BY <1>1 DEF ChInv, ChTypeOK
<1> QED
  BY <1>1, <1>2, <1>3, <1>4, <1>5, <1>6, CarrySilent

LEMMA AcceptedStep ==
    ASSUME ChInv, NEW k \in Conns, NEW m \in cmdNet, Gw!ClaimAccepted(k, m), UNCHANGED apiVars
    PROVE  ChInv' /\ Promise!Next
<1> PICK V \in SUBSET DOMAIN records : records' = Gw!WithRecord(Gw!Pruned(V), m.cid, "queued")
  BY DEF Gw!ClaimAccepted
<1>1. /\ UNCHANGED <<now, cmdNet, ackNet, workers, attempts>>
      /\ callback' = [callback EXCEPT ![k] = m]
      /\ claimed' = claimed \cup {m.cid}
  BY DEF Gw!ClaimAccepted
<1>2. Exists(m.cid) /\ m \in Gw!Message
  BY DEF ChInv, Accepted, ChTypeOK
<1>3. /\ DOMAIN records' = DOMAIN Gw!Pruned(V) \cup {m.cid}
      /\ \A d \in DOMAIN records' :
            records'[d] = IF d = m.cid THEN [status |-> "queued", at |-> now] ELSE Gw!Pruned(V)[d]
  BY DEF Gw!WithRecord
<1>4. \A d \in DOMAIN records' :
         records'[d].status = "done" => d \in DOMAIN records /\ records[d].status = "done"
  BY <1>3, PrunedTable
<1>5. Table'
  BY <1>1, <1>3, <1>4, PrunedTable DEF ChInv, Table
<1>6. \A j \in Conns : callback'[j] = IF j = k THEN m ELSE callback[j]
  BY <1>1 DEF ChInv, ChTypeOK
<1>7. Threads'
  BY <1>1, <1>6 DEF ChInv, Threads
<1>8. callback' \in [Conns -> Gw!Message \cup {NoMsg}]
  BY <1>1, <1>2 DEF ChInv, ChTypeOK
<1>9. ChInv'
  <2>1. \A c \in claimed' : Exists(c)
    BY <1>1, <1>2 DEF ChInv, Accepted
  <2>2. attempts' \in [Commands -> 0..2] /\ now' \in Nat /\ workers' \in [Workers -> Gw!Worker]
    BY <1>1 DEF ChInv, ChTypeOK
  <2> QED
    BY <1>1, <1>5, <1>7, <1>8, <2>1, <2>2, Carry
<1>10. Promise!Take(m.cid)
  <2>1. Status(m.cid) # "none"
    <3>1. row[m.cid] \in Row
      BY <1>2 DEF ChInv, ChTypeOK, ApiTypeOK, Exists
    <3> QED
      BY <1>2, <3>1 DEF Status, Exists, Row, Live, Terminal
  <2>2. row' = row
    BY DEF apiVars
  <2> QED
    BY <1>1, <1>2, <2>1, <2>2 DEF Promise!Take, Status, Exists
<1> QED
  BY <1>2, <1>9, <1>10 DEF Promise!Next, Exists

(* on_message acknowledges and starts a thread. *)
LEMMA AcknowledgeStep ==
    ASSUME ChInv, NEW k \in Conns, NEW w \in Workers, Gw!Acknowledge(k, w), UNCHANGED apiVars
    PROVE  ChInv' /\ UNCHANGED Promise!vars
<1> DEFINE m == callback[k]
           started == [pc |-> "ready", msg |-> m]
<1>1. /\ UNCHANGED <<now, cmdNet, serial, attempts, claimed, forgotten, restarts>>
      /\ m # NoMsg
      /\ workers' = [workers EXCEPT ![w] = started]
      /\ callback' = [callback EXCEPT ![k] = NoMsg]
      /\ records' = Gw!Update(m.cid, "acked")
      /\ ackNet' = ackNet \cup {[cid |-> m.cid, status |-> "acked"]}
  BY DEF Gw!Acknowledge, Gw!Reply
<1>2. m \in Gw!Message /\ m.cid \in claimed
  BY <1>1 DEF ChInv, ChTypeOK, Threads
<1>3. Table'
  BY <1>1, <1>2, UpdatedTable
<1>4. callback' \in [Conns -> Gw!Message \cup {NoMsg}] /\ workers' \in [Workers -> Gw!Worker]
  BY <1>1, <1>2 DEF ChInv, ChTypeOK, Gw!Worker
<1>5. /\ \A j \in Conns : callback'[j] = IF j = k THEN NoMsg ELSE callback[j]
      /\ \A v \in Workers : workers'[v] = IF v = w THEN started ELSE workers[v]
  BY <1>1 DEF ChInv, ChTypeOK
<1>6. Threads'
  <2>1. \A j \in Conns : callback'[j] # NoMsg => callback'[j].cid \in claimed'
    BY <1>1, <1>5 DEF ChInv, Threads
  <2>2. \A v \in Workers : workers'[v].pc # "idle" => workers'[v].msg.cid \in claimed'
    BY <1>1, <1>2, <1>5 DEF ChInv, Threads
  <2>3. \A v \in Workers : workers'[v].pc \in {"running", "reported"}
                               => attempts'[workers'[v].msg.cid] > 0
    BY <1>1, <1>5 DEF ChInv, Threads
  <2> QED
    BY <2>1, <2>2, <2>3 DEF Threads
<1>7. (\A a \in ackNet' \ ackNet : Founded(a)) /\ now' \in Nat
  BY <1>1, <1>2 DEF ChInv, ChTypeOK, Founded
<1> HIDE DEF m
<1> QED
  BY <1>1, <1>3, <1>4, <1>6, <1>7, CarrySilent

(* The worker's message, while it has one. *)
LEMMA WorkerMessage ==
    ASSUME ChInv, NEW w \in Workers, workers[w].pc # "idle"
    PROVE  /\ workers[w] \in [pc : {"ready", "running", "reported"}, msg : Gw!Message]
           /\ workers[w].msg.cid \in claimed
           /\ Exists(workers[w].msg.cid)
<1>1. workers[w] \in Gw!Worker
  BY DEF ChInv, ChTypeOK
<1>2. workers[w].msg.cid \in claimed
  BY DEF ChInv, Threads
<1> QED
  BY <1>1, <1>2 DEF Gw!Worker, Gw!Idle, ChInv, Accepted

LEMMA ExecStep ==
    ASSUME ChInv, NEW w \in Workers, Gw!BeginExec(w), UNCHANGED apiVars
    PROVE  ChInv' /\ Promise!Next
<1> DEFINE c == workers[w].msg.cid
           started == [workers[w] EXCEPT !.pc = "running"]
<1>1. /\ UNCHANGED <<now, cmdNet, ackNet, records, callback, claimed, forgotten, restarts>>
      /\ workers[w].pc = "ready"
      /\ workers' = [workers EXCEPT ![w] = started]
      /\ attempts' = [attempts EXCEPT ![c] = IF attempts[c] = 0 THEN 1 ELSE 2]
  BY DEF Gw!BeginExec
<1>2. /\ workers[w] \in [pc : {"ready", "running", "reported"}, msg : Gw!Message]
      /\ c \in claimed /\ Exists(c) /\ c \in Commands
  BY <1>1, WorkerMessage DEF Exists
<1>3. started \in Gw!Worker /\ started.pc = "running" /\ started.msg.cid = c
  BY <1>2 DEF Gw!Worker
<1>4. /\ attempts' \in [Commands -> 0..2]
      /\ \A d \in Commands : attempts'[d] > 0 <=> attempts[d] > 0 \/ d = c
  BY <1>1, <1>2 DEF ChInv, ChTypeOK
<1>5. \A v \in Workers : workers'[v] = IF v = w THEN started ELSE workers[v]
  BY <1>1 DEF ChInv, ChTypeOK
<1>6. workers' \in [Workers -> Gw!Worker]
  BY <1>1, <1>3 DEF ChInv, ChTypeOK
<1>7. \A d \in claimed : d \in Commands
  BY DEF ChInv, Accepted, Exists
<1>8. Threads'
  <2> HIDE DEF c, started
  <2>1. \A j \in Conns : callback'[j] # NoMsg => callback'[j].cid \in claimed'
    BY <1>1 DEF ChInv, Threads
  <2>2. \A v \in Workers : workers'[v].pc # "idle" => workers'[v].msg.cid \in claimed'
    BY <1>1, <1>2, <1>3, <1>5 DEF ChInv, Threads
  <2>3. \A v \in Workers : workers'[v].pc \in {"running", "reported"}
                               => attempts'[workers'[v].msg.cid] > 0
    BY <1>2, <1>3, <1>4, <1>5, <1>7 DEF ChInv, Threads
  <2> QED
    BY <2>1, <2>2, <2>3 DEF Threads
<1>9. Table'
  BY <1>1, <1>4, <1>7 DEF ChInv, Table
<1>10. ChInv'
  <2>1. callback' \in [Conns -> Gw!Message \cup {NoMsg}] /\ now' \in Nat
    BY <1>1 DEF ChInv, ChTypeOK
  <2>2. \A d \in claimed' : Exists(d)
    BY <1>1 DEF ChInv, Accepted
  <2> QED
    BY <1>1, <1>4, <1>6, <1>8, <1>9, <2>1, <2>2, Carry
<1>11. Promise!Try(c)
  <2>1. {d \in Commands : attempts[d] > 0}' = {d \in Commands : attempts[d] > 0} \cup {c}
    BY <1>2, <1>4
  <2>2. row' = row
    BY DEF apiVars
  <2> QED
    BY <1>1, <1>2, <2>1, <2>2 DEF Promise!Try, Status
<1>12. \E d \in Commands : Promise!Try(d)
  BY <1>2, <1>11, Zenon DEF Promise!Try
<1>13. Promise!Next
  BY <1>12 DEF Promise!Next
<1> QED
  BY <1>10, <1>13

(* The thread ends, or goes on to its status, with a reply or none. *)
LEMMA OutcomeStep ==
    ASSUME ChInv, NEW w \in Workers, workers[w].pc # "idle", UNCHANGED apiVars,
           UNCHANGED <<now, cmdNet, callback, claimed, attempts>>,
           workers' \in [Workers -> Gw!Worker],
           \A v \in Workers \ {w} : workers'[v] = workers[v],
           \/ workers'[w].pc = "idle"
           \/ /\ attempts[workers[w].msg.cid] > 0
              /\ workers'[w].msg = workers[w].msg,
           Table',
           \A a \in ackNet' \ ackNet :
              a.cid = workers[w].msg.cid /\ (a.status = "done" => attempts[a.cid] > 0)
    PROVE  ChInv' /\ UNCHANGED Promise!vars
<1>1. workers[w].msg.cid \in claimed
  BY WorkerMessage
<1>2. Threads'
  <2>1. \A j \in Conns : callback'[j] # NoMsg => callback'[j].cid \in claimed'
    BY DEF ChInv, Threads
  <2>2. \A v \in Workers : workers'[v].pc # "idle" => workers'[v].msg.cid \in claimed'
    BY <1>1 DEF ChInv, Threads
  <2>3. \A v \in Workers : workers'[v].pc \in {"running", "reported"}
                               => attempts'[workers'[v].msg.cid] > 0
    BY <1>1 DEF ChInv, Threads
  <2> QED
    BY <2>1, <2>2, <2>3 DEF Threads
<1>3. callback' \in [Conns -> Gw!Message \cup {NoMsg}] /\ now' \in Nat
  BY DEF ChInv, ChTypeOK
<1>4. \A a \in ackNet' \ ackNet : Founded(a)
  BY <1>1 DEF Founded
<1> QED
  BY <1>2, <1>3, <1>4, CarrySilent

LEMMA WorkStep ==
    ASSUME ChInv, NEW w \in Workers, UNCHANGED apiVars,
           Gw!Confirm(w) \/ Gw!Fail(w) \/ Gw!PublishStatus(w) \/ Gw!StatusRaises(w)
    PROVE  ChInv' /\ UNCHANGED Promise!vars
<1> DEFINE c == workers[w].msg.cid
<1>1. workers[w].pc # "idle" /\ UNCHANGED <<now, cmdNet, callback, claimed, attempts>>
  BY DEF Gw!Confirm, Gw!Fail, Gw!PublishStatus, Gw!StatusRaises, Gw!ReportExpired
<1>2. workers[w] \in [pc : {"ready", "running", "reported"}, msg : Gw!Message] /\ c \in claimed
  BY <1>1, WorkerMessage
<1>3. workers \in [Workers -> Gw!Worker]
  BY DEF ChInv, ChTypeOK
<1>4. CASE Gw!Confirm(w)
  <2> DEFINE told == [workers[w] EXCEPT !.pc = "reported"]
  <2>1. /\ workers' = [workers EXCEPT ![w] = told]
        /\ records' = Gw!Update(c, "done")
        /\ ackNet' = ackNet \cup {[cid |-> c, status |-> "done"]}
        /\ workers[w].pc = "running"
    BY <1>4 DEF Gw!Confirm, Gw!Reply
  <2>2. attempts[c] > 0
    BY <2>1 DEF ChInv, Threads
  <2>3. Table'
    BY <1>1, <1>2, <2>1, <2>2, UpdatedTable
  <2>4. told \in Gw!Worker /\ told.msg = workers[w].msg
    BY <1>2 DEF Gw!Worker
  <2>5. /\ workers' \in [Workers -> Gw!Worker] /\ workers'[w].msg = workers[w].msg
        /\ \A v \in Workers \ {w} : workers'[v] = workers[v]
    BY <1>3, <2>1, <2>4
  <2>6. \A a \in ackNet' \ ackNet : a.cid = c /\ attempts[a.cid] > 0
    BY <2>1, <2>2
  <2> QED
    BY <1>1, <2>2, <2>3, <2>5, <2>6, OutcomeStep
<1>5. CASE Gw!ReportExpired(w)
  <2>1. /\ workers' = [workers EXCEPT ![w] = Gw!Idle]
        /\ records' = Gw!Update(c, "expired")
        /\ ackNet' = ackNet \cup {[cid |-> c, status |-> "expired"]}
    BY <1>5 DEF Gw!ReportExpired, Gw!Reply
  <2>2. Table'
    BY <1>1, <1>2, <2>1, UpdatedTable
  <2>3. /\ workers' \in [Workers -> Gw!Worker] /\ workers'[w].pc = "idle"
        /\ \A v \in Workers \ {w} : workers'[v] = workers[v]
    BY <1>3, <2>1 DEF Gw!Worker, Gw!Idle
  <2>4. \A a \in ackNet' \ ackNet : a.cid = c /\ a.status = "expired"
    BY <2>1
  <2> QED
    BY <1>1, <2>2, <2>3, <2>4, OutcomeStep
<1>6. CASE Gw!PublishStatus(w)
  <2>1. workers' = [workers EXCEPT ![w] = Gw!Idle] /\ records' = records /\ ackNet' = ackNet
    BY <1>6 DEF Gw!PublishStatus
  <2>2. Table'
    BY <1>1, <2>1 DEF ChInv, Table
  <2>3. /\ workers' \in [Workers -> Gw!Worker] /\ workers'[w].pc = "idle"
        /\ \A v \in Workers \ {w} : workers'[v] = workers[v]
    BY <1>3, <2>1 DEF Gw!Worker, Gw!Idle
  <2> QED
    BY <1>1, <2>1, <2>2, <2>3, OutcomeStep
<1> QED
  BY <1>4, <1>5, <1>6 DEF Gw!Fail, Gw!StatusRaises

LEMMA GatewayRestartStep ==
    ASSUME ChInv, Gw!Restart, UNCHANGED apiVars
    PROVE  ChInv' /\ UNCHANGED Promise!vars
<1>1. /\ UNCHANGED <<now, cmdNet, ackNet, attempts, claimed>>
      /\ records' = [c \in {} |-> 0]
      /\ callback' = [k \in Conns |-> NoMsg]
      /\ workers' = [w \in Workers |-> Gw!Idle]
  BY DEF Gw!Restart
<1>2. Table'
  BY <1>1 DEF Table
<1>3. Threads'
  BY <1>1 DEF Threads, Gw!Idle
<1>4. callback' \in [Conns -> Gw!Message \cup {NoMsg}] /\ workers' \in [Workers -> Gw!Worker]
  BY <1>1 DEF Gw!Worker
<1>5. (\A a \in ackNet' \ ackNet : Founded(a)) /\ now' \in Nat
  BY <1>1 DEF ChInv, ChTypeOK
<1> QED
  BY <1>1, <1>2, <1>3, <1>4, <1>5, CarrySilent

LEMMA ClockStep ==
    ASSUME ChInv, Clock
    PROVE  ChInv' /\ UNCHANGED Promise!vars
<1>1. /\ UNCHANGED apiVars /\ now' = now + 1
      /\ UNCHANGED <<cmdNet, ackNet, records, callback, workers, attempts, claimed>>
  BY DEF Clock, Gw!Tick
<1>2. Table' /\ Threads'
  BY <1>1 DEF ChInv, Table, Threads
<1>3. callback' \in [Conns -> Gw!Message \cup {NoMsg}] /\ workers' \in [Workers -> Gw!Worker]
  BY <1>1 DEF ChInv, ChTypeOK
<1>4. (\A a \in ackNet' \ ackNet : Founded(a)) /\ now' \in Nat
  BY <1>1 DEF ChInv, ChTypeOK
<1> QED
  BY <1>1, <1>2, <1>3, <1>4, CarrySilent

-----------------------------------------------------------------------------
LEMMA InitPromise == ChInit => Promise!Init
  BY DEF ChInit, ApiInit, Gw!Init, Promise!Init, Status

LEMMA NextKeeps == ChInv /\ [ChNext]_chVars => ChInv' /\ [Promise!Next]_Promise!vars
<1> SUFFICES ASSUME ChInv, [ChNext]_chVars
             PROVE  ChInv' /\ (Promise!Next \/ UNCHANGED Promise!vars)
  OBVIOUS
<1>1. CASE ApiStep /\ UNCHANGED gwVars
  <2>1. CASE \E c \in Commands, ttl \in ApiTtl : SendCommand(c, ttl)
    BY <1>1, <2>1, SendStep
  <2>2. CASE \E c \in Commands : PublishCommand(c) \/ PublishFails(c)
    BY <1>1, <2>2, PublishStep
  <2>3. CASE (\E a \in ackNet : AckReadRow(a)) \/ AckFails
    BY <1>1, <2>3, AckReadStep
  <2>4. CASE AckCommit
    BY <1>1, <2>4, AckCommitStep
  <2>5. CASE SweepRead \/ SweepCommit \/ SweepFails
    BY <1>1, <2>5, SweepStep
  <2>6. CASE ApiRestart
    BY <1>1, <2>6, RestartStep
  <2> QED
    BY <1>1, <2>1, <2>2, <2>3, <2>4, <2>5, <2>6 DEF ApiStep
<1>2. CASE Gw!GatewayStep /\ UNCHANGED apiVars
  <2>1. CASE \E k \in Conns : Gw!ClaimMalformed(k)
    BY <1>2, <2>1, MalformedStep
  <2>2. CASE \E k \in Conns, m \in cmdNet : Gw!Deliver(k, m)
    <3> PICK k \in Conns, m \in cmdNet : Gw!Deliver(k, m)
      BY <2>2
    <3>1. CASE Gw!ClaimDuplicate(k, m)
      BY <1>2, <3>1, DuplicateStep
    <3>2. CASE Gw!ClaimRejected(k, m)
      BY <1>2, <3>2, RejectedStep
    <3>3. CASE Gw!ClaimAccepted(k, m)
      BY <1>2, <3>3, AcceptedStep
    <3> QED
      BY <3>1, <3>2, <3>3 DEF Gw!Deliver
  <2>3. CASE \E k \in Conns, w \in Workers : Gw!Acknowledge(k, w)
    BY <1>2, <2>3, AcknowledgeStep
  <2>4. CASE \E w \in Workers : Gw!Work(w)
    <3> PICK w \in Workers : Gw!Work(w)
      BY <2>4
    <3>1. CASE Gw!BeginExec(w)
      BY <1>2, <3>1, ExecStep
    <3>2. CASE ~Gw!BeginExec(w)
      BY <1>2, <3>2, WorkStep DEF Gw!Work
    <3> QED
      BY <3>1, <3>2
  <2>5. CASE Gw!Restart
    BY <1>2, <2>5, GatewayRestartStep
  <2> QED
    BY <1>2, <2>1, <2>2, <2>3, <2>4, <2>5 DEF Gw!GatewayStep
<1>3. CASE Clock
  BY <1>3, ClockStep
<1>4. CASE UNCHANGED chVars
  <2> USE <1>4 DEF chVars, apiVars, gwVars
  <2>1. ChTypeOK'
    BY DEF ChInv, ChTypeOK, ApiTypeOK
  <2>2. Accepted'
    BY DEF ChInv, Accepted, Exists
  <2>3. Threads' /\ Table' /\ Replies'
    BY DEF ChInv, Threads, Table, Replies, Backed
  <2> QED
    BY <2>1, <2>2, <2>3, Silent DEF ChInv
<1> QED
  BY <1>1, <1>2, <1>3, <1>4 DEF ChNext

(***************************************************************************)
(* Rows, acknowledgements in progress and sweeps have their types, however *)
(* the API's threads, its restarts and the gateway interleave.             *)
(***************************************************************************)
THEOREM RowsTyped == ChSpec => []ApiTypeOK
<1>1. ChInv => ApiTypeOK
  BY DEF ChInv, ChTypeOK
<1> QED
  BY <1>1, InitInv, NextKeeps, PTL DEF ChSpec

(***************************************************************************)
(* The command path keeps what the cloud promises: a command is executed   *)
(* only after it was accepted, shown as acked only if the gateway took it, *)
(* and as done only if an executor was handed it - whatever the broker     *)
(* loses, repeats or delays and whichever process restarts.                *)
(***************************************************************************)
THEOREM PromiseKept == ChSpec => KeepsPromise
  BY InitInv, InitPromise, NextKeeps, PTL DEF ChSpec, KeepsPromise, Promise!Spec

-----------------------------------------------------------------------------
(* The gateway in the channel *)

(* What the API is about to publish, the gateway may be sent: a command    *)
(* once, with the time of the day and a ttl the API allows.                *)
Publishable ==
    /\ now \in 0..MaxTime
    /\ \A c \in Commands : row[c] # None => row[c].ttl \in ApiTtl
    /\ \A c \in sending : \A m \in cmdNet : m.cid # c

LEMMA PublishableStep ==
    ASSUME ChInv, Publishable, [ChNext]_chVars PROVE Publishable'
<1> USE ApiAssumption
<1>1. /\ \A c \in sending : Exists(c)
      /\ \A m \in cmdNet : Exists(m.cid)
  BY DEF ChInv, Accepted
<1>2. row \in [Commands -> Row \cup {None}]
  BY DEF ChInv, ChTypeOK, ApiTypeOK
<1>3. ASSUME NEW c \in Commands, NEW ttl \in ApiTtl, SendCommand(c, ttl)
      PROVE  Publishable'
  <2>1. /\ \A d \in Commands : row'[d] # None => row'[d].ttl \in ApiTtl
        /\ \A m \in cmdNet : m.cid # c
    BY <1>1, <1>2, <1>3 DEF SendCommand, Publishable, Exists
  <2> QED
    BY <1>3, <2>1 DEF SendCommand, Publishable
<1>4. ASSUME NEW c \in Commands, PublishCommand(c) \/ PublishFails(c)
      PROVE  Publishable'
  BY <1>4 DEF PublishCommand, PublishFails, Publishable
<1>5. ASSUME NEW S, NEW s, SetStatus(S, s)
      PROVE  \A c \in Commands : S \subseteq {d \in Commands : row[d] # None}
                => (row'[c] # None => row'[c].ttl \in ApiTtl)
  <2> SUFFICES ASSUME NEW c \in Commands, S \subseteq {d \in Commands : row[d] # None},
                      row'[c] # None
               PROVE  row'[c].ttl \in ApiTtl
    OBVIOUS
  <2>1. row'[c] = IF c \in S THEN [row[c] EXCEPT !.status = s] ELSE row[c]
    BY <1>5 DEF SetStatus
  <2>2. row[c] # None => [row[c] EXCEPT !.status = s].ttl = row[c].ttl
    BY <1>2 DEF Row
  <2> QED
    BY <2>1, <2>2 DEF Publishable
<1>6. CASE AckCommit
  <2>1. ackRead.cid \in Commands /\ row[ackRead.cid] # None
    BY <1>6 DEF AckCommit, ChInv, Accepted, Exists
  <2>2. \A c \in Commands : row'[c] # None => row'[c].ttl \in ApiTtl
    <3>1. CASE row' = row
      BY <3>1 DEF Publishable
    <3>2. CASE \E s : SetStatus({ackRead.cid}, s)
      BY <1>5, <2>1, <3>2
    <3> QED
      BY <1>6, <3>1, <3>2 DEF AckCommit
  <2> QED
    BY <1>6, <2>2 DEF AckCommit, Publishable
<1>7. CASE SweepCommit
  <2>1. sweep \subseteq {d \in Commands : row[d] # None}
    BY <1>7 DEF SweepCommit, ChInv, Accepted, Exists
  <2>2. SetStatus(sweep, "expired")
    BY <1>7 DEF SweepCommit
  <2>3. \A c \in Commands : row'[c] # None => row'[c].ttl \in ApiTtl
    BY <1>5, <2>1, <2>2
  <2> QED
    BY <1>7, <2>3 DEF SweepCommit, Publishable
<1>8. CASE (\E a \in ackNet : AckReadRow(a)) \/ AckFails \/ SweepRead \/ SweepFails \/ ApiRestart
  BY <1>8 DEF AckReadRow, AckFails, SweepRead, SweepFails, ApiRestart, Publishable
<1>9. CASE Gw!GatewayStep /\ UNCHANGED apiVars
  <2>1. UNCHANGED <<now, cmdNet>>
    BY <1>9 DEF Gw!GatewayStep, Gw!ClaimMalformed, Gw!Deliver, Gw!ClaimDuplicate,
         Gw!ClaimRejected, Gw!ClaimAccepted, Gw!Acknowledge, Gw!Work, Gw!BeginExec,
         Gw!Confirm, Gw!Fail, Gw!ReportExpired, Gw!PublishStatus, Gw!StatusRaises, Gw!Restart
  <2> QED
    BY <1>9, <2>1 DEF apiVars, Publishable
<1>10. CASE Clock
  BY <1>10 DEF Clock, Gw!Tick, apiVars, Publishable
<1>11. CASE UNCHANGED chVars
  BY <1>11 DEF chVars, apiVars, Publishable
<1> QED
  BY <1>3, <1>4, <1>6, <1>7, <1>8, <1>9, <1>10, <1>11 DEF ChNext, ApiStep

LEMMA ChannelStep ==
    ASSUME ChInv, Publishable, [ChNext]_chVars PROVE [Gw!Next]_Gw!vars
<1>1. ASSUME NEW c \in Commands, PublishCommand(c), UNCHANGED gwVars
      PROVE  Gw!Next
  <2>1. now \in 0..MaxTime /\ row[c].ttl \in ApiTtl /\ \A m \in cmdNet : m.cid # c
    BY <1>1 DEF PublishCommand, Publishable, ChInv, Accepted, Exists
  <2>2. Gw!Publish(c, now, row[c].ttl)
    BY <1>1, <2>1 DEF PublishCommand, gwVars, Gw!Publish
  <2> QED
    BY <2>1, <2>2 DEF Gw!Next
<1>2. CASE ApiStep /\ UNCHANGED gwVars
  <2>1. CASE \E c \in Commands : PublishCommand(c)
    BY <1>1, <1>2, <2>1
  <2>2. CASE ~\E c \in Commands : PublishCommand(c)
    <3>1. UNCHANGED <<now, cmdNet, ackNet>>
      BY <1>2, <2>2 DEF ApiStep, SendCommand, PublishFails, AckReadRow, AckCommit, AckFails,
           SweepRead, SweepCommit, SweepFails, ApiRestart
    <3> QED
      BY <1>2, <3>1 DEF gwVars, Gw!vars
  <2> QED
    BY <2>1, <2>2
<1>3. CASE Gw!GatewayStep
  BY <1>3 DEF Gw!Next
<1>4. CASE Clock
  BY <1>4 DEF Clock, Gw!Next
<1>5. CASE UNCHANGED chVars
  BY <1>5 DEF chVars, gwVars, Gw!vars
<1> QED
  BY <1>2, <1>3, <1>4, <1>5 DEF ChNext

(***************************************************************************)
(* The gateway of the channel is the gateway of CommandGateway: what the   *)
(* API publishes is what that specification lets a sender publish, each    *)
(* command once.  So all it promises on its own it promises in the channel.*)
(***************************************************************************)
THEOREM ChannelIsGateway == ChSpec => Gw!Spec
<1>1. ChInit => Gw!Init /\ Publishable
  BY ApiAssumption DEF ChInit, ApiInit, Gw!Init, Publishable
<1>2. ChInv /\ Publishable /\ [ChNext]_chVars
         => ChInv' /\ Publishable' /\ [Gw!Next]_Gw!vars
  BY NextKeeps, PublishableStep, ChannelStep
<1> QED
  BY InitInv, <1>1, <1>2, PTL DEF ChSpec, Gw!Spec

-----------------------------------------------------------------------------
(* What the gateway promises on its own, in the channel *)

\* The gateway of the channel again, now with what is proved of it.
Proved == INSTANCE CommandGatewayProofs WITH SentTs <- 0..MaxTime, SentTtl <- ApiTtl

(* The two instances are one specification: their definitions unfold to    *)
(* the same formulas.                                                      *)
LEMMA OneGateway ==
    /\ Gw!Init <=> Proved!Init
    /\ Gw!vars = Proved!vars
    /\ Gw!Next <=> Proved!Next
<1>1. Gw!Init <=> Proved!Init
  BY DEF Gw!Init, Proved!Init, Gw!Idle, Proved!Idle
<1>2. Gw!vars = Proved!vars
  BY DEF Gw!vars, Proved!vars
<1>3. Gw!Next <=> Proved!Next
  <2> USE DEF Gw!Idle, Proved!Idle, Gw!Message, Proved!Message, Gw!AckStatus, Proved!AckStatus,
        Gw!Reply, Proved!Reply,
        Gw!policyVars, Proved!policyVars, Gw!Cardinality, Proved!Cardinality,
        Gw!IsFiniteSet, Proved!IsFiniteSet, Gw!RecordExpiry, Proved!RecordExpiry,
        Gw!Live, Proved!Live, Gw!Evictable, Proved!Evictable, Gw!Pruned, Proved!Pruned,
        Gw!Prune, Proved!Prune, Gw!Acceptable, Proved!Acceptable,
        Gw!WithRecord, Proved!WithRecord, Gw!Update, Proved!Update,
        Gw!Release, Proved!Release
  <2>1. ASSUME NEW k PROVE Gw!ClaimMalformed(k) <=> Proved!ClaimMalformed(k)
    BY Zenon DEF Gw!ClaimMalformed, Proved!ClaimMalformed
  <2>2. ASSUME NEW k, NEW m PROVE Gw!Deliver(k, m) <=> Proved!Deliver(k, m)
    BY Zenon DEF Gw!Deliver, Proved!Deliver, Gw!ClaimDuplicate, Proved!ClaimDuplicate,
         Gw!ClaimRejected, Proved!ClaimRejected, Gw!ClaimAccepted, Proved!ClaimAccepted
  <2>3. ASSUME NEW k, NEW w PROVE Gw!Acknowledge(k, w) <=> Proved!Acknowledge(k, w)
    BY Zenon DEF Gw!Acknowledge, Proved!Acknowledge
  <2>4. ASSUME NEW w PROVE Gw!Work(w) <=> Proved!Work(w)
    BY Zenon DEF Gw!Work, Proved!Work, Gw!BeginExec, Proved!BeginExec, Gw!Confirm, Proved!Confirm,
         Gw!ReportExpired, Proved!ReportExpired, Gw!Fail, Proved!Fail,
         Gw!PublishStatus, Proved!PublishStatus, Gw!StatusRaises, Proved!StatusRaises
  <2>5. Gw!Tick <=> Proved!Tick
    BY Zenon DEF Gw!Tick, Proved!Tick
  <2>6. Gw!Restart <=> Proved!Restart
    BY Zenon DEF Gw!Restart, Proved!Restart
  <2>7. ASSUME NEW c, NEW ts, NEW ttl PROVE Gw!Publish(c, ts, ttl) <=> Proved!Publish(c, ts, ttl)
    BY Zenon DEF Gw!Publish, Proved!Publish
  <2>8. Gw!GatewayStep <=> Proved!GatewayStep
    BY <2>1, <2>2, <2>3, <2>4, <2>6, Zenon DEF Gw!GatewayStep, Proved!GatewayStep
  <2> QED
    BY <2>5, <2>7, <2>8, Zenon DEF Gw!Next, Proved!Next
<1> QED
  BY <1>1, <1>2, <1>3

LEMMA ChannelIsProvedGateway == ChSpec => Proved!Spec
<1>1. Gw!Init => Proved!Init
  BY OneGateway
<1>2. [Gw!Next]_(Gw!vars) => [Proved!Next]_(Proved!vars)
  BY OneGateway DEF Gw!vars, Proved!vars
<1> QED
  BY ChannelIsGateway, <1>1, <1>2, PTL DEF Gw!Spec, Proved!Spec

(* The API's ttls and clock are among those the gateway is proved for. *)
LEMMA ApiSuitsGateway == Proved!GatewayAssumption
  BY ApiAssumption, ChannelAssumption DEF Proved!GatewayAssumption

(***************************************************************************)
(* From the API to the executor: however the broker repeats and delays     *)
(* what the API published, and however the API restarts meanwhile, a       *)
(* command is handed to an executor at most once, unless its live record   *)
(* was evicted or lost in a restart of the gateway; and while it is not,   *)
(* the status a redelivery is answered with never goes back.               *)
(***************************************************************************)
THEOREM ChannelExecutesOnce == ChSpec => []Gw!AtMostOnce /\ Gw!StatusAdvances
<1>1. Proved!AtMostOnce => Gw!AtMostOnce
  BY DEF Proved!AtMostOnce, Gw!AtMostOnce
<1>2. Proved!Spec => []Proved!AtMostOnce
  BY ApiSuitsGateway, Proved!ExecutedAtMostOnce
<1>3. Proved!Spec => Proved!StatusAdvances
  BY ApiSuitsGateway, Proved!StatusOnlyAdvances
<1>4. Proved!StatusAdvances => Gw!StatusAdvances
  BY DEF Proved!StatusAdvances, Gw!StatusAdvances, Proved!Rank, Gw!Rank, Proved!vars, Gw!vars
<1> QED
  BY ChannelIsProvedGateway, <1>1, <1>2, <1>3, <1>4, PTL

(* In the channel too a command the gateway accepted is always in hand     *)
(* until it is answered or a restart loses it, and the lock of the serial  *)
(* line is held by the thread that executes over it.                       *)
THEOREM ChannelDropsNothing == ChSpec => []Proved!InHand /\ []Proved!LockFollows
<1>1. Proved!Spec => []Proved!InHand
  BY ApiSuitsGateway, Proved!NeverDropped
<1>2. Proved!Spec => []Proved!LockFollows
  BY ApiSuitsGateway, Proved!LockIsGivenBack
<1> QED
  BY ChannelIsProvedGateway, <1>1, <1>2, PTL
=============================================================================
