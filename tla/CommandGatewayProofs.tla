------------------------ MODULE CommandGatewayProofs ------------------------
(***************************************************************************)
(* Proofs about CommandGateway.  Every claim about a command that is not   *)
(* forgotten goes through IInv: one lemma per action shows that the action *)
(* keeps it, with one step per conjunct the action can disturb.            *)
(***************************************************************************)
EXTENDS CommandGateway, TLAPS

\* A malformed message only prunes the table.
LEMMA ClaimMalformedKeeps ==
  ASSUME IInv, NEW k \in Conns, ClaimMalformed(k)
  PROVE  IInv'
  <1>1. TypeOK'
    BY GatewayAssumption DEF ClaimMalformed, IInv, TypeOK, Message, Ack,
         AckStatus, Status, Record, Idle, Worker, Prune, Pruned, Live
  <1>2. KnownOnly'
    BY DEF ClaimMalformed, IInv, KnownOnly, TypeOK, Message, Worker, Idle,
         Prune, Pruned, Live
  <1>3. Guarded'
    BY GatewayAssumption DEF ClaimMalformed, IInv, Guarded, KnownOnly,
         OneMessage, TypeOK, Message, Record, Prune, Pruned, Live,
         RecordExpiry
  <1>4. SingleOwner'
    BY DEF ClaimMalformed, IInv, SingleOwner, KnownOnly, Holds, Busy, TypeOK,
         Message, Worker, Idle, Prune, Pruned, Live
  <1>5. Untried'
    BY DEF ClaimMalformed, IInv, Untried, SingleOwner, KnownOnly, Holds, Busy,
         TypeOK, Message, Worker, Idle, Prune, Pruned, Live
  <1>6. Tried'
    BY DEF ClaimMalformed, IInv, Tried, KnownOnly, DoneWasAttempted, TypeOK,
         Record, Ack, Message, Worker, Idle, Prune, Pruned, Live
  <1>7. OwnerStatus'
    BY DEF ClaimMalformed, IInv, OwnerStatus, SingleOwner, KnownOnly, Holds,
         Busy, TypeOK, Record, Message, Worker, Idle, Prune, Pruned, Live
  <1>8. OneMessage'
    BY DEF ClaimMalformed, IInv, OneMessage
  <1> QED BY <1>1, <1>2, <1>3, <1>4, <1>5, <1>6, <1>7, <1>8 DEF IInv

\* A redelivery is answered from the table.
LEMMA ClaimDuplicateKeeps ==
  ASSUME IInv, NEW k \in Conns, NEW m \in cmdNet, ClaimDuplicate(k, m)
  PROVE  IInv'
  <1>1. TypeOK'
    BY GatewayAssumption DEF ClaimDuplicate, IInv, TypeOK, Message, Ack,
         AckStatus, Status, Record, Idle, Worker, Prune, Pruned, Live, Reply
  <1>2. KnownOnly'
    BY DEF ClaimDuplicate, IInv, KnownOnly, TypeOK, Message, Worker, Idle,
         Prune, Pruned, Live, Reply, AckStatus
  <1>3. Guarded'
    BY GatewayAssumption DEF ClaimDuplicate, IInv, Guarded, KnownOnly,
         OneMessage, TypeOK, Message, Record, Prune, Pruned, Live, Reply,
         AckStatus, RecordExpiry
  <1>4. SingleOwner'
    BY DEF ClaimDuplicate, IInv, SingleOwner, KnownOnly, Holds, Busy, TypeOK,
         Message, Worker, Idle, Prune, Pruned, Live, Reply, AckStatus
  <1>5. Untried'
    BY DEF ClaimDuplicate, IInv, Untried, SingleOwner, KnownOnly, Holds, Busy,
         TypeOK, Message, Worker, Idle, Prune, Pruned, Live, Reply, AckStatus
  <1>6. Tried'
    BY DEF ClaimDuplicate, IInv, Tried, KnownOnly, DoneWasAttempted, TypeOK,
         Record, Ack, Message, Worker, Idle, Prune, Pruned, Live, Reply,
         AckStatus
  <1>7. OwnerStatus'
    BY DEF ClaimDuplicate, IInv, OwnerStatus, SingleOwner, KnownOnly, Holds,
         Busy, TypeOK, Record, Message, Worker, Idle, Prune, Pruned, Live,
         Reply, AckStatus
  <1>8. OneMessage'
    BY DEF ClaimDuplicate, IInv, OneMessage
  <1> QED BY <1>1, <1>2, <1>3, <1>4, <1>5, <1>6, <1>7, <1>8 DEF IInv

\* A rejected command leaves no record.
LEMMA ClaimRejectedKeeps ==
  ASSUME IInv, NEW k \in Conns, NEW m \in cmdNet, ClaimRejected(k, m)
  PROVE  IInv'
  <1>1. TypeOK'
    BY GatewayAssumption DEF ClaimRejected, IInv, TypeOK, Message, Ack,
         AckStatus, Status, Record, Idle, Worker, Prune, Pruned, Live, Reply
  <1>2. KnownOnly'
    BY DEF ClaimRejected, IInv, KnownOnly, TypeOK, Message, Worker, Idle,
         Prune, Pruned, Live, Reply
  <1>3. Guarded'
    BY GatewayAssumption DEF ClaimRejected, IInv, Guarded, KnownOnly,
         OneMessage, TypeOK, Message, Record, Prune, Pruned, Live, Reply,
         RecordExpiry
  <1>4. SingleOwner'
    BY DEF ClaimRejected, IInv, SingleOwner, KnownOnly, Holds, Busy, TypeOK,
         Message, Worker, Idle, Prune, Pruned, Live, Reply
  <1>5. Untried'
    BY DEF ClaimRejected, IInv, Untried, SingleOwner, KnownOnly, Holds, Busy,
         TypeOK, Message, Worker, Idle, Prune, Pruned, Live, Reply
  <1>6. Tried'
    BY DEF ClaimRejected, IInv, Tried, KnownOnly, DoneWasAttempted, TypeOK,
         Record, Ack, Message, Worker, Idle, Prune, Pruned, Live, Reply
  <1>7. OwnerStatus'
    BY DEF ClaimRejected, IInv, OwnerStatus, SingleOwner, KnownOnly, Holds,
         Busy, TypeOK, Record, Message, Worker, Idle, Prune, Pruned, Live,
         Reply
  <1>8. OneMessage'
    BY DEF ClaimRejected, IInv, OneMessage
  <1> QED BY <1>1, <1>2, <1>3, <1>4, <1>5, <1>6, <1>7, <1>8 DEF IInv

\* A command is accepted only if it was never claimed, or is forgotten: by Guarded, a claimed one is on record or past its ttl.
LEMMA ClaimAcceptedKeeps ==
  ASSUME IInv, NEW k \in Conns, NEW m \in cmdNet, ClaimAccepted(k, m)
  PROVE  IInv'
  <1>1. m.cid \in claimed => m.cid \in forgotten'
    BY GatewayAssumption
       DEF ClaimAccepted, IInv, Guarded, TypeOK, Message, Record, Prune, Pruned,
           Live, Acceptable, RecordExpiry
  <1>2. TypeOK'
    BY GatewayAssumption DEF ClaimAccepted, IInv, TypeOK, Message, Ack,
         AckStatus, Status, Record, Idle, Worker, Prune, Pruned, Live,
         WithRecord
  <1>3. KnownOnly'
    BY DEF ClaimAccepted, IInv, KnownOnly, TypeOK, Message, Worker, Idle,
         Prune, Pruned, Live, WithRecord
  <1>4. Guarded'
    BY GatewayAssumption DEF ClaimAccepted, IInv, Guarded, KnownOnly,
         OneMessage, TypeOK, Message, Record, Prune, Pruned, Live, WithRecord,
         Acceptable, RecordExpiry
  <1>5. SingleOwner'
    BY <1>1 DEF ClaimAccepted, IInv, SingleOwner, KnownOnly, Holds, Busy,
         TypeOK, Message, Worker, Idle, Prune, Pruned, Live, WithRecord
  <1>6. Untried'
    BY <1>1 DEF ClaimAccepted, IInv, Untried, SingleOwner, KnownOnly, Holds,
         Busy, TypeOK, Message, Worker, Idle, Prune, Pruned, Live, WithRecord
  <1>7. Tried'
    BY DEF ClaimAccepted, IInv, Tried, KnownOnly, DoneWasAttempted, TypeOK,
         Record, Ack, Message, Worker, Idle, Prune, Pruned, Live, WithRecord
  <1>8. OwnerStatus'
    BY <1>1 DEF ClaimAccepted, IInv, OwnerStatus, SingleOwner, KnownOnly,
         Holds, Busy, TypeOK, Record, Message, Worker, Idle, Prune, Pruned,
         Live, WithRecord
  <1>9. OneMessage'
    BY DEF ClaimAccepted, IInv, OneMessage
  <1> QED BY <1>2, <1>3, <1>4, <1>5, <1>6, <1>7, <1>8, <1>9 DEF IInv

\* The claim moves from the callback to a worker thread.
LEMMA AcknowledgeKeeps ==
  ASSUME IInv, NEW k \in Conns, NEW w \in Workers, Acknowledge(k, w)
  PROVE  IInv'
  <1>1. TypeOK'
    BY GatewayAssumption DEF Acknowledge, IInv, TypeOK, Message, Ack,
         AckStatus, Status, Record, Idle, Worker, Reply, Update, WithRecord
  <1>2. KnownOnly'
    BY DEF Acknowledge, IInv, KnownOnly, TypeOK, Message, Worker, Idle, Reply,
         Update, WithRecord
  <1>3. Guarded'
    BY GatewayAssumption DEF Acknowledge, IInv, Guarded, KnownOnly,
         OneMessage, TypeOK, Message, Record, Reply, Update, WithRecord
  <1>4. SingleOwner'
    BY DEF Acknowledge, IInv, SingleOwner, KnownOnly, Holds, Busy, TypeOK,
         Message, Worker, Idle, Reply, Update, WithRecord
  <1>5. Untried'
    BY DEF Acknowledge, IInv, Untried, SingleOwner, KnownOnly, Holds, Busy,
         TypeOK, Message, Worker, Idle, Reply, Update, WithRecord
  <1>6. Tried'
    BY DEF Acknowledge, IInv, Tried, KnownOnly, DoneWasAttempted, TypeOK,
         Record, Ack, Message, Worker, Idle, Reply, Update, WithRecord
  <1>7. OwnerStatus'
    BY DEF Acknowledge, IInv, OwnerStatus, SingleOwner, KnownOnly, Holds,
         Busy, TypeOK, Record, Message, Worker, Idle, Reply, Update,
         WithRecord
  <1>8. OneMessage'
    BY DEF Acknowledge, IInv, OneMessage
  <1> QED BY <1>1, <1>2, <1>3, <1>4, <1>5, <1>6, <1>7, <1>8 DEF IInv

\* The only step that raises attempts.
LEMMA BeginExecKeeps ==
  ASSUME IInv, NEW w \in Workers, BeginExec(w)
  PROVE  IInv'
  <1>1. TypeOK'
    BY GatewayAssumption DEF BeginExec, IInv, TypeOK, Message, Ack, AckStatus,
         Status, Record, Idle, Worker
  <1>2. KnownOnly'
    BY DEF BeginExec, IInv, KnownOnly, TypeOK, Message, Worker, Idle
  <1>3. SingleOwner'
    BY DEF BeginExec, IInv, SingleOwner, KnownOnly, Holds, Busy, TypeOK,
         Message, Worker, Idle
  <1>4. Untried'
    BY DEF BeginExec, IInv, Untried, SingleOwner, KnownOnly, Holds, Busy,
         TypeOK, Message, Worker, Idle
  <1>5. Tried'
    BY DEF BeginExec, IInv, Tried, KnownOnly, DoneWasAttempted, TypeOK,
         Record, Ack, Message, Worker, Idle
  <1>6. OwnerStatus'
    BY DEF BeginExec, IInv, OwnerStatus, SingleOwner, KnownOnly, Holds, Busy,
         TypeOK, Record, Message, Worker, Idle
  <1>7. OneMessage' /\ Guarded'
    BY DEF BeginExec, IInv, OneMessage, Guarded, KnownOnly, TypeOK, Message,
         Record
  <1> QED BY <1>1, <1>2, <1>3, <1>4, <1>5, <1>6, <1>7 DEF IInv

\* A worker reports done.
LEMMA ConfirmKeeps ==
  ASSUME IInv, NEW w \in Workers, Confirm(w)
  PROVE  IInv'
  <1>1. TypeOK'
    BY GatewayAssumption DEF Confirm, IInv, TypeOK, Message, Ack, AckStatus,
         Status, Record, Idle, Worker, Reply, Release, Update, WithRecord
  <1>2. KnownOnly'
    BY DEF Confirm, IInv, KnownOnly, TypeOK, Message, Worker, Idle, Reply,
         Release, Update, WithRecord
  <1>3. Guarded'
    BY GatewayAssumption DEF Confirm, IInv, Guarded, KnownOnly, OneMessage,
         TypeOK, Message, Record, Reply, Release, Update, WithRecord
  <1>4. SingleOwner'
    BY DEF Confirm, IInv, SingleOwner, KnownOnly, Holds, Busy, TypeOK,
         Message, Worker, Idle, Reply, Release, Update, WithRecord
  <1>5. Untried'
    BY DEF Confirm, IInv, Untried, SingleOwner, KnownOnly, Holds, Busy,
         TypeOK, Message, Worker, Idle, Reply, Release, Update, WithRecord
  <1>6. Tried'
    BY DEF Confirm, IInv, Tried, KnownOnly, DoneWasAttempted, TypeOK, Record,
         Ack, Message, Worker, Idle, Reply, Release, Update, WithRecord
  <1>7. OwnerStatus'
    BY DEF Confirm, IInv, OwnerStatus, SingleOwner, KnownOnly, Holds, Busy,
         TypeOK, Record, Message, Worker, Idle, Reply, Release, Update,
         WithRecord
  <1>8. OneMessage'
    BY DEF Confirm, IInv, OneMessage
  <1> QED BY <1>1, <1>2, <1>3, <1>4, <1>5, <1>6, <1>7, <1>8 DEF IInv

\* A worker reports expired.
LEMMA FailKeeps ==
  ASSUME IInv, NEW w \in Workers, Fail(w)
  PROVE  IInv'
  <1>1. TypeOK'
    BY GatewayAssumption DEF Fail, IInv, TypeOK, Message, Ack, AckStatus,
         Status, Record, Idle, Worker, ReportExpired, Reply, Release, Update,
         WithRecord
  <1>2. OneMessage'
    BY DEF Fail, IInv, OneMessage, ReportExpired, Reply, Release, Update,
         WithRecord
  <1>3. KnownOnly'
    BY DEF Fail, IInv, KnownOnly, TypeOK, Message, Worker, Idle,
         ReportExpired, Reply, Release, Update, WithRecord
  <1>4. Guarded'
    BY GatewayAssumption DEF Fail, IInv, Guarded, KnownOnly, OneMessage,
         TypeOK, Message, Record, ReportExpired, Reply, Release, Update,
         WithRecord
  <1>5. SingleOwner'
    BY DEF Fail, IInv, SingleOwner, KnownOnly, Holds, Busy, TypeOK, Message,
         Worker, Idle, ReportExpired, Reply, Release, Update, WithRecord
  <1>6. Untried'
    BY DEF Fail, IInv, Untried, SingleOwner, KnownOnly, Holds, Busy, TypeOK,
         Message, Worker, Idle, ReportExpired, Reply, Release, Update,
         WithRecord
  <1>7. Tried'
    BY DEF Fail, IInv, Tried, KnownOnly, DoneWasAttempted, TypeOK, Record,
         Ack, Message, Worker, Idle, ReportExpired, Reply, Release, Update,
         WithRecord
  <1>8. OwnerStatus'
    BY DEF Fail, IInv, OwnerStatus, SingleOwner, KnownOnly, Holds, Busy,
         TypeOK, Record, Message, Worker, Idle, ReportExpired, Reply, Release,
         Update, WithRecord
  <1> QED BY <1>1, <1>2, <1>3, <1>4, <1>5, <1>6, <1>7, <1>8 DEF IInv

\* A worker ends.
LEMMA PublishStatusKeeps ==
  ASSUME IInv, NEW w \in Workers, PublishStatus(w)
  PROVE  IInv'
  <1>1. TypeOK'
    BY GatewayAssumption DEF PublishStatus, IInv, TypeOK, Message, Ack,
         AckStatus, Status, Record, Idle, Worker
  <1>2. KnownOnly'
    BY DEF PublishStatus, IInv, KnownOnly, TypeOK, Message, Worker, Idle
  <1>3. SingleOwner'
    BY DEF PublishStatus, IInv, SingleOwner, KnownOnly, Holds, Busy, TypeOK,
         Message, Worker, Idle
  <1>4. Untried'
    BY DEF PublishStatus, IInv, Untried, SingleOwner, KnownOnly, Holds, Busy,
         TypeOK, Message, Worker, Idle
  <1>5. Tried'
    BY DEF PublishStatus, IInv, Tried, KnownOnly, DoneWasAttempted, TypeOK,
         Record, Ack, Message, Worker, Idle
  <1>6. OwnerStatus'
    BY DEF PublishStatus, IInv, OwnerStatus, SingleOwner, KnownOnly, Holds,
         Busy, TypeOK, Record, Message, Worker, Idle
  <1>7. OneMessage' /\ Guarded'
    BY DEF PublishStatus, IInv, OneMessage, Guarded, KnownOnly, TypeOK,
         Message, Record
  <1> QED BY <1>1, <1>2, <1>3, <1>4, <1>5, <1>6, <1>7 DEF IInv

\* A worker that reported done fails afterwards.
LEMMA StatusRaisesKeeps ==
  ASSUME IInv, NEW w \in Workers, StatusRaises(w)
  PROVE  IInv'
  <1>1. TypeOK'
    BY GatewayAssumption DEF StatusRaises, IInv, TypeOK, Message, Ack,
         AckStatus, Status, Record, Idle, Worker, ReportExpired, Reply,
         Update, WithRecord
  <1>2. OneMessage'
    BY DEF StatusRaises, IInv, OneMessage, ReportExpired, Reply, Update,
         WithRecord
  <1>3. KnownOnly'
    BY DEF StatusRaises, IInv, KnownOnly, TypeOK, Message, Worker, Idle,
         ReportExpired, Reply, Update, WithRecord
  <1>4. Guarded'
    BY GatewayAssumption DEF StatusRaises, IInv, Guarded, KnownOnly,
         OneMessage, TypeOK, Message, Record, ReportExpired, Reply, Update,
         WithRecord
  <1>5. SingleOwner'
    BY DEF StatusRaises, IInv, SingleOwner, KnownOnly, Holds, Busy, TypeOK,
         Message, Worker, Idle, ReportExpired, Reply, Update, WithRecord
  <1>6. Untried'
    BY DEF StatusRaises, IInv, Untried, SingleOwner, KnownOnly, Holds, Busy,
         TypeOK, Message, Worker, Idle, ReportExpired, Reply, Update,
         WithRecord
  <1>7. Tried'
    BY DEF StatusRaises, IInv, Tried, KnownOnly, DoneWasAttempted, TypeOK,
         Record, Ack, Message, Worker, Idle, ReportExpired, Reply, Update,
         WithRecord
  <1>8. OwnerStatus'
    BY DEF StatusRaises, IInv, OwnerStatus, SingleOwner, KnownOnly, Holds,
         Busy, TypeOK, Record, Message, Worker, Idle, ReportExpired, Reply,
         Update, WithRecord
  <1> QED BY <1>1, <1>2, <1>3, <1>4, <1>5, <1>6, <1>7, <1>8 DEF IInv

\* A restart forgets every claimed command.
LEMMA RestartKeeps ==
  ASSUME IInv, Restart
  PROVE  IInv'
  <1>1. TypeOK'
    BY GatewayAssumption DEF Restart, IInv, TypeOK, Message, Ack, AckStatus,
         Status, Record, Idle, Worker
  <1>2. KnownOnly'
    BY DEF Restart, IInv, KnownOnly, TypeOK, Message, Worker, Idle
  <1>3. Guarded'
    BY GatewayAssumption DEF Restart, IInv, Guarded, KnownOnly, OneMessage,
         TypeOK, Message, Record
  <1>4. SingleOwner'
    BY DEF Restart, IInv, SingleOwner, KnownOnly, Holds, Busy, TypeOK,
         Message, Worker, Idle
  <1>5. Untried'
    BY DEF Restart, IInv, Untried, SingleOwner, KnownOnly, Holds, Busy,
         TypeOK, Message, Worker, Idle
  <1>6. Tried'
    BY DEF Restart, IInv, Tried, KnownOnly, DoneWasAttempted, TypeOK, Record,
         Ack, Message, Worker, Idle
  <1>7. OwnerStatus'
    BY DEF Restart, IInv, OwnerStatus, SingleOwner, KnownOnly, Holds, Busy,
         TypeOK, Record, Message, Worker, Idle
  <1>8. OneMessage'
    BY DEF Restart, IInv, OneMessage
  <1> QED BY <1>1, <1>2, <1>3, <1>4, <1>5, <1>6, <1>7, <1>8 DEF IInv

\* A command id is published once, so Guarded keeps speaking of one message.
LEMMA PublishKeeps ==
  ASSUME IInv, NEW c \in Commands, NEW ts \in SentTs, NEW ttl \in SentTtl, Publish(c, ts, ttl)
  PROVE  IInv'
  <1>1. TypeOK'
    BY GatewayAssumption DEF Publish, IInv, TypeOK, Message, Ack, AckStatus,
         Status, Record, Idle, Worker
  <1>2. OneMessage'
    BY DEF Publish, IInv, OneMessage
  <1>3. KnownOnly'
    BY DEF Publish, IInv, KnownOnly, TypeOK, Message, Worker, Idle
  <1>4. Guarded'
    BY GatewayAssumption DEF Publish, IInv, Guarded, KnownOnly, OneMessage,
         TypeOK, Message, Record
  <1>5. SingleOwner' /\ Untried' /\ Tried' /\ OwnerStatus'
    BY DEF Publish, IInv, SingleOwner, KnownOnly, Holds, Busy, TypeOK,
         Message, Worker, Idle, Untried, Tried, DoneWasAttempted, Record, Ack,
         OwnerStatus
  <1> QED BY <1>1, <1>2, <1>3, <1>4, <1>5 DEF IInv

\* Time only helps Guarded: a message past its ttl stays past it.
LEMMA TickKeeps ==
  ASSUME IInv, Tick
  PROVE  IInv'
  <1>1. TypeOK'
    BY GatewayAssumption DEF Tick, IInv, TypeOK, Message, Ack, AckStatus,
         Status, Record, Idle, Worker
  <1>2. Guarded'
    BY GatewayAssumption DEF Tick, IInv, Guarded, KnownOnly, OneMessage,
         TypeOK, Message, Record
  <1>3. OneMessage' /\ KnownOnly' /\ SingleOwner' /\ Untried' /\ Tried' /\ OwnerStatus'
    BY DEF Tick, IInv, OneMessage, KnownOnly, TypeOK, Message, Worker, Idle,
         SingleOwner, Holds, Busy, Untried, Tried, DoneWasAttempted, Record,
         Ack, OwnerStatus
  <1> QED BY <1>1, <1>2, <1>3 DEF IInv

-----------------------------------------------------------------------------
LEMMA InitInv == Init => IInv
  BY GatewayAssumption
     DEF Init, IInv, TypeOK, OneMessage, KnownOnly, Guarded, SingleOwner, Untried,
         Tried, OwnerStatus, DoneWasAttempted, Holds, Busy, Idle, Worker, Record

LEMMA NextKeeps == ASSUME IInv, Next PROVE IInv'
  <1>1. CASE GatewayStep
    BY <1>1, ClaimMalformedKeeps, ClaimDuplicateKeeps, ClaimRejectedKeeps,
       ClaimAcceptedKeeps, AcknowledgeKeeps, BeginExecKeeps, ConfirmKeeps,
       FailKeeps, PublishStatusKeeps, StatusRaisesKeeps, RestartKeeps
       DEF GatewayStep, Deliver, Work
  <1>2. CASE \E c \in Commands, ts \in SentTs, ttl \in SentTtl : Publish(c, ts, ttl)
    BY <1>2, PublishKeeps
  <1>3. CASE Tick
    BY <1>3, TickKeeps
  <1> QED BY <1>1, <1>2, <1>3 DEF Next

LEMMA StutterKeeps == ASSUME IInv, UNCHANGED vars PROVE IInv'
  BY DEF vars, IInv, TypeOK, OneMessage, KnownOnly, Guarded, SingleOwner, Untried,
         Tried, OwnerStatus, DoneWasAttempted, Holds, Busy

LEMMA Invariance == Spec => []IInv
  <1>1. IInv /\ [Next]_vars => IInv'
    BY NextKeeps, StutterKeeps
  <1> QED BY InitInv, <1>1, PTL DEF Spec

(***************************************************************************)
(* Every reachable state of the gateway is well typed.                     *)
(***************************************************************************)
THEOREM TypeCorrect == Spec => []TypeOK
  <1>1. IInv => TypeOK
    BY DEF IInv
  <1> QED BY Invariance, <1>1, PTL

(***************************************************************************)
(* However often the broker redelivers a command, on any number of         *)
(* connections and at any time, the gateway hands it to an executor at     *)
(* most once - unless its live record was evicted or lost in a restart.    *)
(* FutureSkew <= MaxTtl is what makes max(2 * max_ttl, 60) long enough.    *)
(***************************************************************************)
THEOREM ExecutedAtMostOnce == Spec => []AtMostOnce
  <1>1. IInv => AtMostOnce
    BY DEF IInv, Untried, AtMostOnce
  <1> QED BY Invariance, <1>1, PTL

(***************************************************************************)
(* The gateway never acknowledges "done" for a command that it did not     *)
(* hand to an executor.                                                    *)
(***************************************************************************)
THEOREM DoneIsBacked == Spec => []DoneWasAttempted
  <1>1. IInv => DoneWasAttempted
    BY DEF IInv, Tried
  <1> QED BY Invariance, <1>1, PTL

(***************************************************************************)
(* For a command that is not forgotten, the status a redelivery is         *)
(* answered with only moves along queued, acked, done, expired: the thread *)
(* that owns the command is the only one to write its record.              *)
(***************************************************************************)
THEOREM StatusOnlyAdvances == Spec => StatusAdvances
  <1> DEFINE Advances == \A c \in DOMAIN records \cap DOMAIN records' :
        c \in forgotten' \/ Rank(records[c].status) <= Rank(records'[c].status)
  <1>1. ASSUME IInv, Next PROVE Advances
    <2> USE <1>1 DEF IInv, TypeOK, Rank, Record, Status, AckStatus
    <2>1. CASE \E k \in Conns : ClaimMalformed(k)
      BY <2>1 DEF ClaimMalformed, Prune, Pruned
    <2>2. CASE \E k \in Conns, m \in cmdNet : Deliver(k, m)
      <3>1. ASSUME NEW k \in Conns, NEW m \in cmdNet, ClaimDuplicate(k, m)
            PROVE  Advances
        BY <3>1 DEF ClaimDuplicate, Prune, Pruned
      <3>2. ASSUME NEW k \in Conns, NEW m \in cmdNet, ClaimRejected(k, m)
            PROVE  Advances
        BY <3>2 DEF ClaimRejected, Prune, Pruned
      <3>3. ASSUME NEW k \in Conns, NEW m \in cmdNet, ClaimAccepted(k, m)
            PROVE  Advances
        <4>1. m.cid \in DOMAIN records => m.cid \in forgotten'
          BY <3>3, GatewayAssumption
             DEF ClaimAccepted, Guarded, KnownOnly, Message, Prune, Pruned, Live,
                 Acceptable, RecordExpiry
        <4> QED BY <3>3, <4>1 DEF ClaimAccepted, Prune, Pruned, WithRecord
      <3> QED BY <2>2, <3>1, <3>2, <3>3 DEF Deliver
    <2>3. CASE \E k \in Conns, w \in Workers : Acknowledge(k, w)
      BY <2>3 DEF Acknowledge, OwnerStatus, Holds, Update, WithRecord, Message
    <2>4. CASE \E w \in Workers : Work(w)
      <3>1. ASSUME NEW w \in Workers, BeginExec(w) \/ PublishStatus(w)
            PROVE  Advances
        BY <3>1 DEF BeginExec, PublishStatus
      <3>2. ASSUME NEW w \in Workers, Confirm(w) PROVE Advances
        BY <3>2 DEF Confirm, OwnerStatus, Busy, Update, WithRecord, Worker, Idle,
                    Message
      <3>3. ASSUME NEW w \in Workers, Fail(w) \/ StatusRaises(w) PROVE Advances
        BY <3>3 DEF Fail, StatusRaises, ReportExpired, Update, WithRecord
      <3> QED BY <2>4, <3>1, <3>2, <3>3 DEF Work
    <2>5. CASE Restart
      BY <2>5 DEF Restart
    <2>6. CASE \/ Tick
               \/ \E c \in Commands, ts \in SentTs, ttl \in SentTtl : Publish(c, ts, ttl)
      BY <2>6 DEF Tick, Publish
    <2> QED BY <2>1, <2>2, <2>3, <2>4, <2>5, <2>6 DEF Next, GatewayStep
  <1>2. IInv /\ [Next]_vars => [Advances]_vars
    BY <1>1
  <1> QED BY Invariance, <1>2, PTL DEF Spec, StatusAdvances

-----------------------------------------------------------------------------
(* Where a claimed command is: answered, with the callback that claimed it *)
(* or with the thread started for it.                                      *)
Carried(c) == \/ Answered(c)
              \/ \E k \in Conns : Holds(k, c)
              \/ \E w \in Workers : Busy(w, c)

InHand == \A c \in claimed \ forgotten : Carried(c)

(* A thread that is past its report has answered. *)
Reported == \A w \in Workers : workers[w].pc = "reported" => Answered(workers[w].msg.cid)

(* SerialExecutor.lock is taken by the thread that executes over the line. *)
OnSerial(w) == workers[w].pc = "running" /\ workers[w].msg.cid \in SerialCmds

LockFollows == \A w \in Workers : serial = w <=> OnSerial(w)

(* An answer is never taken back. *)
LEMMA AnswersStay ==
  ASSUME ackNet \subseteq ackNet', NEW c, Answered(c)
  PROVE  Answered(c)'
  BY DEF Answered

\* An outcome that is published answers its command.
LEMMA OutcomeAnswers ==
  ASSUME NEW c, NEW s \in {"done", "expired"},
         [cid |-> c, status |-> s] \in ackNet'
  PROVE  Answered(c)'
  <1>1. /\ [cid |-> c, status |-> s].cid = c
        /\ [cid |-> c, status |-> s].status = s
    OBVIOUS
  <1> QED BY <1>1 DEF Answered

\* The steps before a thread is started.
LEMMA CallbackInHand ==
  ASSUME TypeOK, InHand, Reported, NEW k \in Conns,
         \/ ClaimMalformed(k)
         \/ \E m \in cmdNet : Deliver(k, m)
         \/ \E w \in Workers : Acknowledge(k, w)
  PROVE  InHand' /\ Reported'
  <1>1. ackNet \subseteq ackNet' /\ forgotten \subseteq forgotten'
    BY DEF ClaimMalformed, Deliver, ClaimDuplicate, ClaimRejected, ClaimAccepted,
           Acknowledge, Reply, Prune
  <1>2. CASE ClaimMalformed(k) \/ \E m \in cmdNet : ClaimDuplicate(k, m) \/ ClaimRejected(k, m)
    <2>1. UNCHANGED <<callback, workers, claimed>>
      BY <1>2 DEF ClaimMalformed, ClaimDuplicate, ClaimRejected
    <2> QED BY <1>1, <2>1 DEF InHand, Carried, Reported, Holds, Busy, Answered
  <1>3. CASE \E m \in cmdNet : ClaimAccepted(k, m)
    <2>1. PICK m \in cmdNet : ClaimAccepted(k, m)
      BY <1>3
    <2>2. /\ callback[k] = NoMsg /\ callback' = [callback EXCEPT ![k] = m]
          /\ claimed' = claimed \cup {m.cid} /\ workers' = workers
          /\ m # NoMsg
      BY <2>1, GatewayAssumption DEF ClaimAccepted, TypeOK, Message
    <2>3. Holds(k, m.cid)'
      BY <2>2 DEF Holds, TypeOK
    <2>4. ASSUME NEW j \in Conns, NEW c, Holds(j, c) PROVE Holds(j, c)'
      BY <2>2, <2>4 DEF Holds, TypeOK
    <2>5. Reported'
      BY <1>1, <2>2 DEF Reported, Answered
    <2>6. \A c : Answered(c) => Answered(c)'
      BY <1>1, AnswersStay
    <2>7. \A c : \A w \in Workers : Busy(w, c) => Busy(w, c)'
      BY <2>2 DEF Busy
    <2> QED BY <1>1, <2>2, <2>3, <2>4, <2>5, <2>6, <2>7 DEF InHand, Carried
  <1>4. CASE \E w \in Workers : Acknowledge(k, w)
    <2>1. PICK w \in Workers : Acknowledge(k, w)
      BY <1>4
    <2>2. /\ callback[k] # NoMsg /\ callback' = [callback EXCEPT ![k] = NoMsg]
          /\ workers[w] = Idle
          /\ workers' = [workers EXCEPT ![w] = [pc |-> "ready", msg |-> callback[k]]]
          /\ claimed' = claimed
      BY <2>1 DEF Acknowledge
    <2>3. workers'[w] = [pc |-> "ready", msg |-> callback[k]]
          /\ \A v \in Workers : v # w => workers'[v] = workers[v]
      BY <2>2 DEF TypeOK
    <2>4. ASSUME NEW c, Holds(k, c) PROVE Busy(w, c)'
      BY <2>3, <2>4 DEF Holds, Busy
    <2>5. ASSUME NEW j \in Conns, NEW c, Holds(j, c), j # k PROVE Holds(j, c)'
      BY <2>2, <2>5 DEF Holds, TypeOK
    <2>6. ASSUME NEW v \in Workers, NEW c, Busy(v, c) PROVE Busy(v, c)'
      <3>1. v # w
        BY <2>2, <2>6 DEF Busy, Idle
      <3> QED BY <2>3, <2>6, <3>1 DEF Busy
    <2>7. Reported'
      BY <1>1, <2>3 DEF Reported, Answered
    <2>8. \A c : Answered(c) => Answered(c)'
      BY <1>1, AnswersStay
    <2> QED BY <1>1, <2>2, <2>4, <2>5, <2>6, <2>7, <2>8 DEF InHand, Carried
  <1> QED BY <1>2, <1>3, <1>4 DEF Deliver

\* The steps of a thread.
LEMMA WorkInHand ==
  ASSUME TypeOK, InHand, Reported, NEW w \in Workers, Work(w)
  PROVE  InHand' /\ Reported'
  <1>1. /\ ackNet \subseteq ackNet'
        /\ UNCHANGED <<callback, claimed, forgotten>>
    BY DEF Work, BeginExec, Confirm, Fail, ReportExpired, PublishStatus, StatusRaises, Reply
  <1>2. /\ workers \in [Workers -> Worker]
        /\ \A v \in Workers : v # w => workers'[v] = workers[v]
    BY DEF Work, BeginExec, Confirm, Fail, ReportExpired, PublishStatus, StatusRaises, TypeOK
  <1>3. \A c : Answered(c) => Answered(c)'
    BY <1>1, AnswersStay
  <1>4. \A c : \A v \in Workers : Busy(v, c) /\ v # w => Busy(v, c)'
    BY <1>2 DEF Busy
  <1>5. \A c : \A j \in Conns : Holds(j, c) => Holds(j, c)'
    BY <1>1 DEF Holds
  <1>6. CASE BeginExec(w)
    <2>1. workers' = [workers EXCEPT ![w].pc = "running"]
      BY <1>6 DEF BeginExec
    <2>2. \A c : Busy(w, c) => Busy(w, c)'
      BY <1>2, <2>1 DEF Busy, Worker, Idle
    <2>3. Reported'
      BY <1>2, <1>3, <2>1 DEF Reported, Worker, Idle
    <2> QED BY <1>1, <1>3, <1>4, <1>5, <2>2, <2>3 DEF InHand, Carried
  <1>7. CASE Confirm(w)
    <2>1. workers' = [workers EXCEPT ![w].pc = "reported"]
          /\ ackNet' = ackNet \cup {[cid |-> workers[w].msg.cid, status |-> "done"]}
      BY <1>7 DEF Confirm, Reply
    <2>2. \A c : Busy(w, c) => Busy(w, c)'
      BY <1>2, <2>1 DEF Busy, Worker, Idle
    <2>3. \A c : c = workers[w].msg.cid => Answered(c)'
      BY <2>1, OutcomeAnswers
    <2>4. workers[w].pc = "running" /\ workers'[w].msg = workers[w].msg
      BY <1>2, <1>7, <2>1 DEF Confirm, Worker, Idle
    <2>5. Reported'
      BY <1>2, <1>3, <2>3, <2>4 DEF Reported, Answered
    <2> QED BY <1>1, <1>3, <1>4, <1>5, <2>2, <2>5 DEF InHand, Carried
  <1>8. CASE Fail(w) \/ StatusRaises(w) \/ PublishStatus(w)
    <2>1. workers' = [workers EXCEPT ![w] = Idle] /\ workers[w].pc # "idle"
      BY <1>8 DEF Fail, StatusRaises, PublishStatus, ReportExpired
    <2>2. \A c : c = workers[w].msg.cid => Answered(c)'
      <3>1. CASE PublishStatus(w)
        BY <1>3, <3>1 DEF PublishStatus, Reported
      <3>2. CASE Fail(w) \/ StatusRaises(w)
        <4>1. ackNet' = ackNet \cup {[cid |-> workers[w].msg.cid, status |-> "expired"]}
          BY <3>2 DEF Fail, StatusRaises, ReportExpired, Reply
        <4> QED BY <4>1, OutcomeAnswers
      <3> QED BY <1>8, <3>1, <3>2
    <2>3. \A c : Busy(w, c) => Answered(c)'
      BY <2>2 DEF Busy
    <2>4. Reported'
      BY <1>2, <1>3, <2>1 DEF Reported, Idle
    <2> QED BY <1>1, <1>3, <1>4, <1>5, <2>3, <2>4 DEF InHand, Carried
  <1> QED BY <1>6, <1>7, <1>8 DEF Work

(***************************************************************************)
(* A command the gateway accepted is never dropped between the callback,   *)
(* the thread and the answer, whichever of them fails: until it is         *)
(* answered, or lost in a restart, somebody has it in hand.                *)
(***************************************************************************)
THEOREM NeverDropped == Spec => []InHand
  <1>1. Init => InHand /\ Reported
    BY DEF Init, InHand, Reported, Idle
  <1>2. ASSUME TypeOK, InHand, Reported, [Next]_vars
        PROVE  InHand' /\ Reported'
    <2>1. CASE \E k \in Conns : \/ ClaimMalformed(k)
                                \/ \E m \in cmdNet : Deliver(k, m)
                                \/ \E w \in Workers : Acknowledge(k, w)
      BY <1>2, <2>1, CallbackInHand
    <2>2. CASE \E w \in Workers : Work(w)
      BY <1>2, <2>2, WorkInHand
    <2>3. CASE Restart
      BY <1>2, <2>3 DEF Restart, InHand, Reported, Idle
    <2>4. CASE \/ UNCHANGED vars
               \/ Tick
               \/ \E c \in Commands, ts \in SentTs, ttl \in SentTtl : Publish(c, ts, ttl)
      <3>1. UNCHANGED <<callback, workers, claimed, forgotten, ackNet>>
        BY <2>4 DEF vars, Tick, Publish
      <3> QED BY <1>2, <3>1 DEF InHand, Carried, Reported, Answered, Holds, Busy
    <2> QED BY <1>2, <2>1, <2>2, <2>3, <2>4 DEF Next, GatewayStep
  <1> QED BY <1>1, <1>2, TypeCorrect, PTL DEF Spec

(***************************************************************************)
(* The serial line is used by one thread at a time, and its lock is held   *)
(* exactly while that thread executes: no failure, time-out or exception   *)
(* leaves it behind, which would stop every later serial command.          *)
(***************************************************************************)
THEOREM LockIsGivenBack == Spec => []LockFollows
  <1>1. Init => LockFollows
    BY GatewayAssumption DEF Init, LockFollows, OnSerial, Idle
  <1>2. ASSUME TypeOK, LockFollows, [Next]_vars
        PROVE  LockFollows'
    <2> USE <1>2
    <2>0. workers \in [Workers -> Worker] /\ NoMsg \notin Workers
      BY GatewayAssumption DEF TypeOK
    <2>1. CASE \E k \in Conns, w \in Workers : Acknowledge(k, w)
      <3>1. PICK w \in Workers : /\ workers[w] = Idle /\ serial' = serial
                                 /\ workers'[w].pc = "ready"
                                 /\ \A v \in Workers : v # w => workers'[v] = workers[v]
        BY <2>0, <2>1 DEF Acknowledge
      <3> QED BY <3>1 DEF LockFollows, OnSerial, Idle
    <2>2. ASSUME NEW w \in Workers, Work(w) PROVE LockFollows'
      <3>1. \A v \in Workers : v # w => workers'[v] = workers[v]
        BY <2>0, <2>2 DEF Work, BeginExec, Confirm, Fail, ReportExpired, PublishStatus, StatusRaises
      <3>2. CASE BeginExec(w)
        <4>1. /\ workers[w].pc = "ready" /\ workers'[w].pc = "running"
              /\ workers'[w].msg = workers[w].msg
          BY <2>0, <3>2 DEF BeginExec, Worker, Idle
        <4>2. CASE workers[w].msg.cid \in SerialCmds
          <5>1. serial = NoMsg /\ serial' = w
            BY <3>2, <4>2 DEF BeginExec
          <5> QED BY <2>0, <3>1, <4>1, <4>2, <5>1 DEF LockFollows, OnSerial
        <4>3. CASE workers[w].msg.cid \notin SerialCmds
          <5>1. serial' = serial
            BY <3>2, <4>3 DEF BeginExec
          <5> QED BY <3>1, <4>1, <4>3, <5>1 DEF LockFollows, OnSerial
        <4> QED BY <4>2, <4>3
      <3>3. CASE Confirm(w) \/ Fail(w)
        <4>1. /\ serial' = IF serial = w THEN NoMsg ELSE serial
              /\ workers'[w].pc # "running"
          <5>1. CASE Confirm(w)
            BY <2>0, <5>1 DEF Confirm, Release, Worker, Idle
          <5>2. CASE Fail(w)
            BY <2>0, <5>2 DEF Fail, ReportExpired, Release, Idle
          <5> QED BY <3>3, <5>1, <5>2
        <4> QED BY <2>0, <3>1, <4>1 DEF LockFollows, OnSerial
      <3>4. CASE PublishStatus(w) \/ StatusRaises(w)
        <4>1. /\ serial' = serial /\ workers[w].pc = "reported"
              /\ workers'[w].pc # "running"
          BY <2>0, <3>4 DEF PublishStatus, StatusRaises, ReportExpired, Idle
        <4> QED BY <3>1, <4>1 DEF LockFollows, OnSerial
      <3> QED BY <2>2, <3>2, <3>3, <3>4 DEF Work
    <2>3. CASE Restart
      BY <2>0, <2>3 DEF Restart, LockFollows, OnSerial, Idle
    <2>4. CASE \/ UNCHANGED vars
               \/ Tick
               \/ \E c \in Commands, ts \in SentTs, ttl \in SentTtl : Publish(c, ts, ttl)
               \/ \E k \in Conns : ClaimMalformed(k) \/ \E m \in cmdNet : Deliver(k, m)
      <3>1. UNCHANGED <<workers, serial>>
        BY <2>4 DEF vars, Tick, Publish, ClaimMalformed, Deliver, ClaimDuplicate,
                    ClaimRejected, ClaimAccepted
      <3> QED BY <3>1 DEF LockFollows, OnSerial
    <2> QED BY <2>1, <2>2, <2>3, <2>4 DEF Next, GatewayStep
  <1> QED BY <1>1, <1>2, TypeCorrect, PTL DEF Spec
=============================================================================
