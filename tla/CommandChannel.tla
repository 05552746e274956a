--------------------------- MODULE CommandChannel ---------------------------
(***************************************************************************)
(* The command path from end to end: the API's rows (CommandApi), the MQTT *)
(* broker between (cmdNet, ackNet: any delivery may be lost, delayed,      *)
(* repeated or overtaken) and the gateway (CommandGateway), on one clock.  *)
(* Both processes crash and restart independently.                         *)
(***************************************************************************)
EXTENDS CommandApi

CONSTANTS
    Conns, Workers, SerialCmds, Unserved, Forbidden, MaxTtl, FutureSkew,
    MaxRecords, MinExpiry, MaxRestarts, NoMsg

\* As in CommandGateway.
ASSUME ChannelAssumption ==
    /\ SerialCmds \subseteq Commands
    /\ Unserved \subseteq Commands
    /\ Forbidden \subseteq Commands
    /\ MaxTtl \in Nat \ {0}
    /\ FutureSkew \in Nat /\ FutureSkew <= MaxTtl
    /\ MaxRecords \in Nat
    /\ MinExpiry \in Nat
    /\ MaxRestarts \in Nat
    /\ NoMsg \notin [cid : Commands, ts : Int, ttl : Int]
    /\ NoMsg \notin Workers

VARIABLES
    records, callback, workers, serial, attempts, claimed, forgotten, restarts

gwVars == <<records, callback, workers, serial, attempts, claimed, forgotten,
            restarts>>
chVars == <<now, cmdNet, ackNet, apiVars, gwVars>>

\* What the gateway is sent is what the API publishes.
Gw == INSTANCE CommandGateway WITH SentTs <- 0..MaxTime, SentTtl <- ApiTtl

ChInit == ApiInit /\ Gw!Init

Clock == /\ Gw!Tick
         /\ UNCHANGED apiVars

ChNext == \/ ApiStep /\ UNCHANGED gwVars
          \/ Gw!GatewayStep /\ UNCHANGED apiVars
          \/ Clock

ChSpec == ChInit /\ [][ChNext]_chVars

(***************************************************************************)
(* Time passes; the sweeper is a loop on the API's event loop and the ack  *)
(* callback a paho thread, so each finishes the step it is in.  A database *)
(* that is locked is locked for a moment: the sweeper, which tries again   *)
(* every five seconds, succeeds in the end.  Nothing is assumed of the     *)
(* network or of the gateway.                                              *)
(***************************************************************************)
ChFairness ==
    /\ WF_chVars(Clock)
    /\ WF_chVars(SweepRead /\ UNCHANGED gwVars)
    /\ SF_chVars(SweepCommit /\ UNCHANGED gwVars)
    /\ WF_chVars((AckCommit \/ AckFails) /\ UNCHANGED gwVars)

ChFairSpec == ChSpec /\ ChFairness

-----------------------------------------------------------------------------
(***************************************************************************)
(* The channel keeps the promise: CommandPromise with the API's row as the *)
(* status shown, the gateway's claims as "taken" and its attempts as       *)
(* "tried".                                                                *)
(***************************************************************************)
Promise == INSTANCE CommandPromise
             WITH status <- [c \in Commands |-> Status(c)],
                  taken  <- claimed,
                  tried  <- {c \in Commands : attempts[c] > 0}

KeepsPromise == Promise!Spec

(***************************************************************************)
(* Every accepted command ends in done or expired and stays in one of the  *)
(* two, even if it is never published, the gateway is down, or the sweeper *)
(* and the ack callback overwrite each other for a while.                  *)
(***************************************************************************)
RowsSettle == Promise!Settles
=============================================================================
