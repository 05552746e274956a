------------------------------ MODULE SerialLine ------------------------------
(***************************************************************************)
(* How the gateway executes a command over the serial line: SerialExecutor *)
(* types "ask ..." at the board's console and reads until it has seen      *)
(* "Sent to agent" and an "[Agent]:" text, or its time is up.  What the    *)
(* worker then acknowledges depends on the text read alone, so it is       *)
(* decided here when exec returns.  The board queues the request, its      *)
(* agent loop works requests off one by one, and what it prints carries    *)
(* nothing that tells which request it answers.  A request that goes to    *)
(* the language model is first announced by a status phrase, which is      *)
(* printed as an "[Agent]:" text like the reply.                           *)
(*                                                                         *)
(* This is the inside of BeginExec, Confirm and Fail of CommandGateway.    *)
(***************************************************************************)
EXTENDS Sequences, FiniteSets, Naturals

CONSTANTS
    OnCmds, OffCmds,  \* led.on and led.off commands
    InfoCmds,         \* device.info commands: no keyword of the fast path
    BusDepth,         \* capacity of the board's message bus
    NoCmd             \* none

LedCmds == OnCmds \cup OffCmds
Cmds    == LedCmds \cup InfoCmds

ASSUME SerialAssumption ==
    /\ OnCmds \cap OffCmds = {} /\ LedCmds \cap InfoCmds = {}
    /\ NoCmd \notin Cmds
    /\ BusDepth \in Nat \ {0}

VARIABLES
    todo,     \* commands whose worker waits for SerialExecutor.lock
    exec,     \* command whose worker holds the lock, or NoCmd
    buf,      \* what exec has read: a set of tokens
    done,     \* commands acknowledged done
    expired,  \* commands acknowledged expired
    line,     \* tokens the board printed that were not read yet
    bus,      \* requests queued on the board
    working,  \* command the language model works on, or NoCmd
    led,      \* the LED
    ran,      \* requests the board has carried out
    lastLed,  \* the LED command its bus accepted last
    tripped,  \* the fast path did not carry out some LED command
    cutShort, \* some exec met its deadline or the port failed
    early     \* some exec returned before a final reply

gateway == <<todo, exec, buf, done, expired, cutShort, early>>
board   == <<bus, working, led, ran, lastLed, tripped>>
vars    == <<gateway, line, board>>

-----------------------------------------------------------------------------
\* Final replies: an LED state or any other, with or without a failure marker.
Replies == {"on", "off", "other"}

\* What the board prints after "[Agent]:".
AgentTexts == Replies \cup {"status"}
Tokens     == {"sent"} \cup AgentTexts
Desired(c) == IF c \in OnCmds THEN "on" ELSE "off"

TypeOK ==
    /\ todo \subseteq Cmds
    /\ exec \in Cmds \cup {NoCmd}
    /\ buf \subseteq Tokens
    /\ done \subseteq Cmds /\ expired \subseteq Cmds
    /\ line \in Seq(Tokens)
    /\ bus \in Seq(Cmds) /\ Len(bus) <= BusDepth
    /\ working \in Cmds \cup {NoCmd}
    /\ led \in {"on", "off"}
    /\ ran \subseteq Cmds
    /\ lastLed \in LedCmds \cup {NoCmd}
    /\ tripped \in BOOLEAN
    /\ cutShort \in BOOLEAN /\ early \in BOOLEAN

Init ==
    /\ todo = Cmds   \* one that comes later is one that waits longer
    /\ exec = NoCmd
    /\ buf = {}
    /\ done = {} /\ expired = {}
    /\ line = <<>>
    /\ bus = <<>>
    /\ working = NoCmd
    /\ led \in {"on", "off"}
    /\ ran = {}
    /\ lastLed = NoCmd
    /\ tripped = FALSE
    /\ cutShort = FALSE /\ early = FALSE

-----------------------------------------------------------------------------
(* The gateway *)

RoomOnBus == Len(bus) < BusDepth

(***************************************************************************)
(* Take the lock, drop what has arrived (not what is still on its way),    *)
(* write the line; the console queues the request and prints "Sent to      *)
(* agent" even when the bus is full.                                       *)
(***************************************************************************)
Ask(c) ==
    /\ c \in todo
    /\ exec = NoCmd
    /\ todo' = todo \ {c}
    /\ exec' = c
    /\ buf' = {}
    /\ \E n \in 0..Len(line) :
          line' = Append(SubSeq(line, n + 1, Len(line)), "sent")
    /\ IF RoomOnBus
       THEN /\ bus' = Append(bus, c)
            /\ lastLed' = IF c \in LedCmds THEN c ELSE lastLed
       ELSE UNCHANGED <<bus, lastLed>>
    /\ UNCHANGED <<done, expired, cutShort, early, working, led, ran, tripped>>

(* The port raises before anything was written, ... *)
AskFails(c) ==
    /\ c \in todo
    /\ exec = NoCmd
    /\ todo' = todo \ {c}
    /\ expired' = expired \cup {c}
    /\ UNCHANGED <<exec, buf, done, cutShort, early, line, board>>

\* Any "[Agent]:" text with a prompt after it completes the answer, the
\* status phrase too.
Complete(b) == "sent" \in b /\ b \cap AgentTexts # {}

Receive ==
    /\ exec # NoCmd
    /\ ~Complete(buf)
    /\ \E n \in 1..Len(line) :
          /\ buf' = buf \cup {line[i] : i \in 1..n}
          /\ line' = SubSeq(line, n + 1, Len(line))
    /\ UNCHANGED <<todo, exec, done, expired, cutShort, early, board>>

\* Mutant: an LED command is confirmed by any reply.
ConfirmsAny(c, b) == b # {}

Confirms(c, b) == c \in LedCmds => Desired(c) \in b

(***************************************************************************)
(* exec returns b, and the worker acknowledges done; or expired, which it  *)
(* does for the wrong LED state, a ttl that has run out, or a failure      *)
(* marker somewhere in what was read.                                      *)
(***************************************************************************)
Return(b) ==
    /\ exec' = NoCmd /\ buf' = {}
    /\ \/ /\ Confirms(exec, b)
          /\ done' = done \cup {exec} /\ UNCHANGED expired
       \/ expired' = expired \cup {exec} /\ UNCHANGED done

Answered ==
    /\ exec # NoCmd
    /\ Complete(buf)
    /\ Return(buf)
    /\ early' = (early \/ buf \cap Replies = {})
    /\ UNCHANGED <<todo, cutShort, line, board>>

\* Mutant: only the port can end the reading.
DeadlineNever == FALSE /\ UNCHANGED vars

(* The deadline: what was read so far is the answer, or nothing was. *)
Deadline ==
    /\ exec # NoCmd
    /\ ~Complete(buf)
    /\ Return(buf)
    /\ cutShort' = TRUE
    /\ UNCHANGED <<todo, early, line, board>>

(* ... or while exec reads. *)
PortFails ==
    /\ exec # NoCmd
    /\ expired' = expired \cup {exec}
    /\ exec' = NoCmd /\ buf' = {}
    /\ cutShort' = TRUE
    /\ UNCHANGED <<todo, done, early, line, board>>

-----------------------------------------------------------------------------
(* The board *)

NextOnBus == Head(bus)

\* agent_loop_task takes a request when it is done with the one before.
Taken(c) == /\ working = NoCmd
            /\ bus # <<>>
            /\ c = NextOnBus
            /\ bus' = Tail(bus)

\* A text may get lost for want of memory or of room on the outbound bus.
Shown(token) == line' \in {line, Append(line, token)}

\* Mutant: the LED is never switched off.
RunLedOnOnly(c) ==
    /\ Taken(c)
    /\ c \in LedCmds
    /\ led' = IF c \in OnCmds THEN "on" ELSE led
    /\ ran' = ran \cup {c}
    /\ Shown(Desired(c))
    /\ UNCHANGED <<gateway, working, lastLed, tripped>>

\* Mutant: after the fast path the model gets the request too.
RunLedFallsThrough(c) ==
    /\ Taken(c)
    /\ c \in LedCmds
    /\ led' = Desired(c)
    /\ ran' = ran \cup {c}
    /\ working' = c
    /\ Shown(Desired(c))
    /\ UNCHANGED <<gateway, lastLed, tripped>>

(* A request is worked off by the LED tool on the fast path, ... *)
RunLed(c) ==
    /\ Taken(c)
    /\ c \in LedCmds
    /\ led' = Desired(c)
    /\ ran' = ran \cup {c}
    /\ Shown(Desired(c))
    /\ UNCHANGED <<gateway, working, lastLed, tripped>>

(***************************************************************************)
(* ... or by the language model, which the status phrase announces: a      *)
(* device.info, or an LED command when the fast path had no memory.        *)
(***************************************************************************)
AskModel(c) ==
    /\ Taken(c)
    /\ working' = c
    /\ Shown("status")
    /\ tripped' = (tripped \/ c \in LedCmds)
    /\ UNCHANGED <<gateway, led, ran, lastLed>>

(***************************************************************************)
(* Its final reply comes when it comes, and the model may have carried the *)
(* request out.  Asked about the device it may report any LED state; asked *)
(* for one, it reports one only if it was carried out, and that one.       *)
(***************************************************************************)
ModelReplies(c) ==
    /\ working = c
    /\ working' = NoCmd
    /\ \/ /\ ran' = ran \cup {c}
          /\ led' = IF c \in LedCmds THEN Desired(c) ELSE led
       \/ UNCHANGED <<ran, led>>
    /\ \E token \in Replies :
          /\ c \in LedCmds /\ token # "other" => token = Desired(c) /\ c \in ran'
          /\ Shown(token)
    /\ UNCHANGED <<gateway, bus, lastLed, tripped>>

(***************************************************************************)
(* Too little memory, no LED device: the reply says so, as a rule without  *)
(* any of the markers the gateway looks for.                               *)
(***************************************************************************)
GiveUp(c) ==
    /\ Taken(c)
    /\ Shown("other")
    /\ tripped' = (tripped \/ c \in LedCmds)
    /\ UNCHANGED <<gateway, working, led, ran, lastLed>>

BoardStep == \E c \in Cmds : RunLed(c) \/ AskModel(c) \/ ModelReplies(c) \/ GiveUp(c)

-----------------------------------------------------------------------------
Work ==
    \/ \E c \in Cmds : Ask(c)
    \/ Receive \/ Answered \/ Deadline

PortTrouble == PortFails \/ \E c \in Cmds : AskFails(c)

GatewayStep == Work \/ PortTrouble

Next == GatewayStep \/ BoardStep

Spec == Init /\ [][Next]_vars

(* The gateway's threads run: one that can take a step is not stopped       *)
(* forever, and the deadline passes.  Nothing is assumed of the board, and *)
(* the port may but need not fail.                                         *)
FairSpec == Spec /\ WF_vars(Work)

-----------------------------------------------------------------------------
(* Properties *)

(***************************************************************************)
(* "done" only when the serial line returned success and the LED state is  *)
(* the one asked for: an LED command that is done was carried out.         *)
(***************************************************************************)
LedDoneRan == done \cap LedCmds \subseteq ran

(***************************************************************************)
(* LedDoneRan, as long as every execution so far read a final reply before *)
(* it returned: that reply then is the command's own, although nothing in  *)
(* it says so.  An execution that went to the language model reads its     *)
(* final reply only if the status phrase was not printed, or if both had   *)
(* arrived when it looked.                                                 *)
(***************************************************************************)
PunctualLedDone == ~cutShort /\ ~early => LedDoneRan

(***************************************************************************)
(* As long as every execution read a final reply, nothing of a command is  *)
(* left on the board or on the line when the lock is free, so no later     *)
(* command can read it.                                                    *)
(***************************************************************************)
NothingLeftOver ==
    ~cutShort /\ ~early /\ exec = NoCmd => bus = <<>> /\ working = NoCmd /\ line = <<>>

(***************************************************************************)
(* However late the board is, once its bus is empty the LED is what the    *)
(* command accepted last asked for, whether or not that command has        *)
(* expired in the meantime, unless it gave up on an LED command or left    *)
(* one to the language model.                                              *)
(***************************************************************************)
QuietLed ==
    bus = <<>> /\ ~tripped /\ lastLed # NoCmd => led = Desired(lastLed)

(***************************************************************************)
(* Every worker reports an outcome, whatever the board does: this is what  *)
(* the fairness of CommandGateway's workers rests on.                      *)
(***************************************************************************)
EveryWorkerReports == <>(done \cup expired = Cmds)
=============================================================================
