--------------------------- MODULE SerialLineProofs ---------------------------
(***************************************************************************)
(* Proofs about SerialLine for any commands and any depth of the board's   *)
(* bus: type correctness, PunctualLedDone, NothingLeftOver and QuietLed.   *)
(*                                                                         *)
(* While every execution read a final reply, the line and the bus hold     *)
(* what is left of the present execution and nothing else: its reply comes *)
(* last, after the board is done with it (Orderly).  QuietLed rests on the *)
(* last LED command on the bus being the one accepted last (LastOnBus).    *)
(***************************************************************************)
EXTENDS SerialLine, SequenceTheorems, TLAPS

Positions == 1..Len(line)

(* A reply that is on the line or read is exec's own. *)
Own(token) == exec \in LedCmds /\ token = Desired(exec) => exec \in ran

(* The board has not come to the reply of exec's request yet. *)
Owed == bus # <<>> \/ working # NoCmd

Orderly ==
    /\ bus \in {<<>>, <<exec>>} /\ working \in {NoCmd, exec}
    /\ bus = <<>> \/ working = NoCmd
    /\ exec = NoCmd => line = <<>> /\ ~Owed
    /\ \A i \in Positions : line[i] \in Replies => i = Len(line) /\ Own(line[i]) /\ ~Owed
    /\ \A token \in buf \cap Replies : line = <<>> /\ Own(token) /\ ~Owed

LastOnBus ==
    \/ /\ \E i \in 1..Len(bus) :
            bus[i] = lastLed /\ \A j \in i + 1..Len(bus) : bus[j] \notin LedCmds
    \/ /\ \A j \in 1..Len(bus) : bus[j] \notin LedCmds
       /\ led = Desired(lastLed)

Inv ==
    /\ TypeOK
    /\ ~cutShort /\ ~early => Orderly /\ LedDoneRan
    /\ ~tripped /\ lastLed # NoCmd => LastOnBus
    /\ ~tripped => working \notin LedCmds

LEMMA InitInv == Init => Inv
<1> SUFFICES ASSUME Init PROVE Inv
  OBVIOUS
<1> USE SerialAssumption DEF Init
<1>1. TypeOK
  <2>2. line \in Seq(Tokens) /\ bus \in Seq(Cmds) /\ Len(bus) <= BusDepth
    BY EmptySeq
  <2>3. todo \subseteq Cmds /\ exec \in Cmds \cup {NoCmd} /\ buf \subseteq Tokens
    OBVIOUS
  <2> QED
    BY <2>2, <2>3 DEF TypeOK
<1>2. Orderly
  BY DEF Orderly, Owed, Positions
<1>3. LedDoneRan
  BY DEF LedDoneRan
<1>4. working \notin LedCmds
  BY DEF Cmds
<1> QED
  BY <1>1, <1>2, <1>3, <1>4 DEF Inv

-----------------------------------------------------------------------------
(* Type correctness *)

(* The board takes a step for c. *)
BoardDoes(c) == RunLed(c) \/ AskModel(c) \/ ModelReplies(c) \/ GiveUp(c)

LEMMA TypeStep == TypeOK /\ [Next]_vars => TypeOK'
<1> SUFFICES ASSUME TypeOK, [Next]_vars PROVE TypeOK'
  OBVIOUS
<1> USE SerialAssumption DEF gateway, board
<1>1. ASSUME NEW c \in Cmds, Ask(c) PROVE TypeOK'
  <2>1. PICK n \in 0..Len(line) : line' = Append(SubSeq(line, n + 1, Len(line)), "sent")
    BY <1>1 DEF Ask
  <2>2. SubSeq(line, n + 1, Len(line)) \in Seq(Tokens)
    BY DEF TypeOK
  <2>3. line' \in Seq(Tokens)
    BY <2>1, <2>2 DEF Tokens
  <2>4. bus' \in Seq(Cmds) /\ Len(bus') <= BusDepth
    <3>0. bus \in Seq(Cmds) /\ Len(bus) \in Nat /\ Len(bus) <= BusDepth
      BY DEF TypeOK
    <3>1. CASE RoomOnBus
      <4>1. bus' = Append(bus, c)
        BY <1>1, <3>1 DEF Ask
      <4> QED
        BY <3>0, <3>1, <4>1 DEF RoomOnBus
    <3>2. CASE ~RoomOnBus
      BY <1>1, <3>0, <3>2 DEF Ask
    <3> QED
      BY <3>1, <3>2
  <2>5. lastLed' \in LedCmds \cup {NoCmd}
    BY <1>1 DEF Ask, TypeOK
  <2> QED
    BY <1>1, <2>3, <2>4, <2>5 DEF Ask, TypeOK
<1>3. CASE Receive
  <2>1. PICK n \in 1..Len(line) :
          /\ buf' = buf \cup {line[i] : i \in 1..n}
          /\ line' = SubSeq(line, n + 1, Len(line))
    BY <1>3 DEF Receive
  <2>2. line' \in Seq(Tokens) /\ buf' \subseteq Tokens
    BY <2>1 DEF TypeOK
  <2> QED
    BY <1>3, <2>2 DEF Receive, TypeOK
<1>4. CASE Answered \/ Deadline
  <2>1. exec \in Cmds /\ Return(buf) /\ UNCHANGED <<line, bus, working>>
    BY <1>4 DEF Answered, Deadline, TypeOK
  <2>2. done' \subseteq Cmds /\ expired' \subseteq Cmds
    BY <2>1 DEF Return, TypeOK
  <2>3. cutShort' \in BOOLEAN /\ early' \in BOOLEAN
    BY <1>4 DEF Answered, Deadline, TypeOK
  <2> QED
    BY <1>4, <2>1, <2>2, <2>3 DEF Answered, Deadline, Return, TypeOK
<1>5. CASE PortFails
  BY <1>5 DEF PortFails, TypeOK
<1>6. ASSUME NEW c \in Cmds, AskFails(c) PROVE TypeOK'
  BY <1>6 DEF AskFails, TypeOK
<1>7. ASSUME NEW c \in Cmds, BoardDoes(c) PROVE TypeOK'
  <2>1. bus' \in Seq(Cmds) /\ Len(bus') <= BusDepth
    <3>1. (bus /= <<>> /\ bus' = Tail(bus)) \/ bus' = bus
      BY <1>7 DEF BoardDoes, RunLed, AskModel, ModelReplies, GiveUp, Taken
    <3> QED
      BY <3>1 DEF TypeOK
  <2>2. PICK token \in Tokens : Shown(token)
    BY <1>7 DEF BoardDoes, RunLed, AskModel, ModelReplies, GiveUp, Desired, Tokens, AgentTexts, Replies
  <2>3. line' \in Seq(Tokens)
    BY <2>2 DEF Shown, TypeOK
  <2>4. led' \in {"on", "off"} /\ ran' \subseteq Cmds /\ working' \in Cmds \cup {NoCmd}
        /\ tripped' \in BOOLEAN
    BY <1>7 DEF BoardDoes, RunLed, AskModel, ModelReplies, GiveUp, Desired, TypeOK
  <2>5. UNCHANGED <<gateway, lastLed>>
    BY <1>7 DEF BoardDoes, RunLed, AskModel, ModelReplies, GiveUp
  <2> QED
    BY <2>1, <2>3, <2>4, <2>5 DEF TypeOK
<1>8. CASE UNCHANGED vars
  BY <1>8 DEF vars, TypeOK
<1> QED
  BY <1>1, <1>3, <1>4, <1>5, <1>6, <1>7, <1>8
     DEF Next, GatewayStep, Work, PortTrouble, BoardStep, BoardDoes

-----------------------------------------------------------------------------
(* While every execution read a final reply *)

LEMMA Tokened == "sent" \notin Replies /\ "status" \notin Replies /\ Replies \subseteq Tokens
  BY DEF Replies, Tokens, AgentTexts

(* What holds of the tokens on the line and in buf is kept. *)
LEMMA OwnKept == ASSUME NEW token, Own(token), exec' = exec, ran \subseteq ran' PROVE Own(token)'
  BY DEF Own

LEMMA AskOrderly ==
    ASSUME TypeOK, Orderly, NEW c \in Cmds, Ask(c) PROVE Orderly'
<1>1. exec = NoCmd /\ exec' = c /\ buf' = {} /\ c /= NoCmd /\ working' = working
  BY SerialAssumption DEF Ask
<1>2. bus = <<>> /\ working = NoCmd /\ line = <<>> /\ Len(bus) = 0 /\ Len(line) = 0
  BY <1>1 DEF Orderly, Owed
<1>3. bus' = <<c>>
  <2>1. RoomOnBus
    BY <1>2, SerialAssumption DEF RoomOnBus
  <2>2. bus' = Append(bus, c)
    BY <2>1 DEF Ask
  <2> QED
    BY <1>2, <2>2
<1>4. line' = <<"sent">>
  <2>1. PICK n \in 0..Len(line) : line' = Append(SubSeq(line, n + 1, Len(line)), "sent")
    BY DEF Ask
  <2>2. SubSeq(line, n + 1, Len(line)) = <<>>
    BY <1>2, <2>1, SubSeqEmpty
  <2>3. \A token : Append(<<>>, token) = <<token>>
    OBVIOUS
  <2> QED
    BY <2>1, <2>2, <2>3
<1>5. \A i \in Positions' : line'[i] \notin Replies
  BY <1>4, Tokened DEF Positions
<1> QED
  BY <1>1, <1>2, <1>3, <1>5 DEF Orderly

LEMMA ReceiveOrderly ==
    ASSUME TypeOK, Orderly, Receive PROVE Orderly'
<1>1. exec /= NoCmd /\ UNCHANGED <<exec, bus, working, ran>>
  BY DEF Receive, board
<1>2. PICK n \in 1..Len(line) :
        buf' = buf \cup {line[i] : i \in 1..n} /\ line' = SubSeq(line, n + 1, Len(line))
  BY DEF Receive
<1>3. line \in Seq(Tokens) /\ Len(line) \in Nat \ {0} /\ n \in Nat
  BY <1>2 DEF TypeOK
<1>4. Len(line') = Len(line) - n /\ \A i \in 1..Len(line) - n : line'[i] = line[i + n]
  BY <1>2, <1>3
<1>5. ASSUME NEW i \in Positions', line'[i] \in Replies
      PROVE  i = Len(line') /\ Own(line'[i]) /\ ~Owed
  <2>1. i + n \in Positions /\ line[i + n] = line'[i]
    BY <1>3, <1>4, <1>5 DEF Positions
  <2>2. i + n = Len(line) /\ Own(line[i + n]) /\ ~Owed
    BY <1>5, <2>1 DEF Orderly
  <2>3. i = Len(line')
    <3>1. i \in 1..Len(line')
      BY <1>5 DEF Positions
    <3>2. i \in Int /\ n \in Int /\ Len(line) \in Int /\ i + n = Len(line)
      BY <1>3, <2>2, <3>1
    <3>3. Len(line') = Len(line) - n
      BY <1>4
    <3> QED
      BY <3>2, <3>3
  <2>4. Own(line'[i])
    BY <2>1, <2>2
  <2> QED
    BY <2>2, <2>3, <2>4
<1>6. ASSUME NEW token \in buf' \cap Replies PROVE line' = <<>> /\ Own(token) /\ ~Owed
  <2>1. line /= <<>>
    BY <1>3
  <2>2. token \notin buf
    BY <1>6, <2>1 DEF Orderly
  <2>3. PICK i \in 1..n : token = line[i]
    BY <1>2, <1>6, <2>2
  <2>4. i \in Positions
    BY <1>2, <1>3, <2>3 DEF Positions
  <2>5. i = Len(line) /\ Own(token) /\ ~Owed
    BY <1>6, <2>3, <2>4 DEF Orderly
  <2>6. n = Len(line)
    BY <1>2, <1>3, <2>3, <2>5
  <2>7. line' = <<>>
    BY <1>2, <1>3, <2>6, SubSeqEmpty
  <2> QED
    BY <2>5, <2>7
<1>7. \A token : Own(token) => Own(token)'
  BY <1>1 DEF Own
<1>8. Owed' = Owed
  BY <1>1 DEF Owed
<1> QED
  BY <1>1, <1>5, <1>6, <1>7, <1>8 DEF Orderly

(* The board owes exec's reply, prints a token or loses it, and owes the   *)
(* reply no longer if that was a reply.                                    *)
LEMMA PrintOrderly ==
    ASSUME TypeOK, Orderly, NEW token \in Tokens, Shown(token), Owed,
           UNCHANGED <<exec, buf>>, ran \subseteq ran',
           bus' \in {<<>>, <<exec>>}, working' \in {NoCmd, exec}, bus' = <<>> \/ working' = NoCmd,
           token \in Replies => Own(token)' /\ ~Owed'
    PROVE  Orderly'
<1>1. exec /= NoCmd /\ buf \cap Replies = {}
  BY DEF Orderly
<1>2. \A i \in Positions : line[i] \notin Replies
  BY DEF Orderly
<1>3. line \in Seq(Tokens) /\ Len(line) \in Nat
  BY DEF TypeOK
<1>4. CASE line' = line
  BY <1>1, <1>2, <1>4 DEF Orderly, Positions
<1>5. CASE line' = Append(line, token)
  <2>1. Len(line') = Len(line) + 1 /\ line'[Len(line) + 1] = token
        /\ \A i \in 1..Len(line) : line'[i] = line[i]
    BY <1>3, <1>5
  <2>2. \A i \in Positions' : line'[i] \in Replies => i = Len(line') /\ line'[i] = token
    BY <1>2, <1>3, <2>1 DEF Positions
  <2> QED
    BY <1>1, <2>2 DEF Orderly
<1> QED
  BY <1>4, <1>5 DEF Shown

LEMMA BoardOrderly ==
    ASSUME TypeOK, Orderly, NEW c \in Cmds, BoardDoes(c)
    PROVE  Orderly'
<1> USE DEF gateway
<1>0. c /= NoCmd
  BY SerialAssumption
<1>1. CASE working = c
  <2>1. ModelReplies(c)
    BY <1>0, <1>1 DEF BoardDoes, RunLed, AskModel, GiveUp, Taken
  <2>2. c = exec /\ bus = <<>> /\ Owed
    BY <1>0, <1>1 DEF Orderly, Owed
  <2>3. working' = NoCmd /\ bus' = bus /\ ran \subseteq ran' /\ UNCHANGED <<exec, buf>>
    BY <2>1 DEF ModelReplies
  <2>4. ~Owed'
    BY <2>2, <2>3 DEF Owed
  <2>5. \E token \in Replies : Shown(token) /\ Own(token)'
    <3>1. PICK token \in Replies :
            (c \in LedCmds /\ token # "other" => token = Desired(c) /\ c \in ran') /\ Shown(token)
      BY <2>1 DEF ModelReplies
    <3> QED
      BY <2>2, <2>3, <3>1 DEF Own, Desired
  <2>6. PICK token \in Replies : Shown(token) /\ Own(token)'
    BY <2>5
  <2> QED
    BY <2>2, <2>3, <2>4, <2>6, Tokened, PrintOrderly
<1>2. CASE working /= c
  <2>1. Taken(c) /\ (RunLed(c) \/ AskModel(c) \/ GiveUp(c))
    BY <1>2 DEF BoardDoes, RunLed, AskModel, ModelReplies, GiveUp
  <2>0. bus = <<exec>> /\ working = NoCmd /\ c = Head(bus) /\ bus' = Tail(bus)
    BY <2>1 DEF Taken, NextOnBus, Orderly
  <2>2. bus = <<exec>> /\ working = NoCmd /\ c = exec /\ bus' = <<>> /\ Owed
    BY <2>0 DEF Owed
  <2>3. ran \subseteq ran' /\ UNCHANGED <<exec, buf>>
    BY <2>1 DEF RunLed, AskModel, GiveUp
  <2>4. CASE RunLed(c)
    <3>1. Desired(c) \in Replies /\ Own(Desired(c))' /\ Shown(Desired(c))
      BY <2>2, <2>3, <2>4 DEF RunLed, Own, Desired, Replies
    <3>2. working' = NoCmd /\ ~Owed'
      BY <2>2, <2>4 DEF RunLed, Owed
    <3> QED
      BY <2>2, <2>3, <3>1, <3>2, Tokened, PrintOrderly
  <2>5. CASE AskModel(c)
    <3>1. Shown("status") /\ working' = exec /\ "status" \in Tokens
      BY <2>2, <2>5 DEF AskModel, Tokens, AgentTexts
    <3> QED
      BY <2>2, <2>3, <3>1, Tokened, PrintOrderly
  <2>6. CASE GiveUp(c)
    <3>1. "other" \in Replies /\ Own("other")' /\ Shown("other")
      BY <2>6 DEF GiveUp, Own, Desired, Replies
    <3>2. working' = NoCmd /\ ~Owed'
      BY <2>2, <2>6 DEF GiveUp, Owed
    <3> QED
      BY <2>2, <2>3, <3>1, <3>2, Tokened, PrintOrderly
  <2> QED
    BY <2>1, <2>4, <2>5, <2>6
<1> QED
  BY <1>1, <1>2

LEMMA OrderlyStep ==
    ASSUME Inv, [Next]_vars, ~cutShort', ~early' PROVE Orderly' /\ LedDoneRan'
<1> USE DEF Inv, gateway, board
<1>0. ~cutShort /\ ~early
  <2>1. CASE Answered
    <3>1. ~early
      BY <2>1, Zenon DEF Answered
    <3> QED
      BY <2>1, <3>1 DEF Answered
  <2>2. CASE Deadline \/ PortFails
    BY <2>2 DEF Deadline, PortFails
  <2>3. CASE ~Answered /\ ~Deadline /\ ~PortFails
    <3>1. UNCHANGED <<cutShort, early>>
      BY <2>3 DEF Next, GatewayStep, Work, PortTrouble, BoardStep, Ask, AskFails, Receive, RunLed, AskModel, ModelReplies, GiveUp, vars
    <3> QED
      BY <3>1
  <2> QED
    BY <2>1, <2>2, <2>3
<1>1. ASSUME NEW c \in Cmds, Ask(c) PROVE Orderly' /\ LedDoneRan'
  <2>1. LedDoneRan'
    BY <1>0, <1>1 DEF Ask, LedDoneRan
  <2> QED
    BY <1>0, <1>1, <2>1, AskOrderly
<1>2. ASSUME NEW c \in Cmds, AskFails(c) PROVE Orderly' /\ LedDoneRan'
  <2>1. LedDoneRan'
    BY <1>0, <1>2 DEF AskFails, LedDoneRan
  <2>2. Orderly'
    BY <1>0, <1>2 DEF AskFails, Orderly, Own, Owed, Positions
  <2> QED
    BY <2>1, <2>2
<1>3. CASE Receive
  <2>1. LedDoneRan'
    BY <1>0, <1>3 DEF Receive, LedDoneRan
  <2> QED
    BY <1>0, <1>3, <2>1, ReceiveOrderly
<1>4. CASE Answered
  <2>1. exec /= NoCmd /\ Return(buf) /\ UNCHANGED <<line, bus, working, ran>>
    BY <1>4 DEF Answered
  <2>2. exec' = NoCmd /\ buf' = {}
    BY <2>1 DEF Return
  <2>3. buf \cap Replies /= {}
    BY <1>4 DEF Answered
  <2>4. line = <<>> /\ ~Owed /\ \A token \in buf \cap Replies : Own(token)
    BY <1>0, <2>3 DEF Orderly
  <2>5. Orderly'
    BY <2>1, <2>2, <2>4 DEF Orderly, Owed, Positions
  <2>6. ASSUME exec \in LedCmds, Confirms(exec, buf) PROVE exec \in ran
    <3>1. Desired(exec) \in buf \cap Replies
      BY <2>6 DEF Confirms, Desired, Replies
    <3> QED
      BY <2>4, <2>6, <3>1 DEF Own
  <2> QED
    BY <1>0, <2>1, <2>5, <2>6 DEF Return, LedDoneRan
<1>5. CASE Deadline \/ PortFails
  BY <1>5 DEF Deadline, PortFails
<1>7. ASSUME NEW c \in Cmds, BoardDoes(c) PROVE Orderly' /\ LedDoneRan'
  <2>1. ran \subseteq ran' /\ done' = done
    BY <1>7 DEF BoardDoes, RunLed, AskModel, ModelReplies, GiveUp
  <2>2. LedDoneRan'
    BY <1>0, <2>1 DEF LedDoneRan
  <2> QED
    BY <1>0, <1>7, <2>2, BoardOrderly
<1>8. CASE UNCHANGED vars
  BY <1>0, <1>8 DEF vars, Orderly, Own, Owed, Positions, LedDoneRan
<1> QED
  BY <1>1, <1>2, <1>3, <1>4, <1>5, <1>7, <1>8
     DEF Next, GatewayStep, Work, PortTrouble, BoardStep, BoardDoes

-----------------------------------------------------------------------------
(* The LED *)

LEMMA LastStep ==
    ASSUME Inv, [Next]_vars, ~tripped', lastLed' /= NoCmd PROVE LastOnBus'
<1> USE SerialAssumption DEF Inv, gateway, board
<1>0. ~tripped
  BY DEF Next, GatewayStep, Work, PortTrouble, BoardStep, Ask, AskFails, Receive, Answered, Deadline, PortFails, RunLed, AskModel, ModelReplies, GiveUp, vars
<1>t. bus \in Seq(Cmds) /\ Len(bus) \in Nat
  BY DEF TypeOK
<1>1. ASSUME NEW c \in Cmds, Ask(c) PROVE LastOnBus'
  <2>1. CASE RoomOnBus /\ c \in LedCmds
    <3>1. bus' = Append(bus, c) /\ lastLed' = c
      BY <1>1, <2>1 DEF Ask
    <3>2. Len(bus') = Len(bus) + 1 /\ bus'[Len(bus) + 1] = c
      BY <1>t, <3>1
    <3> QED
      BY <1>t, <3>1, <3>2 DEF LastOnBus
  <2>2. CASE RoomOnBus /\ c \notin LedCmds
    <3>1. bus' = Append(bus, c) /\ lastLed' = lastLed /\ led' = led
      BY <1>1, <2>2 DEF Ask
    <3>2. /\ Len(bus') = Len(bus) + 1 /\ bus'[Len(bus) + 1] = c
          /\ \A i \in 1..Len(bus) : bus'[i] = bus[i]
      BY <1>t, <3>1
    <3>3. LastOnBus
      BY <1>0, <3>1
    <3>4. ASSUME NEW i \in 1..Len(bus), bus[i] = lastLed,
                 \A j \in i + 1..Len(bus) : bus[j] \notin LedCmds
          PROVE  LastOnBus'
      <4>1. \A j \in i + 1..Len(bus') : bus'[j] \notin LedCmds
        BY <1>t, <2>2, <3>2, <3>4
      <4> QED
        BY <1>t, <3>1, <3>2, <3>4, <4>1 DEF LastOnBus
    <3>5. ASSUME \A j \in 1..Len(bus) : bus[j] \notin LedCmds, led = Desired(lastLed)
          PROVE  LastOnBus'
      BY <1>t, <2>2, <3>1, <3>2, <3>5 DEF LastOnBus, Desired
    <3> QED
      BY <3>3, <3>4, <3>5 DEF LastOnBus
  <2>3. CASE ~RoomOnBus
    BY <1>0, <1>1, <2>3 DEF Ask, LastOnBus, Desired
  <2> QED
    BY <2>1, <2>2, <2>3
<1>2. CASE UNCHANGED <<bus, led, lastLed>>
  BY <1>0, <1>2 DEF LastOnBus, Desired
<1>3. ASSUME NEW c \in Cmds, Taken(c), RunLed(c) \/ AskModel(c) \/ GiveUp(c) PROVE LastOnBus'
  <2>1. /\ bus /= <<>> /\ c = Head(bus) /\ bus' = Tail(bus) /\ lastLed' = lastLed
    BY <1>3 DEF RunLed, AskModel, GiveUp, Taken, NextOnBus
  <2>2. /\ c = bus[1] /\ Len(bus) \in Nat \ {0} /\ Len(bus') = Len(bus) - 1
        /\ \A i \in 1..Len(bus) - 1 : bus'[i] = bus[i + 1]
    BY <1>t, <2>1
  <2>3. LastOnBus
    BY <1>0, <2>1
  <2>4. c \in LedCmds => led' = Desired(c)
    BY <1>0, <1>3 DEF RunLed, AskModel, GiveUp
  <2>5. c \notin LedCmds => led' = led
    BY <1>3 DEF RunLed, AskModel, GiveUp
  <2>6. ASSUME NEW i \in 1..Len(bus), bus[i] = lastLed,
               \A j \in i + 1..Len(bus) : bus[j] \notin LedCmds
        PROVE  LastOnBus'
    <3>1. CASE i = 1
      <4>1. \A j \in 1..Len(bus') : bus'[j] \notin LedCmds
        BY <2>2, <2>6, <3>1
      <4>2. c = lastLed /\ lastLed \in LedCmds
        BY <2>1, <2>2, <2>6, <3>1 DEF TypeOK
      <4> QED
        BY <2>1, <2>4, <4>1, <4>2 DEF LastOnBus, Desired
    <3>2. CASE i /= 1
      <4>1. i - 1 \in 1..Len(bus') /\ bus'[i - 1] = lastLed'
        BY <2>1, <2>2, <2>6, <3>2
      <4>2. \A j \in (i - 1) + 1..Len(bus') : bus'[j] \notin LedCmds
        BY <2>2, <2>6, <3>2
      <4> QED
        BY <4>1, <4>2 DEF LastOnBus
    <3> QED
      BY <3>1, <3>2
  <2>7. ASSUME \A j \in 1..Len(bus) : bus[j] \notin LedCmds, led = Desired(lastLed)
        PROVE  LastOnBus'
    <3>1. c \notin LedCmds
      BY <2>2, <2>7
    <3>2. \A j \in 1..Len(bus') : bus'[j] \notin LedCmds
      BY <2>2, <2>7
    <3> QED
      BY <2>1, <2>5, <2>7, <3>1, <3>2 DEF LastOnBus, Desired
  <2> QED
    BY <2>3, <2>6, <2>7 DEF LastOnBus
<1>4. ASSUME NEW c \in Cmds, ModelReplies(c) PROVE LastOnBus'
  <2>1. c \notin LedCmds
    BY <1>0, <1>4 DEF ModelReplies
  <2> QED
    BY <1>2, <1>4, <2>1 DEF ModelReplies
<1>5. ASSUME NEW c \in Cmds, RunLed(c) \/ AskModel(c) \/ GiveUp(c) PROVE Taken(c)
  BY <1>5 DEF RunLed, AskModel, GiveUp
<1> QED
  BY <1>1, <1>2, <1>3, <1>4, <1>5
     DEF Next, GatewayStep, Work, PortTrouble, BoardStep, AskFails, Receive, Answered, Deadline, PortFails, vars

-----------------------------------------------------------------------------
(* An LED command that goes to the model was not carried out by the fast path. *)
LEMMA WorkingStep ==
    ASSUME Inv, [Next]_vars, ~tripped' PROVE working' \notin LedCmds
  BY SerialAssumption
     DEF Inv, gateway, board, Cmds, LedCmds, Next, GatewayStep, Work, PortTrouble, BoardStep, Ask,
         AskFails, Receive, Answered, Deadline, PortFails, RunLed, AskModel,
         ModelReplies, GiveUp, vars

LEMMA NextInv == Inv /\ [Next]_vars => Inv'
  BY TypeStep, OrderlyStep, LastStep, WorkingStep DEF Inv

(* Every variable keeps its type, whatever the board answers. *)
THEOREM TypeCorrect == Spec => []TypeOK
<1>1. Inv => TypeOK
  BY DEF Inv
<1> QED
  BY <1>1, InitInv, NextInv, PTL DEF Spec

(* While every execution read a final reply before it returned, an LED     *)
(* command that is acknowledged done was carried out (SerialExecutor.exec  *)
(* and _handle); the status phrase of a request to the model ends that.    *)
THEOREM PunctualIsHonest == Spec => []PunctualLedDone
<1>1. Inv => PunctualLedDone
  BY DEF Inv, PunctualLedDone
<1> QED
  BY <1>1, InitInv, NextInv, PTL DEF Spec

(* While every execution read a final reply before it returned, a free     *)
(* lock finds nothing of an earlier command on the board or on the line    *)
(* (SerialExecutor.exec).                                                  *)
THEOREM CleanLine == Spec => []NothingLeftOver
<1>1. Inv => NothingLeftOver
  BY DEF Inv, Orderly, Owed, NothingLeftOver
<1> QED
  BY <1>1, InitInv, NextInv, PTL DEF Spec

(* Once the board's bus is empty, the LED is what the command accepted     *)
(* last asked for, unless the board gave one up (handle_nl_fast_path).     *)
THEOREM LedSettles == Spec => []QuietLed
<1>1. Inv => QuietLed
  BY DEF Inv, LastOnBus, QuietLed
<1> QED
  BY <1>1, InitInv, NextInv, PTL DEF Spec
===============================================================================
