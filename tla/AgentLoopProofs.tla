---------------------------- MODULE AgentLoopProofs ----------------------------
(***************************************************************************)
(* Proofs about AgentLoop for any messages, rounds of tools, backends and  *)
(* limits, in three invariants, each resting on those before it.           *)
(*                                                                         *)
(* Inv, of the stages of the loop: OneReply, FreshOutput, CreditsRight.    *)
(* RoundInv, of the rounds of tools: CallsAnswered, ResourcesKept,         *)
(* TraceHonest, NotStuck.  Limits, of what grows: the types with bounds.   *)
(***************************************************************************)
EXTENDS AgentLoop, SequenceTheorems, FiniteSetTheorems, TLAPS

\* What the proofs need to know of types.
Shapes ==
    /\ DOMAIN run = {"iter", "sig", "dup", "repeats", "stuck", "final", "fired",
                     "backend", "hit", "trace"}
    /\ DOMAIN msg = {"n", "kind", "image"}

(* While the language model or its tools are at work there is no reply yet. *)
Undecided == pc \notin {"end", "store", "dispatch"} => run.final = None

(* The backend applied last is the one the loop works with. *)
Credits ==
    pc \in {"lookup", "ask", "failover", "answered", "tools", "join", "decide"} =>
       (run.backend # None => applied = run.backend)

(* A lone call runs in this thread and writes the output of its round;     *)
(* several never do.                                                       *)
Outputs ==
    /\ pc = "tools" => Single(resp.calls)
    /\ pc = "join" => ~Single(resp.calls)
    /\ pc = "decide" /\ Single(resp.calls) =>
          toolOut.msg = msg.n /\ toolOut.round = run.iter

(* The run and the cache hold texts of replies. *)
Known ==
    /\ run.final \in Texts \cup {None}
    /\ DOMAIN cache = Queries
    /\ \A q \in Queries : cache[q] \in Texts \cup {None}

(* Until the message is answered, a status is all that was pushed. *)
Pushed ==
    /\ out \in Seq(Replies \cup {"status"})
    /\ pc \in {"memory", "slash", "guard", "fast", "vision", "route"} => out = <<>>

\* Messages are of the kinds there are.
Kinded == inbound \in Seq(Kinds) /\ msg.kind \in Kinds

\* The rest of the types.
Ranges ==
    /\ arrived \in 0..MaxMsgs
    /\ main \in {"running", "stopping", "woken", "torn"}
    /\ pc \in {"top", "pop", "memory", "slash", "guard", "fast", "vision", "route", "lookup",
               "ask", "failover", "answered", "tools", "join", "decide", "end",
               "store", "dispatch", "hung", "exit"}
    /\ run.backend \in Backends \cup {None}
    /\ run.trace \in {"off", "begun", "ok", "timeout", "fail"}
    /\ resp \in Responses \cup {NoResponse}
    /\ toolOut.text \in {"empty", "text", "complete"}
    /\ size \in {0, MaxCalls}
    /\ applied \in Backends \cup {None}
    /\ cache \in [Queries -> Texts \cup {None}]

Inv == /\ Ranges /\ Shapes /\ Undecided /\ Credits /\ Outputs /\ FreshOutput
       /\ Kinded /\ Known /\ Pushed /\ OneReply

(* A run ended by a notice of the watchdog is marked by it. *)
Watched == pc = "end" /\ run.final \in {"timeout", "taskTimeout"} => run.fired

(* The tasks are those of the calls under way. *)
Tasks ==
    /\ task \in Seq(Task)
    /\ joined \in 0..Len(task) /\ pool \in Nat
    /\ IF pc = "join" THEN Len(task) = Len(resp.calls) ELSE task = <<>>

(* The results are those of the first n calls, one to each short id. *)
ResultsOf(res, calls, n) ==
    /\ \A i, j \in 1..Len(res) : res[i] = res[j] => i = j \/ res[i] \in LongIds
    /\ \A id : InSeq(id, res) <=> \E j \in 1..n : calls[j].id = id

(* Every round has its results, but for the round under way. *)
Conversation ==
    /\ messages \in Seq(ToolRounds)
    /\ \A i \in 1..Len(messages) :
          i < Len(messages) \/ pc \notin {"tools", "join", "hung"} =>
             ResultsOf(messages[i].results, messages[i].calls, Len(messages[i].calls))
    /\ pc \in {"tools", "join"} => messages # <<>> /\ messages[Len(messages)].calls = resp.calls
    /\ pc = "tools" => ResultsOf(Results, resp.calls, 0)
    /\ pc = "join" => ResultsOf(Results, resp.calls, joined)

(* The counters of check_tool_dup against the rounds they stand for. *)
SameTool(i, n) == \A j \in i..n : Alone(j) /\ CallOf(i).name = CallOf(j).name
Thrice(i) == \A j \in i..i + 2 : Alone(j) /\ SameCall(CallOf(i), CallOf(j))
Unstuck ==
    \A i \in 1..Len(messages) :
       /\ ~(i + 2 <= Len(messages) /\ Thrice(i))
       /\ ~(i + RepeatMax <= Len(messages) /\ SameTool(i, i + RepeatMax))
Counters ==
    LET n == Len(messages) IN
    /\ run.dup \in Nat /\ run.repeats \in Nat /\ run.stuck \in BOOLEAN
    /\ run.sig = IF n > 0 /\ Alone(n) THEN messages[n].calls ELSE <<>>
    /\ n > 1 /\ Alone(n - 1) /\ Alone(n) /\ SameCall(CallOf(n - 1), CallOf(n)) => run.dup > 0
    /\ run.stuck = FALSE =>
          /\ Unstuck
          /\ \A i \in 1..n : SameTool(i, n) => run.repeats >= n - i
    /\ pc \in {"ask", "failover", "answered"} => run.stuck = FALSE

(* Between messages, and until the first call, there is no conversation. *)
Idle == {"top", "pop", "memory", "slash", "guard", "fast", "vision", "route", "lookup", "exit"}
Unasked == pc \in Idle => messages = <<>> /\ run.stuck = FALSE

(* Nothing grows beyond what a message, a round or a call may add: a       *)
(* message is one that arrived, and so is an image; a message loses one    *)
(* image at most, as its last step;                                        *)
Queue ==
    /\ msg \in Msg
    /\ msg.n + Len(inbound) <= arrived /\ images <= arrived
    /\ lost <= msg.n /\ (pc \notin {"top", "pop", "exit"} => lost < msg.n)

(* a status is pushed by the first round only;                             *)
Pushes ==
    /\ pc \in Idle \ {"top", "pop", "exit"} \/ (pc = "ask" /\ run.iter = 0) => out = <<>>
    /\ Len(out) <= IF pc \in {"top", "pop", "exit"} THEN 2 ELSE 1

(* each round adds one to the conversation, and a run that is not stuck is *)
(* below the limits of check_tool_dup;                                     *)
Lengths ==
    /\ run \in Run /\ toolOut \in Output /\ Len(messages) <= MaxIter
    /\ pc \in Idle => run.iter = 0
    /\ pc \in {"ask", "failover", "answered"} => Len(messages) = run.iter
    /\ pc \in {"failover", "answered", "tools", "join", "decide"} => run.iter < MaxIter
    /\ pc \in {"tools", "join", "decide"} => Len(messages) = run.iter + 1
    /\ run.stuck = FALSE => run.dup < 2 /\ run.repeats < RepeatMax

(* no more buffers are free than the pool was made with.                   *)
Limits == Queue /\ Pushes /\ Lengths /\ pool <= size

RoundInv == /\ Watched /\ TraceHonest /\ Tasks /\ BuffersAccounted
            /\ lost \in Nat /\ ImagesHeld /\ Conversation /\ Counters /\ Unasked

-----------------------------------------------------------------------------
(* One more push, of a reply, ends a message. *)
LEMMA PushReply ==
  ASSUME out \in Seq(Replies \cup {"status"}), NEW what \in Replies,
         Push(what), Answers1 = {}
  PROVE  out' \in Seq(Replies \cup {"status"}) /\ Answers1' = {Len(out')}
<1>1. PICK token \in Replies : out' = Append(out, token)
  <2>1. "dropped" \in Replies
    BY DEF Replies
  <2> QED
    BY <2>1 DEF Push
<1>2. token # "status"
  BY DEF Replies, Texts
<1>3. /\ Len(out') = Len(out) + 1 /\ Len(out) \in Nat
      /\ out'[Len(out) + 1] = token
      /\ \A i \in 1..Len(out) : out'[i] = out[i]
  BY <1>1
<1>4. \A i \in 1..Len(out') : out'[i] # "status" <=> i = Len(out')
  BY <1>2, <1>3 DEF Answers1
<1>5. Len(out') \in 1..Len(out')
  BY <1>3
<1> QED
  BY <1>1, <1>4, <1>5 DEF Answers1

(* A status is no reply. *)
LEMMA PushStatus ==
  ASSUME out \in Seq(Replies \cup {"status"}), Announce, Answers1 = {}
  PROVE  out' \in Seq(Replies \cup {"status"}) /\ Answers1' = {}
<1>1. CASE out' = Append(out, "status")
  <2>1. /\ Len(out') = Len(out) + 1 /\ Len(out) \in Nat
        /\ out'[Len(out) + 1] = "status"
        /\ \A i \in 1..Len(out) : out'[i] = out[i]
    BY <1>1
  <2>2. \A i \in 1..Len(out') : out'[i] = "status"
    BY <2>1 DEF Answers1
  <2> QED
    BY <1>1, <2>2 DEF Answers1
<1>2. CASE out' = out
  BY <1>2 DEF Answers1
<1> QED
  BY <1>1, <1>2 DEF Announce

LEMMA InitInv == Init => Inv
<1> SUFFICES ASSUME Init PROVE Inv
  OBVIOUS
<1>1. Shapes /\ Undecided
  BY DEF Init, Shapes, Undecided, FreshRun, NoMsg
<1>2. Credits /\ Outputs /\ FreshOutput
  BY DEF Init, Credits, Outputs, FreshOutput
<1>3. Kinded
  BY AgentAssumption DEF Init, Kinded, NoMsg
<1>4. Known /\ Pushed
  BY DEF Init, Known, Pushed, FreshRun, None
<1>5. OneReply
  BY DEF Init, OneReply, NoMsg
<1>6. Ranges
  BY AgentAssumption DEF Init, Ranges, FreshRun, NoOutput
<1> QED
  BY <1>1, <1>2, <1>3, <1>4, <1>5, <1>6 DEF Inv

(* The loop's records keep their fields. *)
LEMMA ShapesStep == Shapes /\ [Next]_vars => Shapes'
<1> SUFFICES ASSUME Shapes, [Next]_vars PROVE Shapes'
  OBVIOUS
<1> USE AgentAssumption DEF Shapes, conv, par, heap
<1>1. CASE Top \/ PopWoken \/ PopStopping \/ Hang
  BY <1>1 DEF Hang, Calling, Announce, WeakAnswer, Top, PopWoken, PopStopping, Leave
<1>2. CASE Pop
  BY <1>2 DEF Pop
<1>3. CASE CheckMemory
  BY <1>3 DEF CheckMemory, EarlyEnd, Onwards, AfterReply, Push
<1>4. CASE Slash
  BY <1>4 DEF Slash, EarlyEnd, Onwards, AfterReply, Push
<1>5. CASE Guard
  BY <1>5 DEF Guard, EarlyEnd, Onwards, AfterReply, Push
<1>6. CASE FastPath
  BY <1>6 DEF FastPath, EarlyEnd, Onwards, AfterReply, Push
<1>7. CASE Vision
  BY <1>7 DEF Vision, FreeImage
<1>8. CASE Route
  BY <1>8 DEF Route
<1>9. CASE Lookup
  BY <1>9 DEF Lookup
<1>10. CASE Ask
  BY <1>10 DEF Ask, Announce
<1>11. CASE Failover
  BY <1>11 DEF Failover
<1>12. CASE TimedOut \/ CallFailed
  BY <1>12 DEF TimedOut, CallFailed
<1>13. CASE Cascade
  BY <1>13 DEF Cascade, WeakAnswer
<1>14. CASE TakeText
  BY <1>14 DEF TakeText
<1>15. CASE StartTools
  BY <1>15 DEF StartTools, Counted
<1>16. CASE RunTool
  BY <1>16 DEF RunTool, AddResult
<1>17. CASE Join
  BY <1>17 DEF Join, Joining
<1>18. CASE JoinedAll \/ Stuck
  BY <1>18 DEF JoinedAll, Stuck
<1>19. CASE TakeOutput
  BY <1>19 DEF TakeOutput
<1>20. CASE Confirm
  BY <1>20 DEF Confirm
<1>21. CASE NextRound
  BY <1>21 DEF NextRound
<1>22. CASE ForceFinish
  BY <1>22 DEF ForceFinish
<1>23. CASE End
  BY <1>23 DEF End
<1>24. CASE Store
  BY <1>24 DEF Store
<1>25. CASE Dispatch
  BY <1>25 DEF Dispatch, FreeImage, AfterReply, Push, FreshRun
<1>26. CASE ThreadStep
  BY <1>26 DEF ThreadStep, ToolThread
<1>27. ASSUME NEW k \in Kinds, Arrive(k) PROVE Shapes'
  BY <1>27 DEF Arrive
<1>28. CASE MainStep
  BY <1>28 DEF MainStep
<1>29. CASE UNCHANGED vars
  BY <1>29 DEF vars, conv, par, heap
<1> QED
  BY <1>1, <1>2, <1>3, <1>4, <1>5, <1>6, <1>7, <1>8, <1>9, <1>10, <1>11, <1>12, <1>13, <1>14, <1>15, <1>16, <1>17, <1>18, <1>19, <1>20, <1>21, <1>22, <1>23, <1>24, <1>25, <1>26, <1>27, <1>28, <1>29 DEF Next, LoopStep

(* A reply is chosen by the steps that leave the rounds, and by no other. *)
LEMMA UndecidedStep == Shapes /\ Undecided /\ [Next]_vars => Undecided'
<1> SUFFICES ASSUME Shapes /\ Undecided, [Next]_vars PROVE Undecided'
  OBVIOUS
<1> USE AgentAssumption DEF Shapes, Undecided, conv, par, heap
<1>1. CASE Top \/ PopWoken \/ PopStopping \/ Hang
  BY <1>1 DEF Hang, Calling, Announce, WeakAnswer, Top, PopWoken, PopStopping, Leave
<1>2. CASE Pop
  BY <1>2 DEF Pop
<1>3. CASE CheckMemory
  BY <1>3 DEF CheckMemory, EarlyEnd, Onwards, AfterReply, Push
<1>4. CASE Slash
  BY <1>4 DEF Slash, EarlyEnd, Onwards, AfterReply, Push
<1>5. CASE Guard
  BY <1>5 DEF Guard, EarlyEnd, Onwards, AfterReply, Push
<1>6. CASE FastPath
  BY <1>6 DEF FastPath, EarlyEnd, Onwards, AfterReply, Push
<1>7. CASE Vision
  BY <1>7 DEF Vision, FreeImage
<1>8. CASE Route
  BY <1>8 DEF Route
<1>9. CASE Lookup
  BY <1>9 DEF Lookup
<1>10. CASE Ask
  BY <1>10 DEF Ask, Announce
<1>11. CASE Failover
  BY <1>11 DEF Failover
<1>12. CASE TimedOut \/ CallFailed
  BY <1>12 DEF TimedOut, CallFailed
<1>13. CASE Cascade
  BY <1>13 DEF Cascade, WeakAnswer
<1>14. CASE TakeText
  BY <1>14 DEF TakeText
<1>15. CASE StartTools
  BY <1>15 DEF StartTools, Counted
<1>16. CASE RunTool
  BY <1>16 DEF RunTool, AddResult
<1>17. CASE Join
  BY <1>17 DEF Join, Joining
<1>18. CASE JoinedAll \/ Stuck
  BY <1>18 DEF JoinedAll, Stuck
<1>19. CASE TakeOutput
  BY <1>19 DEF TakeOutput
<1>20. CASE Confirm
  BY <1>20 DEF Confirm
<1>21. CASE NextRound
  BY <1>21 DEF NextRound
<1>22. CASE ForceFinish
  BY <1>22 DEF ForceFinish
<1>23. CASE End
  BY <1>23 DEF End
<1>24. CASE Store
  BY <1>24 DEF Store
<1>25. CASE Dispatch
  BY <1>25 DEF Dispatch, FreeImage, AfterReply, Push, FreshRun
<1>26. CASE ThreadStep
  BY <1>26 DEF ThreadStep, ToolThread
<1>27. ASSUME NEW k \in Kinds, Arrive(k) PROVE Undecided'
  BY <1>27 DEF Arrive
<1>28. CASE MainStep
  BY <1>28 DEF MainStep
<1>29. CASE UNCHANGED vars
  BY <1>29 DEF vars, conv, par, heap
<1> QED
  BY <1>1, <1>2, <1>3, <1>4, <1>5, <1>6, <1>7, <1>8, <1>9, <1>10, <1>11, <1>12, <1>13, <1>14, <1>15, <1>16, <1>17, <1>18, <1>19, <1>20, <1>21, <1>22, <1>23, <1>24, <1>25, <1>26, <1>27, <1>28, <1>29 DEF Next, LoopStep

(* Every change of the backend applies it. *)
LEMMA CreditsStep == Shapes /\ Credits /\ [Next]_vars => Credits'
<1> SUFFICES ASSUME Shapes /\ Credits, [Next]_vars PROVE Credits'
  OBVIOUS
<1> USE AgentAssumption DEF Shapes, Credits, conv, par, heap
<1>1. CASE Top \/ PopWoken \/ PopStopping \/ Hang
  BY <1>1 DEF Hang, Calling, Announce, WeakAnswer, Top, PopWoken, PopStopping, Leave
<1>2. CASE Pop
  BY <1>2 DEF Pop
<1>3. CASE CheckMemory
  BY <1>3 DEF CheckMemory, EarlyEnd, Onwards, AfterReply, Push
<1>4. CASE Slash
  BY <1>4 DEF Slash, EarlyEnd, Onwards, AfterReply, Push
<1>5. CASE Guard
  BY <1>5 DEF Guard, EarlyEnd, Onwards, AfterReply, Push
<1>6. CASE FastPath
  BY <1>6 DEF FastPath, EarlyEnd, Onwards, AfterReply, Push
<1>7. CASE Vision
  BY <1>7 DEF Vision, FreeImage
<1>8. CASE Route
  BY <1>8 DEF Route
<1>9. CASE Lookup
  BY <1>9 DEF Lookup
<1>10. CASE Ask
  BY <1>10 DEF Ask, Announce
<1>11. CASE Failover
  BY <1>11 DEF Failover
<1>12. CASE TimedOut \/ CallFailed
  BY <1>12 DEF TimedOut, CallFailed
<1>13. CASE Cascade
  BY <1>13 DEF Cascade, WeakAnswer
<1>14. CASE TakeText
  BY <1>14 DEF TakeText
<1>15. CASE StartTools
  BY <1>15 DEF StartTools, Counted
<1>16. CASE RunTool
  BY <1>16 DEF RunTool, AddResult
<1>17. CASE Join
  BY <1>17 DEF Join, Joining
<1>18. CASE JoinedAll \/ Stuck
  BY <1>18 DEF JoinedAll, Stuck
<1>19. CASE TakeOutput
  BY <1>19 DEF TakeOutput
<1>20. CASE Confirm
  BY <1>20 DEF Confirm
<1>21. CASE NextRound
  BY <1>21 DEF NextRound
<1>22. CASE ForceFinish
  BY <1>22 DEF ForceFinish
<1>23. CASE End
  BY <1>23 DEF End
<1>24. CASE Store
  BY <1>24 DEF Store
<1>25. CASE Dispatch
  BY <1>25 DEF Dispatch, FreeImage, AfterReply, Push, FreshRun
<1>26. CASE ThreadStep
  BY <1>26 DEF ThreadStep, ToolThread
<1>27. ASSUME NEW k \in Kinds, Arrive(k) PROVE Credits'
  BY <1>27 DEF Arrive
<1>28. CASE MainStep
  BY <1>28 DEF MainStep
<1>29. CASE UNCHANGED vars
  BY <1>29 DEF vars, conv, par, heap
<1> QED
  BY <1>1, <1>2, <1>3, <1>4, <1>5, <1>6, <1>7, <1>8, <1>9, <1>10, <1>11, <1>12, <1>13, <1>14, <1>15, <1>16, <1>17, <1>18, <1>19, <1>20, <1>21, <1>22, <1>23, <1>24, <1>25, <1>26, <1>27, <1>28, <1>29 DEF Next, LoopStep

(* The output is written before the loop looks at it. *)
LEMMA OutputsStep == Shapes /\ Outputs /\ [Next]_vars => Outputs'
<1> SUFFICES ASSUME Shapes /\ Outputs, [Next]_vars PROVE Outputs'
  OBVIOUS
<1> USE AgentAssumption DEF Shapes, Outputs, conv, par, heap
<1>1. CASE Top \/ PopWoken \/ PopStopping \/ Hang
  BY <1>1 DEF Hang, Calling, Announce, WeakAnswer, Top, PopWoken, PopStopping, Leave
<1>2. CASE Pop
  BY <1>2 DEF Pop
<1>3. CASE CheckMemory
  BY <1>3 DEF CheckMemory, EarlyEnd, Onwards, AfterReply, Push
<1>4. CASE Slash
  BY <1>4 DEF Slash, EarlyEnd, Onwards, AfterReply, Push
<1>5. CASE Guard
  BY <1>5 DEF Guard, EarlyEnd, Onwards, AfterReply, Push
<1>6. CASE FastPath
  BY <1>6 DEF FastPath, EarlyEnd, Onwards, AfterReply, Push
<1>7. CASE Vision
  BY <1>7 DEF Vision, FreeImage
<1>8. CASE Route
  BY <1>8 DEF Route
<1>9. CASE Lookup
  BY <1>9 DEF Lookup
<1>10. CASE Ask
  BY <1>10 DEF Ask, Announce
<1>11. CASE Failover
  BY <1>11 DEF Failover
<1>12. CASE TimedOut \/ CallFailed
  BY <1>12 DEF TimedOut, CallFailed
<1>13. CASE Cascade
  BY <1>13 DEF Cascade, WeakAnswer
<1>14. CASE TakeText
  BY <1>14 DEF TakeText
<1>15. CASE StartTools
  BY <1>15 DEF StartTools, Counted
<1>16. CASE RunTool
  BY <1>16 DEF RunTool, AddResult
<1>17. CASE Join
  BY <1>17 DEF Join, Joining
<1>18. CASE JoinedAll \/ Stuck
  BY <1>18 DEF JoinedAll, Stuck
<1>19. CASE TakeOutput
  BY <1>19 DEF TakeOutput
<1>20. CASE Confirm
  BY <1>20 DEF Confirm
<1>21. CASE NextRound
  BY <1>21 DEF NextRound
<1>22. CASE ForceFinish
  BY <1>22 DEF ForceFinish
<1>23. CASE End
  BY <1>23 DEF End
<1>24. CASE Store
  BY <1>24 DEF Store
<1>25. CASE Dispatch
  BY <1>25 DEF Dispatch, FreeImage, AfterReply, Push, FreshRun
<1>26. CASE ThreadStep
  BY <1>26 DEF ThreadStep, ToolThread
<1>27. ASSUME NEW k \in Kinds, Arrive(k) PROVE Outputs'
  BY <1>27 DEF Arrive
<1>28. CASE MainStep
  BY <1>28 DEF MainStep
<1>29. CASE UNCHANGED vars
  BY <1>29 DEF vars, conv, par, heap
<1> QED
  BY <1>1, <1>2, <1>3, <1>4, <1>5, <1>6, <1>7, <1>8, <1>9, <1>10, <1>11, <1>12, <1>13, <1>14, <1>15, <1>16, <1>17, <1>18, <1>19, <1>20, <1>21, <1>22, <1>23, <1>24, <1>25, <1>26, <1>27, <1>28, <1>29 DEF Next, LoopStep

(* The output is taken in the round that wrote it. *)
LEMMA FreshStep == Shapes /\ Undecided /\ Outputs /\ FreshOutput /\ [Next]_vars => FreshOutput'
<1> SUFFICES ASSUME Shapes /\ Undecided /\ Outputs /\ FreshOutput, [Next]_vars PROVE FreshOutput'
  OBVIOUS
<1> USE AgentAssumption DEF Shapes, Undecided, Outputs, FreshOutput, conv, par, heap
<1>1. CASE Top \/ PopWoken \/ PopStopping \/ Hang
  BY <1>1 DEF Hang, Calling, Announce, WeakAnswer, Top, PopWoken, PopStopping, Leave
<1>2. CASE Pop
  BY <1>2 DEF Pop
<1>3. CASE CheckMemory
  BY <1>3 DEF CheckMemory, EarlyEnd, Onwards, AfterReply, Push
<1>4. CASE Slash
  BY <1>4 DEF Slash, EarlyEnd, Onwards, AfterReply, Push
<1>5. CASE Guard
  BY <1>5 DEF Guard, EarlyEnd, Onwards, AfterReply, Push
<1>6. CASE FastPath
  BY <1>6 DEF FastPath, EarlyEnd, Onwards, AfterReply, Push
<1>7. CASE Vision
  BY <1>7 DEF Vision, FreeImage
<1>8. CASE Route
  BY <1>8 DEF Route
<1>9. CASE Lookup
  BY <1>9 DEF Lookup
<1>10. CASE Ask
  BY <1>10 DEF Ask, Announce
<1>11. CASE Failover
  BY <1>11 DEF Failover
<1>12. CASE TimedOut \/ CallFailed
  BY <1>12 DEF TimedOut, CallFailed, None
<1>13. CASE Cascade
  BY <1>13 DEF Cascade, WeakAnswer, None
<1>14. CASE TakeText
  BY <1>14 DEF TakeText, None
<1>15. CASE StartTools
  BY <1>15 DEF StartTools, Counted
<1>16. CASE RunTool
  BY <1>16 DEF RunTool, AddResult
<1>17. CASE Join
  BY <1>17 DEF Join, Joining
<1>18. CASE JoinedAll \/ Stuck
  BY <1>18 DEF JoinedAll, Stuck, None
<1>19. CASE TakeOutput
  BY <1>19 DEF TakeOutput, Shortcut
<1>20. CASE Confirm
  BY <1>20 DEF Confirm, Complete, None
<1>21. CASE NextRound
  BY <1>21 DEF NextRound
<1>22. CASE ForceFinish
  BY <1>22 DEF ForceFinish
<1>23. CASE End
  BY <1>23 DEF End
<1>24. CASE Store
  BY <1>24 DEF Store
<1>25. CASE Dispatch
  BY <1>25 DEF Dispatch, FreeImage, AfterReply, Push, FreshRun
<1>26. CASE ThreadStep
  BY <1>26 DEF ThreadStep, ToolThread
<1>27. ASSUME NEW k \in Kinds, Arrive(k) PROVE FreshOutput'
  BY <1>27 DEF Arrive
<1>28. CASE MainStep
  BY <1>28 DEF MainStep
<1>29. CASE UNCHANGED vars
  BY <1>29 DEF vars, conv, par, heap
<1> QED
  BY <1>1, <1>2, <1>3, <1>4, <1>5, <1>6, <1>7, <1>8, <1>9, <1>10, <1>11, <1>12, <1>13, <1>14, <1>15, <1>16, <1>17, <1>18, <1>19, <1>20, <1>21, <1>22, <1>23, <1>24, <1>25, <1>26, <1>27, <1>28, <1>29 DEF Next, LoopStep

(* Messages keep their kind. *)
LEMMA KindedStep == Shapes /\ Kinded /\ [Next]_vars => Kinded'
<1> SUFFICES ASSUME Shapes /\ Kinded, [Next]_vars PROVE Kinded'
  OBVIOUS
<1> USE AgentAssumption DEF Shapes, Kinded, conv, par, heap
<1>0. CASE Hang
  BY <1>0 DEF Hang
<1>1. CASE Top \/ PopWoken
  BY <1>1 DEF Top, PopWoken
<1>30. CASE PopStopping
  <2>1. inbound' = Tail(inbound) /\ inbound # <<>> /\ msg' = msg
    BY <1>30 DEF PopStopping
  <2> QED
    BY <2>1, HeadTailProperties
<1>2. CASE Pop
  BY <1>2, HeadTailProperties DEF Pop
<1>3. CASE CheckMemory
  BY <1>3 DEF CheckMemory, EarlyEnd, Onwards, AfterReply, Push
<1>4. CASE Slash
  BY <1>4 DEF Slash, EarlyEnd, Onwards, AfterReply, Push
<1>5. CASE Guard
  BY <1>5 DEF Guard, EarlyEnd, Onwards, AfterReply, Push
<1>6. CASE FastPath
  BY <1>6 DEF FastPath, EarlyEnd, Onwards, AfterReply, Push
<1>7. CASE Vision
  BY <1>7 DEF Vision, FreeImage
<1>8. CASE Route
  BY <1>8 DEF Route
<1>9. CASE Lookup
  BY <1>9 DEF Lookup
<1>10. CASE Ask
  BY <1>10 DEF Ask, Announce
<1>11. CASE Failover
  BY <1>11 DEF Failover
<1>12. CASE TimedOut \/ CallFailed
  BY <1>12 DEF TimedOut, CallFailed
<1>13. CASE Cascade
  BY <1>13 DEF Cascade, WeakAnswer
<1>14. CASE TakeText
  BY <1>14 DEF TakeText
<1>15. CASE StartTools
  BY <1>15 DEF StartTools, Counted
<1>16. CASE RunTool
  BY <1>16 DEF RunTool, AddResult
<1>17. CASE Join
  BY <1>17 DEF Join, Joining
<1>18. CASE JoinedAll \/ Stuck
  BY <1>18 DEF JoinedAll, Stuck
<1>19. CASE TakeOutput
  BY <1>19 DEF TakeOutput
<1>20. CASE Confirm
  BY <1>20 DEF Confirm
<1>21. CASE NextRound
  BY <1>21 DEF NextRound
<1>22. CASE ForceFinish
  BY <1>22 DEF ForceFinish
<1>23. CASE End
  BY <1>23 DEF End
<1>24. CASE Store
  BY <1>24 DEF Store
<1>25. CASE Dispatch
  BY <1>25 DEF Dispatch, FreeImage, AfterReply, Push, FreshRun
<1>26. CASE ThreadStep
  BY <1>26 DEF ThreadStep, ToolThread
<1>27. ASSUME NEW k \in Kinds, Arrive(k) PROVE Kinded'
  BY <1>27 DEF Arrive
<1>28. CASE MainStep
  BY <1>28 DEF MainStep
<1>29. CASE UNCHANGED vars
  BY <1>29 DEF vars, conv, par, heap
<1> QED
  BY <1>0, <1>1, <1>2, <1>3, <1>4, <1>5, <1>6, <1>7, <1>8, <1>9, <1>10, <1>11, <1>12, <1>13, <1>14, <1>15, <1>16, <1>17, <1>18, <1>19, <1>20, <1>21, <1>22, <1>23, <1>24, <1>25, <1>26, <1>27, <1>28, <1>29, <1>30 DEF Next, LoopStep

(* The texts of replies are those the code writes. *)
LEMMA KnownStep == Shapes /\ Kinded /\ Known /\ [Next]_vars => Known'
<1> SUFFICES ASSUME Shapes /\ Kinded /\ Known, [Next]_vars PROVE Known'
  OBVIOUS
<1> USE AgentAssumption DEF Shapes, Kinded, Known, conv, par, heap
<1>1. CASE Top \/ PopWoken \/ PopStopping \/ Hang
  BY <1>1 DEF Hang, Calling, Announce, WeakAnswer, Top, PopWoken, PopStopping, Leave
<1>2. CASE Pop
  BY <1>2 DEF Pop
<1>3. CASE CheckMemory
  BY <1>3 DEF CheckMemory, EarlyEnd, Onwards, AfterReply, Push
<1>4. CASE Slash
  BY <1>4 DEF Slash, EarlyEnd, Onwards, AfterReply, Push
<1>5. CASE Guard
  BY <1>5 DEF Guard, EarlyEnd, Onwards, AfterReply, Push
<1>6. CASE FastPath
  BY <1>6 DEF FastPath, EarlyEnd, Onwards, AfterReply, Push
<1>7. CASE Vision
  BY <1>7 DEF Vision, FreeImage, Texts, None
<1>8. CASE Route
  BY <1>8 DEF Route
<1>9. CASE Lookup
  <2>1. msg.kind.query \in Queries
    BY DEF Queries
  <2>2. Cached \in Texts \cup {None}
    BY <2>1 DEF Cached
  <2> HIDE DEF Cached
  <2> QED
    BY <1>9, <2>2 DEF Lookup
<1>10. CASE Ask
  BY <1>10 DEF Ask, Announce
<1>11. CASE Failover
  BY <1>11 DEF Failover
<1>12. CASE TimedOut \/ CallFailed
  <2>1. CASE TimedOut
    <3>1. run'.final = "timeout" /\ cache' = cache
      BY <2>1 DEF TimedOut
    <3> QED
      BY <3>1 DEF Texts
  <2>2. CASE CallFailed
    BY <2>2 DEF CallFailed
  <2> QED
    BY <1>12, <2>1, <2>2
<1>13. CASE Cascade
  BY <1>13 DEF Cascade, WeakAnswer, Texts, None
<1>14. CASE TakeText
  BY <1>14 DEF TakeText, Texts, None
<1>15. CASE StartTools
  BY <1>15 DEF StartTools, Counted
<1>16. CASE RunTool
  BY <1>16 DEF RunTool, AddResult
<1>17. CASE Join
  BY <1>17 DEF Join, Joining
<1>18. CASE JoinedAll \/ Stuck
  BY <1>18 DEF JoinedAll, Stuck
<1>19. CASE TakeOutput
  BY <1>19 DEF TakeOutput, Texts, None
<1>20. CASE Confirm
  BY <1>20 DEF Confirm, Texts, None
<1>21. CASE NextRound
  BY <1>21 DEF NextRound
<1>22. CASE ForceFinish
  BY <1>22 DEF ForceFinish, Texts, None
<1>23. CASE End
  BY <1>23 DEF End
<1>24. CASE Store
  <2>1. run' = run /\ DOMAIN cache' = Queries
    BY <1>24 DEF Store
  <2>2. ASSUME NEW q \in Queries PROVE cache'[q] \in Texts \cup {None}
    BY <1>24 DEF Store
  <2> QED
    BY <2>1, <2>2
<1>25. CASE Dispatch
  BY <1>25 DEF Dispatch, FreeImage, AfterReply, Push, FreshRun, None
<1>26. CASE ThreadStep
  BY <1>26 DEF ThreadStep, ToolThread
<1>27. ASSUME NEW k \in Kinds, Arrive(k) PROVE Known'
  BY <1>27 DEF Arrive
<1>28. CASE MainStep
  BY <1>28 DEF MainStep
<1>29. CASE UNCHANGED vars
  BY <1>29 DEF vars, conv, par, heap
<1> QED
  BY <1>1, <1>2, <1>3, <1>4, <1>5, <1>6, <1>7, <1>8, <1>9, <1>10, <1>11, <1>12, <1>13, <1>14, <1>15, <1>16, <1>17, <1>18, <1>19, <1>20, <1>21, <1>22, <1>23, <1>24, <1>25, <1>26, <1>27, <1>28, <1>29 DEF Next, LoopStep

(* Only the steps that end a message push its reply. *)
LEMMA ReplyStep == Shapes /\ Known /\ Pushed /\ OneReply /\ [Next]_vars => Pushed' /\ OneReply'
<1> SUFFICES ASSUME Shapes /\ Known /\ Pushed /\ OneReply, [Next]_vars PROVE Pushed' /\ OneReply'
  OBVIOUS
<1> USE AgentAssumption DEF Shapes, Pushed, OneReply, conv, par, heap
<1>0. CASE Hang
  <2>1. Answers1 = {} /\ pc' = "hung"
    BY <1>0 DEF Hang, Calling, WeakAnswer
  <2>2. CASE Announce
    BY <2>1, <2>2, PushStatus
  <2>3. CASE out' = out
    BY <2>1, <2>3 DEF Answers1
  <2> QED
    BY <1>0, <2>2, <2>3 DEF Hang
<1>1. CASE Top \/ PopWoken \/ PopStopping
  BY <1>1 DEF Top, PopWoken, PopStopping, Leave, Answers1
<1>2. CASE Pop
  <2>1. out' = <<>> /\ pc' = "memory"
    BY <1>2 DEF Pop
  <2> QED
    BY <2>1 DEF Answers1
<1>3. CASE CheckMemory
  <2>1. Answers1 = {}
    BY <1>3 DEF CheckMemory
  <2>2. CASE Push("lowMemory") /\ pc' = "top"
    <3>1. "lowMemory" \in Replies
      BY DEF Replies
    <3> QED
      BY <2>1, <2>2, <3>1, PushReply
  <2>3. CASE out' = out /\ pc' = "slash"
    BY <1>3, <2>3 DEF CheckMemory, EarlyEnd, AfterReply, Onwards, Answers1
  <2> QED
    BY <1>3, <2>2, <2>3 DEF CheckMemory, EarlyEnd, Onwards, AfterReply
<1>4. CASE Slash
  <2>1. Answers1 = {}
    BY <1>4 DEF Slash
  <2>2. CASE Push("slash") /\ pc' = "top"
    <3>1. "slash" \in Replies
      BY DEF Replies
    <3> QED
      BY <2>1, <2>2, <3>1, PushReply
  <2>3. CASE out' = out /\ pc' = "guard"
    BY <1>4, <2>3 DEF Slash, EarlyEnd, AfterReply, Onwards, Answers1
  <2> QED
    BY <1>4, <2>2, <2>3 DEF Slash, EarlyEnd, Onwards, AfterReply
<1>5. CASE Guard
  <2>1. Answers1 = {}
    BY <1>5 DEF Guard
  <2>2. CASE Push("refused") /\ pc' = "top"
    <3>1. "refused" \in Replies
      BY DEF Replies
    <3> QED
      BY <2>1, <2>2, <3>1, PushReply
  <2>3. CASE out' = out /\ pc' = "fast"
    BY <1>5, <2>3 DEF Guard, EarlyEnd, AfterReply, Onwards, Answers1
  <2> QED
    BY <1>5, <2>2, <2>3 DEF Guard, EarlyEnd, Onwards, AfterReply
<1>6. CASE FastPath
  <2>1. Answers1 = {}
    BY <1>6 DEF FastPath
  <2>2. CASE Push("fast") /\ pc' = "top"
    <3>1. "fast" \in Replies
      BY DEF Replies
    <3> QED
      BY <2>1, <2>2, <3>1, PushReply
  <2>3. CASE out' = out /\ pc' = "vision"
    BY <1>6, <2>3 DEF FastPath, EarlyEnd, AfterReply, Onwards, Answers1
  <2> QED
    BY <1>6, <2>2, <2>3 DEF FastPath, EarlyEnd, Onwards, AfterReply
<1>7. CASE Vision
  BY <1>7 DEF Vision, FreeImage, Answers1
<1>8. CASE Route
  BY <1>8 DEF Route, Answers1
<1>9. CASE Lookup
  BY <1>9 DEF Lookup, Answers1
<1>10. CASE Ask
  <2>1. Answers1 = {} /\ pc' \in {"failover", "answered"}
    BY <1>10 DEF Ask
  <2>2. Announce
    BY <1>10 DEF Ask
  <2> QED
    BY <2>1, <2>2, PushStatus
<1>11. CASE Failover
  BY <1>11 DEF Failover, Answers1
<1>12. CASE TimedOut \/ CallFailed
  BY <1>12 DEF TimedOut, CallFailed, Answers1
<1>13. CASE Cascade
  BY <1>13 DEF Cascade, WeakAnswer, Answers1
<1>14. CASE TakeText
  BY <1>14 DEF TakeText, Answers1
<1>15. CASE StartTools
  BY <1>15 DEF StartTools, Counted, Answers1
<1>16. CASE RunTool
  BY <1>16 DEF RunTool, AddResult, Answers1
<1>17. CASE Join
  BY <1>17 DEF Join, Joining, Answers1
<1>18. CASE JoinedAll \/ Stuck
  BY <1>18 DEF JoinedAll, Stuck, Answers1
<1>19. CASE TakeOutput
  BY <1>19 DEF TakeOutput, Answers1
<1>20. CASE Confirm
  BY <1>20 DEF Confirm, Answers1
<1>21. CASE NextRound
  BY <1>21 DEF NextRound, Answers1
<1>22. CASE ForceFinish
  BY <1>22 DEF ForceFinish, Answers1
<1>23. CASE End
  BY <1>23 DEF End, Answers1
<1>24. CASE Store
  BY <1>24 DEF Store, Answers1
<1>25. CASE Dispatch
  <2> DEFINE what == IF run.final # None THEN run.final ELSE "error"
  <2>1. what \in Replies
    BY DEF Known, Replies
  <2>2. Answers1 = {} /\ Push(what) /\ pc' = "top"
    BY <1>25 DEF Dispatch, AfterReply
  <2> HIDE DEF what
  <2> QED
    BY <2>1, <2>2, PushReply
<1>26. CASE ThreadStep
  BY <1>26 DEF ThreadStep, ToolThread, Answers1
<1>27. ASSUME NEW k \in Kinds, Arrive(k) PROVE Pushed' /\ OneReply'
  BY <1>27 DEF Arrive, Answers1
<1>28. CASE MainStep
  BY <1>28 DEF MainStep, Answers1
<1>29. CASE UNCHANGED vars
  BY <1>29 DEF vars, conv, par, Answers1
<1> QED
  BY <1>0, <1>1, <1>2, <1>3, <1>4, <1>5, <1>6, <1>7, <1>8, <1>9, <1>10, <1>11, <1>12, <1>13, <1>14, <1>15, <1>16, <1>17, <1>18, <1>19, <1>20, <1>21, <1>22, <1>23, <1>24, <1>25, <1>26, <1>27, <1>28, <1>29 DEF Next, LoopStep

(* Every step stays within the ranges. *)
LEMMA RangesStep == Shapes /\ Kinded /\ Known /\ Ranges /\ [Next]_vars => Ranges'
<1> SUFFICES ASSUME Shapes /\ Kinded /\ Known /\ Ranges, [Next]_vars PROVE Ranges'
  OBVIOUS
<1> USE AgentAssumption DEF Shapes, Ranges, conv, par, heap
<1>1. CASE Top \/ PopWoken \/ PopStopping \/ Hang
  BY <1>1 DEF Hang, Calling, Announce, WeakAnswer, Top, PopWoken, PopStopping, Leave
<1>2. CASE Pop
  BY <1>2 DEF Pop
<1>3. CASE CheckMemory
  BY <1>3 DEF CheckMemory, EarlyEnd, Onwards, AfterReply, Push
<1>4. CASE Slash
  BY <1>4 DEF Slash, EarlyEnd, Onwards, AfterReply, Push
<1>5. CASE Guard
  BY <1>5 DEF Guard, EarlyEnd, Onwards, AfterReply, Push
<1>6. CASE FastPath
  BY <1>6 DEF FastPath, EarlyEnd, Onwards, AfterReply, Push
<1>7. CASE Vision
  BY <1>7 DEF Vision, FreeImage
<1>8. CASE Route
  BY <1>8 DEF Route
<1>9. CASE Lookup
  BY <1>9 DEF Lookup
<1>10. CASE Ask
  BY <1>10 DEF Ask, Announce
<1>11. CASE Failover
  BY <1>11 DEF Failover
<1>12. CASE TimedOut \/ CallFailed
  BY <1>12 DEF TimedOut, CallFailed
<1>13. CASE Cascade
  BY <1>13 DEF Cascade, WeakAnswer
<1>14. CASE TakeText
  BY <1>14 DEF TakeText
<1>15. CASE StartTools
  BY <1>15 DEF StartTools, Counted
<1>16. CASE RunTool
  BY <1>16 DEF RunTool, AddResult
<1>17. CASE Join
  BY <1>17 DEF Join, Joining
<1>18. CASE JoinedAll \/ Stuck
  BY <1>18 DEF JoinedAll, Stuck
<1>19. CASE TakeOutput
  BY <1>19 DEF TakeOutput
<1>20. CASE Confirm
  BY <1>20 DEF Confirm
<1>21. CASE NextRound
  BY <1>21 DEF NextRound
<1>22. CASE ForceFinish
  BY <1>22 DEF ForceFinish
<1>23. CASE End
  BY <1>23 DEF End
<1>24. CASE Store
  <2>1. cache' \in [Queries -> Texts \cup {None}]
    BY <1>24 DEF Store, Kinded, Known, Queries
  <2> QED
    BY <1>24, <2>1 DEF Store
<1>25. CASE Dispatch
  BY <1>25 DEF Dispatch, FreeImage, AfterReply, Push, FreshRun
<1>26. CASE ThreadStep
  BY <1>26 DEF ThreadStep, ToolThread
<1>27. ASSUME NEW k \in Kinds, Arrive(k) PROVE Ranges'
  BY <1>27 DEF Arrive
<1>28. CASE MainStep
  BY <1>28 DEF MainStep
<1>29. CASE UNCHANGED vars
  BY <1>29 DEF vars, conv, par, heap
<1> QED
  BY <1>1, <1>2, <1>3, <1>4, <1>5, <1>6, <1>7, <1>8, <1>9, <1>10, <1>11, <1>12, <1>13, <1>14, <1>15, <1>16, <1>17, <1>18, <1>19, <1>20, <1>21, <1>22, <1>23, <1>24, <1>25, <1>26, <1>27, <1>28, <1>29 DEF Next, LoopStep

LEMMA InductiveInv == Spec => []Inv
<1>1. Inv /\ [Next]_vars => Inv'
  <2> SUFFICES ASSUME Inv, [Next]_vars PROVE Inv'
    OBVIOUS
  <2>1. Shapes /\ Undecided /\ Credits /\ Outputs /\ FreshOutput
    BY DEF Inv
  <2>2. Kinded /\ Known /\ Pushed /\ OneReply
    BY DEF Inv
  <2>3. Shapes' /\ Undecided' /\ Credits' /\ Outputs' /\ FreshOutput'
    BY <2>1, ShapesStep, UndecidedStep, CreditsStep, OutputsStep, FreshStep
  <2>4. Kinded' /\ Known' /\ Pushed' /\ OneReply'
    BY <2>1, <2>2, KindedStep, KnownStep, ReplyStep
  <2>5. Ranges'
    BY <2>1, <2>2, RangesStep DEF Inv
  <2> QED
    BY <2>3, <2>4, <2>5 DEF Inv
<1> QED
  BY InitInv, <1>1, PTL DEF Spec

(* One reply is tried for each message, as the last thing the loop does    *)
(* for it; what the outbound bus refuses is not tried again.               *)
THEOREM RepliesOnce == Spec => []OneReply
<1>1. Inv => OneReply
  BY DEF Inv
<1> QED
  BY InductiveInv, <1>1, PTL

(* The loop's calls go to the backend it credits and blames. *)
THEOREM CreditsAreRight == Spec => []CreditsRight
<1>1. Inv => CreditsRight
  BY DEF Inv, Credits, CreditsRight
<1> QED
  BY InductiveInv, <1>1, PTL

(* No reply is made from the tool output of another round or message. *)
THEOREM OutputIsFresh == Spec => []FreshOutput
<1>1. Inv => FreshOutput
  BY DEF Inv
<1> QED
  BY InductiveInv, <1>1, PTL

-----------------------------------------------------------------------------
(* The rounds of tools: what they leave in the conversation, the counters, *)
(* the pool and the trace.                                                 *)

\* What the other steps leave alone.
Elsewhere ==
    /\ messages' = messages /\ joined' = joined
    /\ \/ task' = task
       \/ pc' = pc /\ \E i \in 1..Len(task), at \in {"ran", "hung"} :
                          task' = [task EXCEPT ![i].at = at]
    /\ \/ pool' = pool /\ size' = size
       \/ pc' = "exit" /\ pool' = 0
    /\ run'.sig = run.sig /\ run'.dup = run.dup
    /\ run'.repeats = run.repeats /\ run'.stuck = run.stuck
    /\ pc = "tools" => (pc' = pc /\ resp' = resp) \/ pc' = "hung"
    /\ pc = "join" => pc' = pc /\ resp' = resp
    /\ pc' \in {"tools", "join", "decide"} => pc' = pc
    /\ pc' \in {"ask", "failover", "answered"} => pc \in Idle \cup {"ask", "failover", "answered"}
    /\ pc' \in Idle => pc \in Idle
    /\ pc = "exit" => pc' = "exit"
    /\ pc = "hung" => pc' = "hung"

LEMMA ElsewhereStep ==
  ASSUME Shapes, [Next]_vars,
         ~(StartTools \/ RunTool \/ Join \/ JoinedAll \/ NextRound \/ Dispatch)
  PROVE  Elsewhere
<1> USE DEF Shapes, Elsewhere, Idle, conv, par, heap
<1>1. CASE Top \/ PopWoken \/ PopStopping \/ Hang
  BY <1>1 DEF Hang, Calling, Announce, WeakAnswer, Top, PopWoken, PopStopping, Leave
<1>2. CASE Pop
  BY <1>2 DEF Pop
<1>3. CASE CheckMemory
  BY <1>3 DEF CheckMemory, EarlyEnd, Onwards, AfterReply, Push
<1>4. CASE Slash
  BY <1>4 DEF Slash, EarlyEnd, Onwards, AfterReply, Push
<1>5. CASE Guard
  BY <1>5 DEF Guard, EarlyEnd, Onwards, AfterReply, Push
<1>6. CASE FastPath
  BY <1>6 DEF FastPath, EarlyEnd, Onwards, AfterReply, Push
<1>7. CASE Vision
  BY <1>7 DEF Vision, FreeImage
<1>8. CASE Route
  BY <1>8 DEF Route
<1>9. CASE Lookup
  BY <1>9 DEF Lookup
<1>10. CASE Ask
  BY <1>10 DEF Ask, Announce
<1>11. CASE Failover
  BY <1>11 DEF Failover
<1>12. CASE TimedOut \/ CallFailed \/ Stuck
  BY <1>12 DEF TimedOut, CallFailed, Stuck
<1>13. CASE Cascade
  BY <1>13 DEF Cascade, WeakAnswer
<1>14. CASE TakeText
  BY <1>14 DEF TakeText
<1>15. CASE TakeOutput
  BY <1>15 DEF TakeOutput
<1>16. CASE Confirm
  BY <1>16 DEF Confirm
<1>17. CASE ForceFinish
  BY <1>17 DEF ForceFinish
<1>18. CASE End
  BY <1>18 DEF End
<1>19. CASE Store
  BY <1>19 DEF Store
<1>20. CASE ThreadStep
  BY <1>20 DEF ThreadStep, ToolThread
<1>21. ASSUME NEW k \in Kinds, Arrive(k) PROVE Elsewhere
  BY <1>21 DEF Arrive
<1>22. CASE MainStep
  BY <1>22 DEF MainStep
<1>23. CASE UNCHANGED vars
  BY <1>23 DEF vars
<1> QED
  BY <1>1, <1>2, <1>3, <1>4, <1>5, <1>6, <1>7, <1>8, <1>9, <1>10, <1>11, <1>12, <1>13, <1>14, <1>15, <1>16, <1>17, <1>18, <1>19, <1>20, <1>21, <1>22, <1>23 DEF Next, LoopStep

(* The trace is written where a run ends, by what the reply came from. *)
LEMMA TraceStep ==
  Shapes /\ Undecided /\ Watched /\ TraceHonest /\ [Next]_vars => Watched' /\ TraceHonest'
<1> SUFFICES ASSUME Shapes /\ Undecided /\ Watched /\ TraceHonest, [Next]_vars
             PROVE  Watched' /\ TraceHonest'
  OBVIOUS
<1> USE DEF Shapes, Undecided, Watched, TraceHonest, conv, par, heap
<1>1. CASE Top \/ PopWoken \/ PopStopping \/ Hang
  BY <1>1 DEF Hang, Calling, Announce, WeakAnswer, Top, PopWoken, PopStopping, Leave
<1>2. CASE Pop
  BY <1>2 DEF Pop
<1>3. CASE CheckMemory
  BY <1>3 DEF CheckMemory, EarlyEnd, Onwards, AfterReply, Push
<1>4. CASE Slash
  BY <1>4 DEF Slash, EarlyEnd, Onwards, AfterReply, Push
<1>5. CASE Guard
  BY <1>5 DEF Guard, EarlyEnd, Onwards, AfterReply, Push
<1>6. CASE FastPath
  BY <1>6 DEF FastPath, EarlyEnd, Onwards, AfterReply, Push
<1>7. CASE Vision
  BY <1>7 DEF Vision, FreeImage
<1>8. CASE Route
  BY <1>8 DEF Route
<1>9. CASE Lookup
  BY <1>9 DEF Lookup
<1>10. CASE Ask
  BY <1>10 DEF Ask, Announce
<1>11. CASE Failover
  BY <1>11 DEF Failover
<1>12. CASE TimedOut
  BY <1>12 DEF TimedOut
<1>13. CASE CallFailed \/ Stuck
  BY <1>13 DEF CallFailed, Stuck, None
<1>14. CASE Cascade
  BY <1>14 DEF Cascade, WeakAnswer
<1>15. CASE TakeText
  BY <1>15 DEF TakeText, None
<1>16. CASE StartTools
  BY <1>16 DEF StartTools
<1>17. CASE RunTool
  BY <1>17 DEF RunTool
<1>18. CASE Join \/ JoinedAll
  BY <1>18 DEF Join, Joining, JoinedAll
<1>19. CASE TakeOutput
  BY <1>19 DEF TakeOutput
<1>20. CASE Confirm
  BY <1>20 DEF Confirm, None
<1>21. CASE NextRound
  BY <1>21 DEF NextRound
<1>22. CASE ForceFinish
  BY <1>22 DEF ForceFinish
<1>23. CASE End
  BY <1>23 DEF End
<1>24. CASE Store
  BY <1>24 DEF Store
<1>25. CASE Dispatch
  BY <1>25 DEF Dispatch, AfterReply
<1>26. CASE ThreadStep
  BY <1>26 DEF ThreadStep, ToolThread
<1>27. ASSUME NEW k \in Kinds, Arrive(k) PROVE Watched' /\ TraceHonest'
  BY <1>27 DEF Arrive
<1>28. CASE MainStep
  BY <1>28 DEF MainStep
<1>29. CASE UNCHANGED vars
  BY <1>29 DEF vars
<1> QED
  BY <1>1, <1>2, <1>3, <1>4, <1>5, <1>6, <1>7, <1>8, <1>9, <1>10, <1>11, <1>12, <1>13, <1>14, <1>15, <1>16, <1>17, <1>18, <1>19, <1>20, <1>21, <1>22, <1>23, <1>24, <1>25, <1>26, <1>27, <1>28, <1>29 DEF Next, LoopStep

(* A response with calls has a round of them. *)
LEMMA CallsOfResponse ==
  ASSUME resp \in Responses \cup {NoResponse}, resp.ok, resp.use
  PROVE  resp.calls \in Rounds /\ resp.calls \in Seq(Calls)
<1>1. CASE resp \in Answers({TRUE}, {FALSE}, {TRUE}, {None, "full"}, Rounds)
  BY <1>1, AgentAssumption DEF Answers
<1>2. CASE resp \in Answers({FALSE}, BOOLEAN, {FALSE}, {None}, {<<>>})
  BY <1>2 DEF Answers
<1>3. CASE resp \in Answers({TRUE}, {TRUE}, {FALSE}, {"full"}, {<<>>})
  BY <1>3 DEF Answers
<1>4. CASE resp \in Answers({TRUE}, {FALSE}, {FALSE}, {None, "weak", "full"}, {<<>>})
  BY <1>4 DEF Answers
<1>5. CASE resp = NoResponse
  BY <1>5 DEF NoResponse
<1> QED
  BY <1>1, <1>2, <1>3, <1>4, <1>5 DEF Responses

(* No response has more calls than there are places for. *)
LEMMA LenOfResponse ==
  ASSUME resp \in Responses \cup {NoResponse}
  PROVE  Len(resp.calls) <= MaxCalls
<1>1. resp.calls \in Rounds \cup {<<>>}
  <2>1. CASE resp \in Answers({TRUE}, {FALSE}, {TRUE}, {None, "full"}, Rounds)
    BY <2>1 DEF Answers
  <2>2. CASE resp \in Answers({FALSE}, BOOLEAN, {FALSE}, {None}, {<<>>})
    BY <2>2 DEF Answers
  <2>3. CASE resp \in Answers({TRUE}, {TRUE}, {FALSE}, {"full"}, {<<>>})
    BY <2>3 DEF Answers
  <2>4. CASE resp \in Answers({TRUE}, {FALSE}, {FALSE}, {None, "weak", "full"}, {<<>>})
    BY <2>4 DEF Answers
  <2>5. CASE resp = NoResponse
    BY <2>5 DEF NoResponse
  <2> QED
    BY <2>1, <2>2, <2>3, <2>4, <2>5 DEF Responses
<1> QED
  BY <1>1, AgentAssumption

\* The buffers of tasks that are not joined.
Held(j, t) == {i \in j + 1..Len(t) : t[i].pooled}

LEMMA HeldIsFinite ==
  ASSUME NEW t, Len(t) \in Nat, NEW j \in Nat
  PROVE  IsFiniteSet(Held(j, t)) /\ Cardinality(Held(j, t)) \in Nat
<1>1. IsFiniteSet(j + 1..Len(t))
  BY FS_Interval
<1>2. Held(j, t) \in SUBSET (j + 1..Len(t))
  BY DEF Held
<1> QED
  BY <1>1, <1>2, FS_Subset, FS_CardinalityType

(* Joining a task takes its buffer, if pooled, from those held. *)
LEMMA HeldJoin ==
  ASSUME NEW t, Len(t) \in Nat, NEW j \in Nat, j < Len(t), t[j + 1].pooled \in BOOLEAN
  PROVE  Cardinality(Held(j, t)) = Cardinality(Held(j + 1, t))
                                   + (IF t[j + 1].pooled THEN 1 ELSE 0)
<1>1. IsFiniteSet(Held(j + 1, t)) /\ Cardinality(Held(j + 1, t)) \in Nat
  BY HeldIsFinite
<1>2. CASE t[j + 1].pooled
  <2>1. Held(j, t) = Held(j + 1, t) \cup {j + 1}
    BY <1>2 DEF Held
  <2>2. j + 1 \notin Held(j + 1, t)
    BY DEF Held
  <2> QED
    BY <1>1, <1>2, <2>1, <2>2, FS_AddElement
<1>3. CASE ~t[j + 1].pooled
  <2>1. Held(j, t) = Held(j + 1, t)
    BY <1>3 DEF Held
  <2> QED
    BY <1>1, <1>3, <2>1
<1> QED
  BY <1>2, <1>3

(* A buffer leaves the pool with a task and comes back when it is joined. *)
LEMMA BuffersStep ==
  Ranges /\ Shapes /\ Tasks /\ BuffersAccounted /\ [Next]_vars => Tasks' /\ BuffersAccounted'
<1> SUFFICES ASSUME Ranges, Shapes, Tasks, BuffersAccounted, [Next]_vars
             PROVE  Tasks' /\ BuffersAccounted'
  OBVIOUS
<1> USE DEF Task
<1>1. /\ task \in Seq(Task) /\ Len(task) \in Nat /\ joined \in 0..Len(task) /\ pool \in Nat
      /\ pc = "join" => Len(task) = Len(resp.calls)
      /\ pc # "join" => task = <<>>
  BY DEF Tasks
<1>2. pc # "exit" => pool + Cardinality(Held(joined, task)) = size
  BY DEF BuffersAccounted, Held
<1>3. SUFFICES /\ Tasks'
               /\ pc' # "exit" => pool' + Cardinality(Held(joined', task')) = size'
  BY DEF BuffersAccounted, Held
<1>4. CASE Elsewhere
  <2>1. /\ Len(task') = Len(task) /\ task' \in Seq(Task)
        /\ \A i \in 1..Len(task) : task'[i].pooled = task[i].pooled
    <3>1. CASE task' = task
      BY <1>1, <3>1
    <3>2. CASE \E i \in 1..Len(task), at \in {"ran", "hung"} : task' = [task EXCEPT ![i].at = at]
      <4>1. PICK i \in 1..Len(task), at \in {"ran", "hung"} :
              task' = [task EXCEPT ![i] = [task[i] EXCEPT !.at = at]]
        BY <3>2
      <4> HIDE DEF Task
      <4>2. task[i] \in Task
        BY <1>1, ElementOfSeq
      <4>3. [task[i] EXCEPT !.at = at] \in Task
        BY <4>2 DEF Task
      <4>4. [task[i] EXCEPT !.at = at].pooled = task[i].pooled
        BY <4>2 DEF Task
      <4> QED
        BY <1>1, <4>1, <4>2, <4>3, <4>4
    <3> QED
      BY <1>4, <3>1, <3>2 DEF Elsewhere
  <2>2. Held(joined', task') = Held(joined, task)
    BY <1>1, <1>4, <2>1 DEF Elsewhere, Held
  <2>3. pc' # "join" => task' = <<>>
    BY <1>1, <1>4, <2>1 DEF Elsewhere
  <2>4. Tasks'
    BY <1>1, <1>4, <2>1, <2>3 DEF Elsewhere, Tasks
  <2> QED
    BY <1>2, <1>4, <2>2, <2>4 DEF Elsewhere
<1>5. CASE StartTools
  <2> DEFINE n == Len(resp.calls)
  <2>1. n \in Nat /\ pc = "answered"
    BY <1>5, CallsOfResponse DEF StartTools, Ranges
  <2>2. task = <<>> /\ joined = 0
    BY <1>1, <2>1
  <2>3. pool = size
    <3>1. Held(joined, task) = {}
      BY <2>2 DEF Held
    <3> QED
      BY <1>1, <1>2, <2>1, <3>1, FS_EmptySet
  <2>4. CASE Single(resp.calls)
    BY <1>1, <1>2, <1>5, <2>1, <2>4 DEF StartTools, par, Tasks
  <2>5. CASE ~Single(resp.calls)
    <3>1. PICK at \in [1..n -> {"running", "dead"}] :
             task' = [i \in 1..n |-> [at |-> at[i], pooled |-> i <= pool]]
      BY <1>5, <2>5 DEF StartTools
    <3>2. /\ pc' = "join" /\ joined' = 0 /\ size' = size /\ resp' = resp
          /\ pool' = IF n <= pool THEN pool - n ELSE 0
      BY <1>5, <2>2, <2>5 DEF StartTools
    <3>3. task' \in Seq(Task) /\ Len(task') = n
      BY <2>1, <3>1
    <3>4. Held(joined', task') = {i \in 1..n : i <= pool}
      <4>1. Held(joined', task') = {i \in 1..n : task'[i].pooled}
        BY <3>2, <3>3 DEF Held
      <4>2. \A i \in 1..n : task'[i].pooled <=> i <= pool
        BY <3>1
      <4> QED
        BY <4>1, <4>2
    <3>5. Cardinality(Held(joined', task')) = IF n <= pool THEN n ELSE pool
      <4>1. CASE n <= pool
        <5>1. Held(joined', task') = 1..n
          BY <1>1, <2>1, <3>4, <4>1
        <5> QED
          BY <2>1, <4>1, <5>1, FS_Interval
      <4>2. CASE ~(n <= pool)
        <5>1. Held(joined', task') = 1..pool
          BY <1>1, <2>1, <3>4, <4>2
        <5> QED
          BY <1>1, <4>2, <5>1, FS_Interval
      <4> QED
        BY <4>1, <4>2
    <3>6. Tasks'
      BY <1>1, <2>1, <3>2, <3>3 DEF Tasks
    <3> QED
      BY <1>1, <2>1, <2>3, <3>2, <3>5, <3>6
  <2> QED
    BY <2>4, <2>5
<1>6. CASE Join
  <2>1. /\ pc = "join" /\ pc' = pc /\ resp' = resp /\ task' = task /\ size' = size
        /\ joined' = joined + 1 /\ joined < Len(task)
        /\ pool' = IF task[joined + 1].pooled THEN pool + 1 ELSE pool
    BY <1>6 DEF Join, Joining, Release
  <2>2. task[joined + 1].pooled \in BOOLEAN
    <3>1. joined + 1 \in 1..Len(task)
      BY <1>1, <2>1
    <3>2. task[joined + 1] \in Task
      <4> HIDE DEF Task
      <4> QED
        BY <1>1, <3>1, ElementOfSeq
    <3> QED
      BY <3>2
  <2>3. Cardinality(Held(joined, task))
           = Cardinality(Held(joined + 1, task)) + (IF task[joined + 1].pooled THEN 1 ELSE 0)
    BY <1>1, <2>1, <2>2, HeldJoin
  <2>4. Cardinality(Held(joined + 1, task)) \in Nat
    <3>1. joined + 1 \in Nat
      BY <1>1
    <3> QED
      BY <1>1, <3>1, HeldIsFinite
  <2>5. Tasks'
    BY <1>1, <2>1 DEF Tasks
  <2>6. pool + Cardinality(Held(joined, task)) = size
    BY <1>2, <2>1
  <2> QED
    BY <1>1, <2>1, <2>2, <2>3, <2>4, <2>5, <2>6
<1>7. CASE JoinedAll
  <2>1. /\ pc = "join" /\ pc' = "decide" /\ joined = Len(task)
        /\ task' = <<>> /\ joined' = 0 /\ pool' = pool /\ size' = size
    BY <1>7 DEF JoinedAll
  <2>2. Held(joined, task) = {} /\ Held(joined', task') = {}
    BY <1>1, <2>1 DEF Held
  <2>3. Tasks'
    BY <1>1, <2>1 DEF Tasks
  <2> QED
    BY <1>2, <2>1, <2>2, <2>3
<1>8. CASE RunTool \/ NextRound \/ Dispatch
  BY <1>1, <1>2, <1>8 DEF RunTool, NextRound, Dispatch, AfterReply, par, Tasks
<1> QED
  BY <1>4, <1>5, <1>6, <1>7, <1>8, ElsewhereStep

\* The messages of a queue that hold an image.
WithImage(q) == {i \in 1..Len(q) : q[i].image}

LEMMA WithImageIsFinite ==
  ASSUME NEW q \in Seq(Kinds)
  PROVE  IsFiniteSet(WithImage(q)) /\ Cardinality(WithImage(q)) \in Nat
<1>1. IsFiniteSet(1..Len(q))
  BY FS_Interval
<1>2. WithImage(q) \in SUBSET (1..Len(q))
  BY DEF WithImage
<1> QED
  BY <1>1, <1>2, FS_Subset, FS_CardinalityType

(* A message that arrives adds its image. *)
LEMMA WithImageAppend ==
  ASSUME NEW q \in Seq(Kinds), NEW k \in Kinds
  PROVE  Cardinality(WithImage(Append(q, k)))
            = Cardinality(WithImage(q)) + (IF k.image THEN 1 ELSE 0)
<1> DEFINE r == Append(q, k)
<1>1. /\ Len(r) = Len(q) + 1 /\ Len(q) \in Nat /\ r[Len(q) + 1] = k
      /\ \A i \in 1..Len(q) : r[i] = q[i]
  OBVIOUS
<1> HIDE DEF r
<1>2. IsFiniteSet(WithImage(q)) /\ Cardinality(WithImage(q)) \in Nat
  BY WithImageIsFinite
<1>3. CASE k.image
  <2>1. WithImage(r) = WithImage(q) \cup {Len(q) + 1} /\ Len(q) + 1 \notin WithImage(q)
    BY <1>1, <1>3 DEF WithImage
  <2> QED
    BY <1>2, <1>3, <2>1, FS_AddElement DEF r
<1>4. CASE ~k.image
  <2>1. WithImage(r) = WithImage(q)
    BY <1>1, <1>4 DEF WithImage
  <2> QED
    BY <1>2, <1>4, <2>1 DEF r
<1> QED
  BY <1>3, <1>4

(* A message that is taken takes its image with it. *)
LEMMA WithImageTail ==
  ASSUME NEW q \in Seq(Kinds), q # <<>>
  PROVE  Cardinality(WithImage(q))
            = Cardinality(WithImage(Tail(q))) + (IF Head(q).image THEN 1 ELSE 0)
<1> DEFINE r == Tail(q)
<1> DEFINE rest == WithImage(q) \ {1}
<1> DEFINE f == [i \in WithImage(r) |-> i + 1]
<1>1. /\ r \in Seq(Kinds) /\ Len(r) \in Nat /\ Len(q) = Len(r) + 1 /\ Head(q) = q[1]
      /\ \A i \in 1..Len(r) : r[i] = q[i + 1]
  OBVIOUS
<1> HIDE DEF r
<1>2. /\ IsFiniteSet(WithImage(q)) /\ Cardinality(WithImage(q)) \in Nat
      /\ IsFiniteSet(WithImage(r)) /\ Cardinality(WithImage(r)) \in Nat
  BY <1>1, WithImageIsFinite
<1>3. Cardinality(WithImage(r)) = Cardinality(rest)
  <2>1. f \in [WithImage(r) -> rest]
    BY <1>1 DEF WithImage
  <2>2. \A i, j \in WithImage(r) : f[i] = f[j] => i = j
    BY <1>1 DEF WithImage
  <2>3. \A j \in rest : \E i \in WithImage(r) : f[i] = j
    <3> SUFFICES ASSUME NEW j \in rest PROVE \E i \in WithImage(r) : f[i] = j
      OBVIOUS
    <3>1. j - 1 \in WithImage(r)
      BY <1>1 DEF WithImage
    <3>2. f[j - 1] = j
      BY <1>1, <3>1 DEF WithImage
    <3> QED
      BY <3>1, <3>2
  <2>4. f \in Bijection(WithImage(r), rest)
    BY <2>1, <2>2, <2>3 DEF Bijection, Injection, Surjection, IsInjective
  <2> QED
    BY <1>2, <2>4, FS_Bijection DEF ExistsBijection
<1>4. CASE Head(q).image
  <2>1. 1 \in WithImage(q)
    BY <1>1, <1>4 DEF WithImage
  <2>2. Cardinality(rest) = Cardinality(WithImage(q)) - 1
    BY <1>2, <2>1, FS_RemoveElement
  <2> QED
    BY <1>2, <1>3, <1>4, <2>2 DEF r
<1>5. CASE ~Head(q).image
  <2>1. rest = WithImage(q)
    BY <1>1, <1>5 DEF WithImage
  <2>2. Cardinality(WithImage(q)) = Cardinality(WithImage(r))
    BY <1>3, <2>1
  <2> QED
    BY <1>2, <1>5, <2>2 DEF r
<1> QED
  BY <1>4, <1>5

\* The image of the message under work, if it holds one.
Working == IF msg.image /\ pc \notin {"top", "pop", "exit"} THEN 1 ELSE 0

(* An image is counted from the arrival of its message to the stage that   *)
(* frees it.                                                               *)
LEMMA ImagesStep ==
  Shapes /\ Kinded /\ lost \in Nat /\ ImagesHeld /\ [Next]_vars
     => lost' \in Nat /\ ImagesHeld'
<1> SUFFICES ASSUME Shapes, Kinded, lost \in Nat, ImagesHeld, [Next]_vars
             PROVE  lost' \in Nat /\ ImagesHeld'
  OBVIOUS
<1> USE DEF heap
<1>1. images = Cardinality(WithImage(inbound)) + Working + lost
  BY DEF ImagesHeld, WithImage, Working
<1>2. SUFFICES lost' \in Nat /\ images' = Cardinality(WithImage(inbound')) + Working' + lost'
  BY DEF ImagesHeld, WithImage, Working
<1>3. inbound \in Seq(Kinds) /\ Cardinality(WithImage(inbound)) \in Nat
  BY WithImageIsFinite DEF Kinded
<1>4. ASSUME images' = images, lost' = lost, inbound' = inbound, msg' = msg,
             pc \in {"top", "pop", "exit"} <=> pc' \in {"top", "pop", "exit"}
      PROVE  lost' \in Nat /\ images' = Cardinality(WithImage(inbound')) + Working' + lost'
  BY <1>1, <1>3, <1>4 DEF Working
<1>27. ASSUME images' = images, inbound' = inbound, msg' = msg,
              pc \notin {"top", "pop", "exit"}, EarlyEnd
       PROVE  lost' \in Nat /\ images' = Cardinality(WithImage(inbound')) + Working' + lost'
  BY <1>1, <1>3, <1>27 DEF EarlyEnd, AfterReply, Working
<1>5. ASSUME inbound # <<>>
      PROVE  /\ Cardinality(WithImage(Tail(inbound))) \in Nat
             /\ Cardinality(WithImage(inbound)) = Cardinality(WithImage(Tail(inbound)))
                                                  + (IF Head(inbound).image THEN 1 ELSE 0)
  <2>1. Tail(inbound) \in Seq(Kinds)
    BY <1>3, <1>5
  <2> QED
    BY <1>3, <1>5, <2>1, WithImageIsFinite, WithImageTail
<1>6. CASE PopStopping
  BY <1>1, <1>3, <1>5, <1>6 DEF PopStopping, Leave, Working
<1>7. CASE Pop
  <2>1. /\ inbound # <<>> /\ inbound' = Tail(inbound) /\ images' = images /\ lost' = lost
        /\ msg'.image = Head(inbound).image /\ pc = "pop" /\ pc' = "memory"
    BY <1>7 DEF Pop
  <2> QED
    BY <1>1, <1>3, <1>5, <2>1 DEF Working
<1>8. CASE Vision
  <2>1. /\ pc = "vision" /\ inbound' = inbound /\ lost' = lost
        /\ images' = IF msg.image THEN images - 1 ELSE images
        /\ msg'.image = FALSE
    BY <1>8 DEF Vision, FreeImage, Shapes
  <2> QED
    BY <1>1, <1>3, <2>1 DEF Working
<1>9. CASE Dispatch
  <2>1. /\ pc = "dispatch" /\ inbound' = inbound /\ lost' = lost
        /\ images' = IF msg.image THEN images - 1 ELSE images
        /\ msg'.image = FALSE
    BY <1>9 DEF Dispatch, FreeImage, Shapes
  <2> QED
    BY <1>1, <1>3, <2>1 DEF Working
<1>10. ASSUME NEW k \in Kinds, Arrive(k)
       PROVE  lost' \in Nat /\ images' = Cardinality(WithImage(inbound')) + Working' + lost'
  <2>1. /\ inbound' = Append(inbound, k) /\ msg' = msg /\ pc' = pc /\ lost' = lost
        /\ images' = IF k.image THEN images + 1 ELSE images
    BY <1>10 DEF Arrive
  <2>2. Cardinality(WithImage(inbound'))
           = Cardinality(WithImage(inbound)) + (IF k.image THEN 1 ELSE 0)
    BY <1>3, <2>1, WithImageAppend
  <2> QED
    BY <1>1, <1>3, <2>1, <2>2 DEF Working
<1>11. CASE Top \/ PopWoken \/ Hang
  BY <1>4, <1>11 DEF Top, PopWoken, Leave, Hang, Calling, WeakAnswer
<1>12. CASE CheckMemory
  <2>1. inbound' = inbound /\ msg' = msg /\ images' = images
        /\ pc \notin {"top", "pop", "exit"}
    BY <1>12 DEF CheckMemory, EarlyEnd, Onwards
  <2>2. EarlyEnd \/ (lost' = lost /\ pc' \notin {"top", "pop", "exit"})
    BY <1>12 DEF CheckMemory, Onwards
  <2> QED
    BY <1>4, <1>27, <2>1, <2>2
<1>13. CASE Slash
  <2>1. inbound' = inbound /\ msg' = msg /\ images' = images
        /\ pc \notin {"top", "pop", "exit"}
    BY <1>13 DEF Slash, EarlyEnd, Onwards
  <2>2. EarlyEnd \/ (lost' = lost /\ pc' \notin {"top", "pop", "exit"})
    BY <1>13 DEF Slash, Onwards
  <2> QED
    BY <1>4, <1>27, <2>1, <2>2
<1>14. CASE Guard
  <2>1. inbound' = inbound /\ msg' = msg /\ images' = images
        /\ pc \notin {"top", "pop", "exit"}
    BY <1>14 DEF Guard, EarlyEnd, Onwards
  <2>2. EarlyEnd \/ (lost' = lost /\ pc' \notin {"top", "pop", "exit"})
    BY <1>14 DEF Guard, Onwards
  <2> QED
    BY <1>4, <1>27, <2>1, <2>2
<1>15. CASE FastPath
  <2>1. inbound' = inbound /\ msg' = msg /\ images' = images
        /\ pc \notin {"top", "pop", "exit"}
    BY <1>15 DEF FastPath, EarlyEnd, Onwards
  <2>2. EarlyEnd \/ (lost' = lost /\ pc' \notin {"top", "pop", "exit"})
    BY <1>15 DEF FastPath, Onwards
  <2> QED
    BY <1>4, <1>27, <2>1, <2>2
<1>16. CASE Route \/ Lookup \/ Ask
  BY <1>4, <1>16 DEF Route, Lookup, Ask
<1>17. CASE Failover \/ TimedOut \/ CallFailed
  BY <1>4, <1>17 DEF Failover, TimedOut, CallFailed
<1>18. CASE Cascade \/ TakeText
  BY <1>4, <1>18 DEF Cascade,  WeakAnswer, TakeText
<1>19. CASE StartTools
  BY <1>4, <1>19 DEF StartTools
<1>20. CASE RunTool
  BY <1>4, <1>20 DEF RunTool
<1>21. CASE Join \/ JoinedAll
  BY <1>4, <1>21 DEF Join, Joining, JoinedAll
<1>22. CASE Stuck \/ TakeOutput \/ Confirm \/ NextRound
  BY <1>4, <1>22 DEF Stuck, TakeOutput, Confirm, NextRound
<1>23. CASE ForceFinish \/ End \/ Store
  BY <1>4, <1>23 DEF ForceFinish, End, Store
<1>24. CASE ThreadStep
  BY <1>4, <1>24 DEF ThreadStep, ToolThread
<1>25. CASE MainStep
  BY <1>4, <1>25 DEF MainStep
<1>26. CASE UNCHANGED vars
  BY <1>4, <1>26 DEF vars
<1> QED
  BY <1>6, <1>7, <1>8, <1>9, <1>10, <1>11, <1>12, <1>13, <1>14, <1>15, <1>16, <1>17, <1>18, <1>19, <1>20, <1>21, <1>22, <1>23, <1>24, <1>25, <1>26 DEF Next, LoopStep

LEMMA IdOfCall ==
  ASSUME NEW calls \in Seq(Calls), NEW j \in 1..Len(calls)
  PROVE  calls[j].id \in CallIds
<1>1. calls[j] \in Calls
  BY ElementOfSeq
<1> QED
  BY <1>1 DEF CallIds

(* What adding a result does to the conversation. *)
LEMMA ResultAdded ==
  ASSUME messages \in Seq(ToolRounds), messages # <<>>, NEW id \in CallIds, AddResult(id)
  PROVE  /\ messages' \in Seq(ToolRounds) /\ Len(messages') = Len(messages)
         /\ \A i \in 1..Len(messages) : messages'[i].calls = messages[i].calls
         /\ \A i \in 1..Len(messages) : i < Len(messages) => messages'[i] = messages[i]
         /\ Results' = Append(Results, id)
<1> DEFINE n == Len(messages)
<1> DEFINE m == [messages[n] EXCEPT !.results = Append(messages[n].results, id)]
<1>1. n \in Nat /\ n \in 1..n /\ messages[n] \in ToolRounds
  BY ElementOfSeq
<1>2. m \in ToolRounds /\ m.calls = messages[n].calls
      /\ m.results = Append(messages[n].results, id)
  <2> DEFINE more == Append(messages[n].results, id)
  <2>1. messages[n].results \in Seq(CallIds)
    BY <1>1 DEF ToolRounds
  <2>2. more \in Seq(CallIds)
    BY <2>1
  <2> HIDE DEF more
  <2>3. [messages[n] EXCEPT !.results = more] \in ToolRounds
    BY <1>1, <2>2 DEF ToolRounds
  <2>4. /\ [messages[n] EXCEPT !.results = more].calls = messages[n].calls
        /\ [messages[n] EXCEPT !.results = more].results = more
    BY <1>1 DEF ToolRounds
  <2> QED
    BY <2>3, <2>4 DEF more
<1>3. messages' = [messages EXCEPT ![n] = m]
  BY DEF AddResult
<1> HIDE DEF m
<1>4. messages' \in Seq(ToolRounds) /\ Len(messages') = n
      /\ messages'[n] = m /\ \A i \in 1..n : i # n => messages'[i] = messages[i]
  BY <1>1, <1>2, <1>3
<1> QED
  BY <1>1, <1>2, <1>4 DEF Results

LEMMA NoResultsYet ==
  ASSUME NEW calls PROVE ResultsOf(<<>>, calls, 0)
BY DEF ResultsOf, InSeq

(* A call's result is added unless its id has one and is recognised. *)
LEMMA OneMoreResult ==
  ASSUME NEW res \in Seq(CallIds), NEW calls \in Seq(Calls), NEW n \in Nat, n < Len(calls),
         ResultsOf(res, calls, n)
  PROVE  /\ InSeq(calls[n + 1].id, res) => ResultsOf(res, calls, n + 1)
         /\ (InSeq(calls[n + 1].id, res) => calls[n + 1].id \in LongIds)
               => ResultsOf(Append(res, calls[n + 1].id), calls, n + 1)
<1> DEFINE new == calls[n + 1].id
<1>1. \A j : j \in 1..(n + 1) <=> (j \in 1..n \/ j = n + 1)
  OBVIOUS
<1>2. \A id : (\E j \in 1..(n + 1) : calls[j].id = id) <=> (InSeq(id, res) \/ id = new)
  BY <1>1 DEF ResultsOf
<1>3. InSeq(new, res) => ResultsOf(res, calls, n + 1)
  BY <1>2 DEF ResultsOf
<1>4. ASSUME InSeq(new, res) => new \in LongIds
      PROVE  ResultsOf(Append(res, new), calls, n + 1)
  <2> DEFINE more == Append(res, new)
  <2>1. /\ Len(res) \in Nat /\ Len(more) = Len(res) + 1 /\ more[Len(res) + 1] = new
        /\ \A i \in 1..Len(res) : more[i] = res[i]
    OBVIOUS
  <2> HIDE DEF more
  <2>2. \A id : InSeq(id, more) <=> (InSeq(id, res) \/ id = new)
    BY <2>1 DEF InSeq
  <2>3. \A i, j \in 1..Len(more) : more[i] = more[j] => i = j \/ more[i] \in LongIds
    <3> SUFFICES ASSUME NEW i \in 1..Len(more), NEW j \in 1..Len(more), more[i] = more[j], i # j
                 PROVE  more[i] \in LongIds
      OBVIOUS
    <3>1. CASE i \in 1..Len(res) /\ j \in 1..Len(res)
      BY <2>1, <3>1 DEF ResultsOf
    <3>2. CASE ~(i \in 1..Len(res) /\ j \in 1..Len(res))
      <4>1. more[i] = new /\ InSeq(new, res)
        BY <2>1, <3>2 DEF InSeq
      <4> QED
        BY <1>4, <4>1
    <3> QED
      BY <3>1, <3>2
  <2>4. ResultsOf(more, calls, n + 1)
    BY <1>2, <2>2, <2>3 DEF ResultsOf
  <2> QED
    BY <2>4 DEF more
<1> QED
  BY <1>3, <1>4

(* Every call gets a result before the model is asked again. *)
LEMMA ConversationStep ==
  Ranges /\ Shapes /\ Outputs /\ Tasks /\ Conversation /\ [Next]_vars => Conversation'
<1> SUFFICES ASSUME Ranges, Shapes, Outputs, Tasks, Conversation, [Next]_vars
             PROVE  Conversation'
  OBVIOUS
<1> DEFINE n == Len(messages)
<1> DEFINE Done(m) == ResultsOf(m.results, m.calls, Len(m.calls))
<1>1. messages \in Seq(ToolRounds) /\ n \in Nat
  BY DEF Conversation
<1>2. \A i \in 1..n : i < n \/ pc \notin {"tools", "join", "hung"} => Done(messages[i])
  BY DEF Conversation
<1>3. pc \in {"tools", "join"} => messages # <<>> /\ messages[n].calls = resp.calls
  BY DEF Conversation
<1>4. /\ pc = "tools" => ResultsOf(Results, resp.calls, 0)
      /\ pc = "join" => ResultsOf(Results, resp.calls, joined)
  BY DEF Conversation
<1>5. messages # <<>> => /\ n \in 1..n /\ messages[n] \in ToolRounds
                         /\ Results = messages[n].results
                         /\ Results \in Seq(CallIds)
                         /\ messages[n].calls \in Seq(Calls)
  <2> SUFFICES ASSUME messages # <<>>
               PROVE  /\ n \in 1..n /\ messages[n] \in ToolRounds
                      /\ Results = messages[n].results
                      /\ Results \in Seq(CallIds)
                      /\ messages[n].calls \in Seq(Calls)
    OBVIOUS
  <2>1. n \in 1..n
    BY <1>1
  <2>2. messages[n] \in ToolRounds
    BY <1>1, <2>1, ElementOfSeq
  <2> QED
    BY <2>1, <2>2, AgentAssumption DEF ToolRounds, Results
<1> HIDE DEF Done
<1>6. CASE Elsewhere
  <2>1. messages' = messages /\ Results' = Results /\ joined' = joined
    BY <1>6 DEF Elsewhere, Results
  <2>2. /\ pc' \in {"tools", "join"} => pc' = pc /\ resp' = resp
        /\ pc \in {"tools", "join"} => pc' \in {pc, "hung"}
        /\ pc = "hung" => pc' = "hung"
    BY <1>6 DEF Elsewhere
  <2> QED
    BY <1>1, <1>2, <1>3, <1>4, <2>1, <2>2 DEF Conversation, Done
<1>7. CASE StartTools
  <2> DEFINE m == [calls |-> resp.calls, results |-> <<>>]
  <2>1. resp.calls \in Rounds /\ resp.calls \in Seq(Calls) /\ pc = "answered"
    BY <1>7, CallsOfResponse DEF StartTools, Ranges
  <2>2. m \in ToolRounds /\ m.calls = resp.calls /\ m.results = <<>>
    BY <2>1 DEF ToolRounds
  <2>3. /\ messages' = Append(messages, m) /\ resp' = resp /\ joined' = joined
        /\ pc' \in {"tools", "join"}
    BY <1>7 DEF StartTools, par
  <2> HIDE DEF m
  <2>4. /\ messages' \in Seq(ToolRounds) /\ Len(messages') = n + 1 /\ messages'[n + 1] = m
        /\ \A i \in 1..n : messages'[i] = messages[i]
    BY <1>1, <2>2, <2>3
  <2>5. Results' = <<>> /\ messages' # <<>>
    BY <1>1, <2>2, <2>4 DEF Results
  <2>6. joined = 0
    BY <2>1 DEF Tasks
  <2>7. \A i \in 1..n : Done(messages'[i])
    BY <1>2, <2>1, <2>4
  <2> QED
    BY <1>1, <2>2, <2>3, <2>4, <2>5, <2>6, <2>7, NoResultsYet DEF Conversation, Done
<1>8. CASE RunTool
  <2>1. /\ pc = "tools" /\ pc' = "decide" /\ AddResult(resp.calls[1].id)
        /\ Len(resp.calls) = 1
    BY <1>8 DEF RunTool, Outputs, Single
  <2>2. resp.calls \in Seq(Calls) /\ messages # <<>> /\ messages[n].calls = resp.calls
    BY <1>3, <1>5, <2>1
  <2>3. resp.calls[1].id \in CallIds
    BY <2>1, <2>2, IdOfCall
  <2>4. /\ messages' \in Seq(ToolRounds) /\ Len(messages') = n
        /\ messages'[n].calls = resp.calls
        /\ \A i \in 1..n : i < n => messages'[i] = messages[i]
        /\ Results' = Append(Results, resp.calls[1].id)
    BY <1>1, <1>5, <2>1, <2>2, <2>3, ResultAdded
  <2>5. ResultsOf(Results', resp.calls, 1)
    <3>1. ~InSeq(resp.calls[1].id, Results)
      BY <1>4, <2>1 DEF ResultsOf
    <3>2. /\ Results \in Seq(CallIds) /\ 0 \in Nat /\ 0 < Len(resp.calls) /\ 0 + 1 = 1
          /\ ResultsOf(Results, resp.calls, 0)
      BY <1>4, <1>5, <2>1, <2>2
    <3>3. ResultsOf(Append(Results, resp.calls[0 + 1].id), resp.calls, 0 + 1)
      BY <2>2, <3>1, <3>2, OneMoreResult
    <3> QED
      BY <2>4, <3>2, <3>3
  <2>6. Done(messages'[n])
    BY <2>1, <2>4, <2>5 DEF Done, Results
  <2>7. \A i \in 1..n : Done(messages'[i])
    BY <1>1, <1>2, <2>4, <2>6
  <2> QED
    BY <2>1, <2>4, <2>7 DEF Conversation, Done
<1>9. CASE Join
  <2>1. /\ pc = "join" /\ pc' = pc /\ resp' = resp
        /\ joined' = joined + 1 /\ joined < Len(task)
        /\ \/ InSeq(resp.calls[joined + 1].id, Results) /\ messages' = messages
           \/ /\ InSeq(resp.calls[joined + 1].id, Results) => resp.calls[joined + 1].id \in LongIds
              /\ AddResult(resp.calls[joined + 1].id)
    BY <1>9 DEF Join, Joining
  <2>2. joined \in Nat /\ joined < Len(resp.calls)
    BY <2>1 DEF Tasks
  <2>3. resp.calls \in Seq(Calls) /\ messages # <<>> /\ messages[n].calls = resp.calls
    BY <1>3, <1>5, <2>1
  <2>4. resp.calls[joined + 1].id \in CallIds
    <3>1. joined + 1 \in 1..Len(resp.calls)
      BY <2>2, <2>3
    <3> QED
      BY <2>3, <3>1, IdOfCall
  <2>5. /\ messages' \in Seq(ToolRounds) /\ Len(messages') = n
        /\ messages'[n].calls = resp.calls
        /\ \A i \in 1..n : i < n => messages'[i] = messages[i]
        /\ ResultsOf(Results', resp.calls, joined + 1)
    <3>1. CASE InSeq(resp.calls[joined + 1].id, Results) /\ messages' = messages
      <4>1. messages' = messages /\ Results' = Results
        BY <2>1, <3>1 DEF Results
      <4>2. ResultsOf(Results, resp.calls, joined + 1)
        BY <1>4, <1>5, <2>1, <2>2, <2>3, <3>1, OneMoreResult
      <4> QED
        BY <1>1, <2>3, <4>1, <4>2
    <3>2. CASE /\ InSeq(resp.calls[joined + 1].id, Results) => resp.calls[joined + 1].id \in LongIds
               /\ AddResult(resp.calls[joined + 1].id)
      <4>1. AddResult(resp.calls[joined + 1].id)
        BY <3>2
      <4>2. /\ messages' \in Seq(ToolRounds) /\ Len(messages') = n
            /\ messages'[n].calls = resp.calls
            /\ \A i \in 1..n : i < n => messages'[i] = messages[i]
            /\ Results' = Append(Results, resp.calls[joined + 1].id)
        BY <1>1, <1>5, <2>3, <2>4, <4>1, ResultAdded
      <4>3. ResultsOf(Append(Results, resp.calls[joined + 1].id), resp.calls, joined + 1)
        BY <1>4, <1>5, <2>1, <2>2, <2>3, <3>2, OneMoreResult
      <4> QED
        BY <4>2, <4>3
    <3> QED
      BY <2>1, <3>1, <3>2
  <2>6. messages' # <<>>
    BY <1>1, <1>5, <2>3, <2>5
  <2> QED
    BY <1>1, <1>2, <2>1, <2>5, <2>6 DEF Conversation, Done
<1>10. CASE JoinedAll
  <2>1. /\ pc = "join" /\ pc' = "decide" /\ joined = Len(task) /\ messages' = messages
    BY <1>10 DEF JoinedAll, conv
  <2>2. joined = Len(resp.calls)
    BY <2>1 DEF Tasks
  <2>3. Done(messages[n])
    BY <1>3, <1>4, <1>5, <2>1, <2>2 DEF Done
  <2>4. \A i \in 1..n : Done(messages[i])
    BY <1>1, <1>2, <2>3
  <2> QED
    BY <1>1, <2>1, <2>4 DEF Conversation, Done
<1>11. CASE NextRound
  <2>1. pc = "decide" /\ pc' = "ask" /\ messages' = messages
    BY <1>11 DEF NextRound, conv
  <2> QED
    BY <1>1, <1>2, <2>1 DEF Conversation, Done
<1>12. CASE Dispatch
  <2>1. pc' = "top" /\ messages' = <<>>
    BY <1>12 DEF Dispatch, AfterReply
  <2> QED
    BY <2>1 DEF Conversation
<1> QED
  BY <1>6, <1>7, <1>8, <1>9, <1>10, <1>11, <1>12, ElsewhereStep

LEMMA ConversationIsAnswered == Conversation => CallsAnswered
<1> SUFFICES ASSUME Conversation, pc \in {"ask", "failover", "decide"},
                    NEW i \in 1..Len(messages),
                    NEW id \in {Ids(messages[i].calls)[j] : j \in 1..Len(Ids(messages[i].calls))}
             PROVE  LET n == Cardinality({j \in 1..Len(messages[i].results) :
                                             messages[i].results[j] = id})
                    IN  n >= 1 /\ (id \notin LongIds => n = 1)
  BY DEF CallsAnswered
<1> DEFINE m == messages[i]
<1>1. m \in ToolRounds /\ m.calls \in Seq(Calls) /\ ResultsOf(m.results, m.calls, Len(m.calls))
  <2>1. messages \in Seq(ToolRounds) /\ ResultsOf(m.results, m.calls, Len(m.calls))
    BY DEF Conversation
  <2>2. m \in ToolRounds
    BY <2>1, ElementOfSeq
  <2>3. m.calls \in Seq(Calls)
    BY <2>2, AgentAssumption DEF ToolRounds
  <2> QED
    BY <2>1, <2>2, <2>3
<1>2. PICK k \in 1..Len(m.calls) : m.calls[k].id = id
  <2> HIDE DEF m
  <2>1. /\ Len(Ids(m.calls)) = Len(m.calls)
        /\ \A k \in 1..Len(m.calls) : Ids(m.calls)[k] = m.calls[k].id
    BY <1>1 DEF Ids
  <2> QED
    BY <2>1 DEF m
<1>3. InSeq(id, m.results)
  BY <1>1, <1>2 DEF ResultsOf
<1>4. PICK j \in 1..Len(m.results) : m.results[j] = id
  BY <1>3 DEF InSeq
<1> DEFINE own == {l \in 1..Len(m.results) : m.results[l] = id}
<1>5. IsFiniteSet(own) /\ Cardinality(own) \in Nat /\ j \in own
  <2>1. Len(m.results) \in Nat
    BY <1>1 DEF ToolRounds
  <2>2. IsFiniteSet(1..Len(m.results)) /\ own \subseteq 1..Len(m.results)
    <3> HIDE DEF m
    <3>1. Len(m.results) \in Int /\ 1 \in Int
      BY <2>1
    <3> QED
      BY <3>1, FS_Interval
  <2>3. IsFiniteSet(own)
    BY <2>2, FS_Subset
  <2> QED
    BY <1>4, <2>3, FS_CardinalityType
<1> HIDE DEF own
<1>6. Cardinality(own) >= 1
  BY <1>5, FS_EmptySet
<1>7. ASSUME id \notin LongIds PROVE Cardinality(own) = 1
  <2>1. \A l \in own : l = j
    BY <1>1, <1>4, <1>7 DEF ResultsOf, own
  <2>2. own = {j}
    BY <1>5, <2>1
  <2> QED
    BY <2>2, FS_Singleton
<1> QED
  BY <1>6, <1>7 DEF own

(* The counters are about the calls only. *)
LEMMA SameCounters ==
  ASSUME Counters, Len(messages) \in Nat, Len(messages') = Len(messages),
         \A i \in 1..Len(messages) : messages'[i].calls = messages[i].calls,
         run'.sig = run.sig, run'.dup = run.dup, run'.repeats = run.repeats,
         run'.stuck = run.stuck,
         pc' \in {"ask", "failover", "answered"} => run.stuck = FALSE
  PROVE  Counters'
<1> DEFINE n == Len(messages)
<1>1. \A i \in 1..n : (Alone(i)' <=> Alone(i)) /\ CallOf(i)' = CallOf(i)
  BY DEF Alone, CallOf
<1>2. Unstuck => Unstuck'
  <2>1. ASSUME NEW i \in 1..n, i + 2 <= n, Thrice(i)' PROVE Thrice(i)
    BY <1>1, <2>1 DEF Thrice, SameCall
  <2>2. ASSUME NEW i \in 1..n, i + RepeatMax <= n, SameTool(i, i + RepeatMax)'
        PROVE  SameTool(i, i + RepeatMax)
    BY <1>1, <2>2, AgentAssumption DEF SameTool
  <2> QED
    BY <2>1, <2>2 DEF Unstuck
<1>3. \A i \in 1..n : SameTool(i, n)' => SameTool(i, n)
  BY <1>1 DEF SameTool
<1>4. n > 0 => n \in 1..n
  OBVIOUS
<1>5. run.sig = IF n > 0 /\ Alone(n)' THEN messages'[n].calls ELSE <<>>
  BY <1>1, <1>4 DEF Counters
<1>6. n > 1 /\ Alone(n - 1)' /\ Alone(n)' /\ SameCall(CallOf(n - 1), CallOf(n))' => run.dup > 0
  <2> SUFFICES ASSUME n > 1, Alone(n - 1)', Alone(n)', SameCall(CallOf(n - 1), CallOf(n))'
               PROVE  run.dup > 0
    OBVIOUS
  <2>1. n \in 1..n /\ n - 1 \in 1..n
    OBVIOUS
  <2>2. Alone(n - 1) /\ Alone(n) /\ SameCall(CallOf(n - 1), CallOf(n))
    BY <1>1, <2>1 DEF SameCall
  <2> QED
    BY <2>2 DEF Counters
<1> QED
  BY <1>2, <1>3, <1>5, <1>6 DEF Counters

(* The counters see one more round of calls. *)
LEMMA CountersCount ==
  ASSUME Shapes, Counters, Unstuck, run.stuck = FALSE,
         Len(messages) \in Nat, Len(messages') = Len(messages) + 1,
         \A i \in 1..Len(messages) : messages'[i].calls = messages[i].calls,
         NEW calls \in Seq(Calls), messages'[Len(messages) + 1].calls = calls,
         run' = Counted(calls), pc' \in {"tools", "join"}
  PROVE  Counters'
<1>0. PICK n \in Nat : /\ Len(messages) = n /\ Len(messages') = n + 1
                      /\ \A i \in 1..n : messages'[i].calls = messages[i].calls
                      /\ messages'[n + 1].calls = calls
  OBVIOUS
<1>1. \A i \in 1..n : (Alone(i)' <=> Alone(i)) /\ CallOf(i)' = CallOf(i)
  BY <1>0 DEF Alone, CallOf
<1>2. (Alone(n + 1)' <=> Single(calls)) /\ CallOf(n + 1)' = calls[1]
  BY <1>0 DEF Alone, CallOf
<1>3. /\ run.dup \in Nat /\ run.repeats \in Nat
      /\ \A i \in 1..n : SameTool(i, n) => run.repeats >= n - i
      /\ n > 1 /\ Alone(n - 1) /\ Alone(n) /\ SameCall(CallOf(n - 1), CallOf(n)) => run.dup > 0
  BY <1>0 DEF Counters
<1>4. \A i \in 1..n : /\ ~(i + 2 <= n /\ Thrice(i))
                       /\ ~(i + RepeatMax <= n /\ SameTool(i, i + RepeatMax))
  BY <1>0 DEF Unstuck
<1>5. CASE ~Single(calls)
  <2>1. /\ run'.sig = <<>> /\ run'.dup = 0 /\ run'.repeats = 0 /\ run'.stuck = FALSE
    BY <1>5 DEF Counted, Shapes
  <2>2. ~Alone(n + 1)'
    BY <1>2, <1>5
  <2>3. \A i \in 1..(n + 1) : ~SameTool(i, n + 1)'
    BY <2>2 DEF SameTool
  <2>4. Unstuck'
    <3>1. ASSUME NEW i \in 1..(n + 1), i + 2 <= n + 1, Thrice(i)'
          PROVE  FALSE
      <4>1. i + 2 <= n
        BY <2>2, <3>1 DEF Thrice
      <4>2. i \in 1..n /\ Thrice(i)
        BY <1>1, <3>1, <4>1 DEF Thrice, SameCall
      <4> QED
        BY <1>4, <4>1, <4>2
    <3>2. ASSUME NEW i \in 1..(n + 1), i + RepeatMax <= n + 1, SameTool(i, i + RepeatMax)'
          PROVE  FALSE
      <4>1. i + RepeatMax <= n
        BY <2>2, <3>2, AgentAssumption DEF SameTool
      <4>2. i \in 1..n /\ SameTool(i, i + RepeatMax)
        BY <1>1, <3>2, <4>1, AgentAssumption DEF SameTool
      <4> QED
        BY <1>4, <4>1, <4>2
    <3> QED
      BY <1>0, <3>1, <3>2 DEF Unstuck
  <2>5. run'.sig = IF n + 1 > 0 /\ Alone(n + 1)' THEN messages'[n + 1].calls ELSE <<>>
    BY <2>1, <2>2
  <2>6. run'.dup \in Nat /\ run'.repeats \in Nat
    BY <2>1
  <2>8. run'.stuck = run.stuck /\ run.stuck \in BOOLEAN
    BY <1>5 DEF Counted, Shapes, Counters
  <2>7. \A i \in 1..(n + 1) : SameTool(i, n + 1)' => run'.repeats >= n + 1 - i
    BY <2>3
  <2> QED
    BY <1>0, <2>2, <2>4, <2>5, <2>6, <2>7, <2>8 DEF Counters
<1>6. CASE Single(calls)
  <2> DEFINE same == n > 0 /\ Alone(n) /\ SameCall(CallOf(n), calls[1])
  <2> DEFINE again == n > 0 /\ Alone(n) /\ CallOf(n).name = calls[1].name
  <2> DEFINE dup == IF same THEN run.dup + 1 ELSE 0
  <2> DEFINE repeats == IF dup >= 2 THEN run.repeats
                        ELSE IF again THEN run.repeats + 1 ELSE 0
  <2>1. /\ run.sig # <<>> <=> n > 0 /\ Alone(n)
        /\ run.sig # <<>> => run.sig[1] = CallOf(n)
    BY <1>0 DEF Counters, Alone, CallOf, Single
  <2>2. /\ run.sig # <<>> /\ SameCall(run.sig[1], calls[1]) <=> same
        /\ run.sig # <<>> /\ run.sig[1].name = calls[1].name <=> again
    BY <2>1
  <2>3. /\ run'.sig = calls /\ run'.dup = dup /\ run'.repeats = repeats
        /\ run'.stuck = (dup >= 2 \/ (again /\ repeats >= RepeatMax))
    BY <1>6, <2>2 DEF Counted, Shapes
  <2>4. dup \in Nat /\ repeats \in Nat
    BY <1>3
  <2>5. Alone(n + 1)'
    BY <1>2, <1>6
  <2>6. n + 1 > 1 /\ Alone(n)' /\ SameCall(CallOf(n), CallOf(n + 1))' => dup > 0
    <3> SUFFICES ASSUME n > 0, Alone(n)', SameCall(CallOf(n), CallOf(n + 1))'
                 PROVE  dup > 0
      OBVIOUS
    <3>1. n \in 1..n
      OBVIOUS
    <3>2. same
      BY <1>1, <1>2, <3>1 DEF SameCall
    <3> QED
      BY <1>3, <3>2
  <2> HIDE DEF repeats
  <2>7. ASSUME dup < 2, NEW i \in 1..(n + 1), SameTool(i, n + 1)'
        PROVE  repeats >= n + 1 - i /\ (i <= n => again)
    <3>1. CASE i = n + 1
      BY <2>4, <3>1
    <3>2. CASE i <= n
      <4>1. n \in i..(n + 1) /\ n + 1 \in i..(n + 1) /\ n \in 1..n /\ i \in 1..n
        BY <3>2
      <4>2. \A j \in i..n : Alone(j) /\ CallOf(i).name = CallOf(j).name
        BY <1>1, <2>7, <3>2 DEF SameTool
      <4>3. again
        BY <1>1, <1>2, <2>7, <4>1, <4>2 DEF SameTool
      <4>4. run.repeats >= n - i
        BY <1>3, <4>1, <4>2 DEF SameTool
      <4>5. repeats = run.repeats + 1
        BY <2>4, <2>7, <4>3 DEF repeats
      <4> QED
        BY <1>3, <4>3, <4>4, <4>5
    <3> QED
      BY <3>1, <3>2
  <2>8. ASSUME dup < 2, ~(again /\ repeats >= RepeatMax)
        PROVE  Unstuck'
    <3>1. ASSUME NEW i \in 1..(n + 1), i + 2 <= n + 1, Thrice(i)'
          PROVE  FALSE
      <4>1. CASE i + 2 <= n
        <5>1. i \in 1..n /\ Thrice(i)
          BY <1>1, <3>1, <4>1 DEF Thrice, SameCall
        <5> QED
          BY <1>4, <4>1, <5>1
      <4>2. CASE i = n - 1
        <5>1. i \in 1..n /\ n \in 1..n /\ n > 1 /\ i \in i..i + 2 /\ n \in i..i + 2 /\ n + 1 \in i..i + 2
          BY <3>1, <4>2
        <5>2. Alone(n - 1) /\ Alone(n) /\ SameCall(CallOf(n - 1), CallOf(n))
          BY <1>1, <3>1, <4>2, <5>1 DEF Thrice, SameCall
        <5>3. SameCall(CallOf(n - 1), calls[1])
          BY <1>1, <1>2, <3>1, <4>2, <5>1 DEF Thrice, SameCall
        <5>4. same
          BY <5>1, <5>2, <5>3 DEF SameCall
        <5> QED
          BY <1>3, <2>8, <5>1, <5>2, <5>4
      <4> QED
        BY <3>1, <4>1, <4>2
    <3>2. ASSUME NEW i \in 1..(n + 1), i + RepeatMax <= n + 1, SameTool(i, i + RepeatMax)'
          PROVE  FALSE
      <4>1. CASE i + RepeatMax <= n
        <5>1. i \in 1..n /\ \A j \in i..i + RepeatMax : j \in 1..n
          BY <4>1, AgentAssumption
        <5>2. SameTool(i, i + RepeatMax)
          BY <1>1, <3>2, <5>1 DEF SameTool
        <5> QED
          BY <1>4, <4>1, <5>1, <5>2
      <4>2. CASE i + RepeatMax = n + 1
        <5>1. SameTool(i, n + 1)'
          BY <3>2, <4>2 DEF SameTool
        <5>2. repeats >= n + 1 - i /\ (i <= n => again)
          BY <2>7, <2>8, <5>1
        <5>3. n + 1 - i = RepeatMax /\ i <= n
          <6> HIDE DEF same, again, dup, repeats
          <6>1. n \in Nat /\ i \in Nat /\ RepeatMax \in Nat \ {0}
            BY AgentAssumption
          <6> QED
            BY <4>2, <6>1
        <5> QED
          BY <2>8, <5>2, <5>3
      <4>3. i + RepeatMax <= n \/ i + RepeatMax = n + 1
        <5> HIDE DEF same, again, dup, repeats
        <5>1. n \in Nat /\ i \in Nat /\ RepeatMax \in Nat /\ i + RepeatMax <= n + 1
          BY <3>2, AgentAssumption
        <5> QED
          BY <5>1
      <4> HIDE DEF same, again, dup, repeats
      <4> QED
        BY <4>1, <4>2, <4>3
    <3> QED
      BY <1>0, <3>1, <3>2 DEF Unstuck
  <2>9. run'.stuck = FALSE => dup < 2 /\ ~(again /\ repeats >= RepeatMax)
    <3>1. run'.stuck = FALSE => ~(dup >= 2) /\ ~(again /\ repeats >= RepeatMax)
      <4> HIDE DEF dup, again
      <4> QED
        BY <2>3
    <3> HIDE DEF dup, again
    <3> QED
      BY <2>4, <3>1
  <2>10. run'.sig = IF n + 1 > 0 /\ Alone(n + 1)' THEN messages'[n + 1].calls ELSE <<>>
    BY <1>0, <2>3, <2>5
  <2>11. run'.stuck \in BOOLEAN
    BY <2>3
  <2> HIDE DEF dup, again, same
  <2> QED
    BY <1>0, <2>3, <2>4, <2>6, <2>7, <2>8, <2>9, <2>10, <2>11 DEF Counters
<1> QED
  BY <1>5, <1>6

(* A result added leaves the calls as they are. *)
LEMMA CallsKept ==
  ASSUME messages \in Seq(ToolRounds), NEW res,
         messages' = [messages EXCEPT ![Len(messages)].results = res]
  PROVE  /\ Len(messages') = Len(messages)
         /\ \A i \in 1..Len(messages) : messages'[i].calls = messages[i].calls
<1>1. Len(messages') = Len(messages)
  OBVIOUS
<1>2. ASSUME NEW i \in 1..Len(messages) PROVE messages'[i].calls = messages[i].calls
  <2>1. messages[i] \in ToolRounds
    BY ElementOfSeq
  <2>2. messages'[i] = messages[i] \/ messages'[i] = [messages[i] EXCEPT !.results = res]
    OBVIOUS
  <2> QED
    BY <2>1, <2>2 DEF ToolRounds
<1> QED
  BY <1>1, <1>2

(* The counters follow the conversation, and stop it. *)
LEMMA CountersStep ==
  Ranges /\ Shapes /\ Tasks /\ Conversation /\ Counters /\ Unasked /\ [Next]_vars
     => Counters' /\ Unasked'
<1> SUFFICES ASSUME Ranges, Shapes, Tasks, Conversation, Counters, Unasked, [Next]_vars
             PROVE  Counters' /\ Unasked'
  OBVIOUS
<1> DEFINE n == Len(messages)
<1>1. messages \in Seq(ToolRounds) /\ n \in Nat
  BY DEF Conversation
<1>2. run.stuck \in BOOLEAN /\ (pc \in {"ask", "failover", "answered"} => run.stuck = FALSE)
  BY DEF Counters
<1>3. CASE Elsewhere
  <2>1. pc' \in {"ask", "failover", "answered"} => run.stuck = FALSE
    BY <1>2, <1>3 DEF Elsewhere, Unasked
  <2>2. Counters'
    BY <1>1, <1>3, <2>1, SameCounters DEF Elsewhere
  <2>3. Unasked'
    BY <1>3 DEF Elsewhere, Unasked
  <2> QED
    BY <2>2, <2>3
<1>4. CASE StartTools
  <2> DEFINE m == [calls |-> resp.calls, results |-> <<>>]
  <2>1. resp.calls \in Seq(Calls) /\ pc = "answered"
    BY <1>4, CallsOfResponse DEF StartTools, Ranges
  <2>2. messages' = Append(messages, m) /\ run' = Counted(resp.calls) /\ pc' \in {"tools", "join"}
    BY <1>4 DEF StartTools
  <2>3. m.calls = resp.calls
    OBVIOUS
  <2> HIDE DEF m
  <2>4. /\ Len(messages') = n + 1 /\ messages'[n + 1].calls = resp.calls
        /\ \A i \in 1..n : messages'[i].calls = messages[i].calls
    BY <1>1, <2>2, <2>3
  <2>5. run.stuck = FALSE /\ Unstuck
    BY <1>2, <2>1 DEF Counters
  <2>6. Counters'
    BY <1>1, <2>1, <2>2, <2>4, <2>5, CountersCount
  <2>7. Unasked'
    BY <2>2 DEF Unasked, Idle
  <2> QED
    BY <2>6, <2>7
<1>5. CASE RunTool
  <2>1. /\ pc' = "decide" /\ run' = run
        /\ AddResult(resp.calls[1].id)
    BY <1>5 DEF RunTool, AddResult
  <2>2. Len(messages') = n /\ \A i \in 1..n : messages'[i].calls = messages[i].calls
    BY <1>1, <2>1, CallsKept DEF AddResult
  <2> QED
    BY <1>1, <2>1, <2>2, SameCounters DEF Unasked, Idle
<1>6. CASE Join
  <2>1. /\ pc' = "join" /\ run' = run
        /\ \/ messages' = messages
           \/ \E id : AddResult(id)
    BY <1>6 DEF Join, Joining
  <2>2. Len(messages') = n /\ \A i \in 1..n : messages'[i].calls = messages[i].calls
    <3>1. ASSUME NEW id, AddResult(id)
          PROVE  Len(messages') = n /\ \A i \in 1..n : messages'[i].calls = messages[i].calls
      BY <1>1, <3>1, CallsKept DEF AddResult
    <3> QED
      BY <2>1, <3>1
  <2> QED
    BY <1>1, <2>1, <2>2, SameCounters DEF Unasked, Idle
<1>7. CASE JoinedAll
  <2>1. pc' = "decide" /\ run' = run /\ messages' = messages
    BY <1>7 DEF JoinedAll, conv
  <2> QED
    BY <1>1, <2>1, SameCounters DEF Unasked, Idle
<1>8. CASE NextRound
  <2>1. /\ pc' = "ask" /\ ~run.stuck /\ messages' = messages
        /\ run'.sig = run.sig /\ run'.dup = run.dup
        /\ run'.repeats = run.repeats /\ run'.stuck = run.stuck
    BY <1>8 DEF NextRound, conv, Shapes
  <2>2. run.stuck = FALSE
    BY <1>2, <2>1
  <2> QED
    BY <1>1, <2>1, <2>2, SameCounters DEF Unasked, Idle
<1>9. CASE Dispatch
  <2>1. pc' = "top" /\ messages' = <<>> /\ run' = FreshRun
    BY <1>9 DEF Dispatch, AfterReply
  <2>2. /\ run'.sig = <<>> /\ run'.dup = 0 /\ run'.repeats = 0 /\ run'.stuck = FALSE
    BY <2>1 DEF FreshRun
  <2>3. Counters'
    <3>1. Len(messages') = 0 /\ Unstuck'
      BY <2>1 DEF Unstuck
    <3>2. /\ run'.dup \in Nat /\ run'.repeats \in Nat
          /\ pc' \notin {"ask", "failover", "answered"}
      BY <2>1, <2>2
    <3>3. run'.stuck \in BOOLEAN
      BY <2>1 DEF FreshRun
    <3> QED
      BY <2>2, <3>1, <3>2, <3>3 DEF Counters
  <2> QED
    BY <2>1, <2>2, <2>3 DEF Unasked
<1> QED
  BY <1>3, <1>4, <1>5, <1>6, <1>7, <1>8, <1>9, ElsewhereStep

LEMMA RoundInit == Init => RoundInv
<1> SUFFICES ASSUME Init PROVE RoundInv
  OBVIOUS
<1> USE DEF Init
<1>1. Watched /\ TraceHonest
  BY DEF Watched, TraceHonest
<1>2. Tasks
  BY AgentAssumption DEF Tasks
<1>3. BuffersAccounted
  <2>1. Held(joined, task) = {} /\ size \in Nat /\ pool = size
    BY AgentAssumption DEF Held
  <2> QED
    BY <2>1, FS_EmptySet DEF BuffersAccounted, Held
<1>4. lost \in Nat /\ ImagesHeld
  <2>1. WithImage(inbound) = {} /\ images = 0 /\ lost = 0 /\ pc = "top"
    BY DEF WithImage
  <2> QED
    BY <2>1, FS_EmptySet DEF ImagesHeld, WithImage
<1>5. Conversation /\ Unasked
  BY DEF Conversation, Unasked, FreshRun
<1>6. Counters
  <2>1. /\ run.sig = <<>> /\ run.dup = 0 /\ run.repeats = 0 /\ run.stuck \in BOOLEAN
        /\ Len(messages) = 0 /\ pc = "top"
    BY DEF FreshRun
  <2>2. Unstuck
    BY DEF Unstuck
  <2> QED
    BY <2>1, <2>2 DEF Counters
<1> QED
  BY <1>1, <1>2, <1>3, <1>4, <1>5, <1>6 DEF RoundInv

LEMMA RoundsInvariant == Spec => []RoundInv
<1>1. Inv /\ RoundInv /\ [Next]_vars => RoundInv'
  <2> SUFFICES ASSUME Inv, RoundInv, [Next]_vars PROVE RoundInv'
    OBVIOUS
  <2>1. Ranges /\ Shapes /\ Undecided /\ Outputs /\ Kinded
    BY DEF Inv
  <2>2. /\ Watched /\ TraceHonest /\ Tasks /\ BuffersAccounted
        /\ lost \in Nat /\ ImagesHeld /\ Conversation /\ Counters /\ Unasked
    BY DEF RoundInv
  <2>3. Watched' /\ TraceHonest'
    BY <2>1, <2>2, TraceStep
  <2>4. Tasks' /\ BuffersAccounted'
    BY <2>1, <2>2, BuffersStep
  <2>5. lost' \in Nat /\ ImagesHeld'
    BY <2>1, <2>2, ImagesStep
  <2>6. Conversation'
    BY <2>1, <2>2, ConversationStep
  <2>7. Counters' /\ Unasked'
    BY <2>1, <2>2, CountersStep
  <2> QED
    BY <2>3, <2>4, <2>5, <2>6, <2>7 DEF RoundInv
<1> QED
  BY RoundInit, InductiveInv, <1>1, PTL DEF Spec

(* Whenever the model is asked, each call of the conversation has a result *)
(* under its id, however many calls a response makes and whether or not    *)
(* their threads could be created; and only one, whichever calls share an  *)
(* id, unless that id has 31 characters or more.                           *)
THEOREM CallsAllAnswered == Spec => []CallsAnswered
<1>1. RoundInv => CallsAnswered
  BY ConversationIsAnswered DEF RoundInv
<1> QED
  BY RoundsInvariant, <1>1, PTL

(* No tool buffer is lost to a path of the loop or freed twice, whatever   *)
(* the size of the pool and the number of tasks; the images allocated are  *)
(* those waiting, the one under work and exactly those that the replies    *)
(* before the language model left behind.                                  *)
THEOREM ResourcesAccounted == Spec => []ResourcesKept
<1>1. RoundInv => ResourcesKept
  BY DEF RoundInv, ResourcesKept
<1> QED
  BY RoundsInvariant, <1>1, PTL

(* A run is traced as OK only with a reply, and not with the watchdog's.   *)
THEOREM TraceIsHonest == Spec => []TraceHonest
<1>1. RoundInv => TraceHonest
  BY DEF RoundInv
<1> QED
  BY RoundsInvariant, <1>1, PTL

(* For any limits, the model is not asked again after three equal calls in *)
(* a row, nor after RepeatMax + 1 calls of one tool in a row.              *)
THEOREM NeverStuck == Spec => []NotStuck
<1>1. RoundInv => NotStuck
  BY DEF RoundInv, Counters, Unstuck, Thrice, SameTool, NotStuck
<1> QED
  BY RoundsInvariant, <1>1, PTL

-----------------------------------------------------------------------------
(* How far the loop's variables can grow *)

LEMMA ImagesCounted ==
  ASSUME Kinded, lost \in Nat, ImagesHeld
  PROVE  images \in Nat
<1>1. Cardinality(WithImage(inbound)) \in Nat /\ Working \in Nat
  BY WithImageIsFinite DEF Kinded, Working
<1> QED
  BY <1>1 DEF ImagesHeld, WithImage, Working

LEMMA QueueStep ==
  ASSUME Shapes, Kinded, Ranges, images \in Int, lost \in Nat, Queue, [Next]_vars
  PROVE  Queue'
<1> DEFINE m == msg.n
<1> USE DEF heap
<1>1. /\ inbound \in Seq(Kinds) /\ Len(inbound) \in Nat /\ arrived \in Nat
      /\ arrived <= MaxMsgs /\ MaxMsgs \in Nat /\ m \in Nat
  BY AgentAssumption DEF Kinded, Ranges, Queue, Msg
<1>2. CASE Pop
  <2> DEFINE k == Head(inbound)
  <2>1. /\ k \in Kinds /\ k.image \in BOOLEAN
        /\ Len(Tail(inbound)) = Len(inbound) - 1 /\ Len(inbound) > 0
    BY <1>1, <1>2, AgentAssumption DEF Pop
  <2>2. /\ msg' = [n |-> m + 1, kind |-> k, image |-> k.image] /\ pc = "pop"
        /\ inbound' = Tail(inbound) /\ arrived' = arrived /\ images' = images /\ lost' = lost
    BY <1>2 DEF Pop
  <2>3. m + 1 \in 0..MaxMsgs
    BY <1>1, <2>1 DEF Queue
  <2> HIDE DEF k
  <2>4. msg' \in Msg /\ msg'.n = m + 1
    BY <2>1, <2>2, <2>3 DEF Msg
  <2> QED
    BY <1>1, <2>1, <2>2, <2>4 DEF Queue
<1>3. CASE PopStopping
  <2>1. Len(Tail(inbound)) = Len(inbound) - 1
    BY <1>1, <1>3 DEF PopStopping
  <2>2. /\ images' = images \/ images' = images - 1
        /\ inbound' = Tail(inbound) /\ arrived' = arrived /\ msg' = msg /\ lost' = lost
        /\ pc' = "exit"
    BY <1>3 DEF PopStopping, Leave
  <2> QED
    BY <1>1, <2>1, <2>2 DEF Queue
<1>4. CASE Vision \/ Dispatch
  <2>1. /\ images' = images \/ images' = images - 1
        /\ inbound' = inbound /\ arrived' = arrived /\ lost' = lost
        /\ pc \notin {"top", "pop", "exit"}
        /\ msg' = [msg EXCEPT !.image = FALSE]
    BY <1>4 DEF Vision, Dispatch, FreeImage
  <2>2. msg' \in Msg /\ msg'.n = m
    BY <2>1 DEF Queue, Msg
  <2> QED
    BY <1>1, <2>1, <2>2 DEF Queue
<1>5. ASSUME NEW k \in Kinds, Arrive(k) PROVE Queue'
  <2>1. Len(Append(inbound, k)) = Len(inbound) + 1
    BY <1>1
  <2>2. /\ images' = images \/ images' = images + 1
        /\ inbound' = Append(inbound, k) /\ arrived' = arrived + 1 /\ msg' = msg
        /\ lost' = lost /\ pc' = pc
    BY <1>5 DEF Arrive
  <2> QED
    BY <1>1, <2>1, <2>2 DEF Queue
<1>6. ASSUME UNCHANGED <<msg, inbound, arrived, images, lost>>,
             pc' \in {"top", "pop", "exit"} \/ pc \notin {"top", "pop", "exit"}
      PROVE  Queue'
  BY <1>6 DEF Queue
<1>12. CASE CheckMemory \/ Slash \/ Guard \/ FastPath
  <2>1. UNCHANGED <<msg, inbound, arrived>> /\ pc \in {"memory", "slash", "guard", "fast"}
    BY <1>12 DEF CheckMemory, Slash, Guard, FastPath
  <2>2. CASE EarlyEnd
    <3>1. lost' \in {lost, lost + 1} /\ images' = images
      BY <2>2 DEF EarlyEnd
    <3>2. pc' = "top" /\ lost < m
      BY <2>1, <2>2 DEF EarlyEnd, AfterReply, Queue
    <3> QED
      BY <1>1, <2>1, <3>1, <3>2 DEF Queue
  <2>3. CASE UNCHANGED heap
    BY <1>6, <2>1, <2>3
  <2> QED
    BY <1>12, <2>2, <2>3 DEF CheckMemory, Slash, Guard, FastPath, Onwards
<1>7. CASE Top \/ PopWoken \/ Hang
  BY <1>6, <1>7 DEF Top, PopWoken, Leave, Hang, Calling, WeakAnswer
<1>8. CASE Route \/ Lookup \/ Ask \/ Failover \/ TimedOut \/ CallFailed \/ Cascade \/ TakeText
  BY <1>6, <1>8 DEF Route, Lookup, Ask, Failover, TimedOut, CallFailed, Cascade, WeakAnswer,
                    TakeText
<1>9. CASE StartTools \/ RunTool \/ Join \/ JoinedAll
  BY <1>6, <1>9 DEF StartTools, RunTool, Join, Joining, JoinedAll
<1>13. CASE ThreadStep
  BY <1>6, <1>13 DEF ThreadStep, ToolThread
<1>10. CASE Stuck \/ TakeOutput \/ Confirm \/ NextRound \/ ForceFinish \/ End \/ Store
  BY <1>6, <1>10 DEF Stuck, TakeOutput, Confirm, NextRound, ForceFinish, End, Store
<1>11. CASE MainStep \/ UNCHANGED vars
  BY <1>6, <1>11 DEF MainStep, vars
<1> QED
  BY <1>2, <1>3, <1>4, <1>5, <1>7, <1>8, <1>9, <1>10, <1>11, <1>12, <1>13 DEF Next, LoopStep

LEMMA PushesStep ==
  ASSUME Shapes, Ranges, Pushed, Lengths, Pushes, [Next]_vars
  PROVE  Pushes'
<1> USE DEF Idle
<1>1. out \in Seq(Replies \cup {"status"}) /\ Len(out) \in Nat /\ run.iter \in Nat
  BY AgentAssumption DEF Pushed, Lengths, Run
<1>2. ASSUME NEW what, Push(what) PROVE Len(out') = Len(out) + 1
  BY <1>1, <1>2 DEF Push
<1>16. ASSUME Announce, pc = "ask", pc' \notin Idle, pc' # "ask" PROVE Pushes'
  <2>1. CASE UNCHANGED out
    BY <1>1, <1>16, <2>1 DEF Pushes
  <2>2. CASE run.iter = 0 /\ out' = Append(out, "status")
    <3>1. Len(out) = 0 /\ Len(out') = Len(out) + 1
      BY <1>1, <1>16, <2>2 DEF Pushes
    <3> QED
      BY <1>16, <3>1 DEF Pushes
  <2> QED
    BY <1>16, <2>1, <2>2 DEF Announce
<1>17. CASE Hang
  <2>1. pc' = "hung" /\ pc \notin {"top", "pop", "exit"}
    BY <1>17 DEF Hang, Calling, WeakAnswer
  <2>2. CASE pc = "ask" /\ Announce
    BY <1>16, <2>1, <2>2
  <2>3. CASE UNCHANGED out
    BY <1>1, <2>1, <2>3 DEF Pushes
  <2> QED
    BY <1>17, <2>2, <2>3 DEF Hang
<1>3. CASE Top \/ PopWoken \/ PopStopping
  BY <1>1, <1>3 DEF Top, PopWoken, PopStopping, Leave, Pushes
<1>4. CASE Pop
  BY <1>4 DEF Pop, Pushes
<1>5. CASE CheckMemory \/ Slash \/ Guard \/ FastPath
  BY <1>1, <1>2, <1>5 DEF CheckMemory, Slash, Guard, FastPath, EarlyEnd, Onwards, AfterReply, Pushes
<1>6. CASE Vision \/ Route \/ Lookup
  BY <1>1, <1>6 DEF Vision, Route, Lookup, Pushes
<1>7. CASE Ask
  BY <1>7, <1>16 DEF Ask
<1>8. CASE Failover \/ TimedOut \/ CallFailed \/ Cascade \/ TakeText
  BY <1>1, <1>8 DEF Failover, TimedOut, CallFailed, Cascade, WeakAnswer, TakeText, Pushes
<1>9. CASE StartTools \/ RunTool \/ Join \/ JoinedAll
  BY <1>1, <1>9 DEF StartTools, RunTool, Join, Joining, JoinedAll, Pushes
<1>10. CASE ThreadStep \/ MainStep \/ (\E k \in Kinds : Arrive(k))
  BY <1>1, <1>10 DEF ThreadStep, ToolThread, MainStep, Arrive, Pushes
<1>11. CASE Stuck \/ TakeOutput \/ Confirm \/ ForceFinish
  BY <1>1, <1>11 DEF Stuck, TakeOutput, Confirm, ForceFinish, Pushes
<1>12. CASE NextRound
  <2>1. run'.iter = run.iter + 1 /\ pc = "decide" /\ pc' = "ask" /\ out' = out
    BY <1>12 DEF NextRound, Shapes
  <2> QED
    BY <1>1, <2>1 DEF Pushes
<1>13. CASE End \/ Store
  BY <1>1, <1>13 DEF End, Store, Pushes
<1>14. CASE Dispatch
  <2>1. Len(out') = Len(out) + 1 /\ Len(out) <= 1 /\ pc' = "top"
    BY <1>2, <1>14 DEF Dispatch, AfterReply, Pushes
  <2> QED
    BY <1>1, <2>1 DEF Pushes
<1>15. CASE UNCHANGED vars
  BY <1>15 DEF vars, Pushes
<1> QED
  BY <1>3, <1>4, <1>5, <1>6, <1>7, <1>8, <1>9, <1>10, <1>11, <1>12, <1>13, <1>14, <1>15, <1>17 DEF Next, LoopStep

(* check_tool_dup counts up to its limits, and there it is stuck. *)
LEMMA CountedInRun ==
  ASSUME run \in Run, run.stuck = FALSE, run.dup < 2, run.repeats < RepeatMax,
         NEW calls \in Rounds, run' = Counted(calls)
  PROVE  /\ run' \in Run /\ run'.iter = run.iter
         /\ run'.stuck = FALSE => run'.dup < 2 /\ run'.repeats < RepeatMax
<1>1. /\ run.dup \in Nat /\ run.repeats \in Nat /\ RepeatMax \in Nat \ {0}
  BY AgentAssumption DEF Run
<1>2. CASE ~Single(calls)
  <2>1. run' = [run EXCEPT !.sig = <<>>, !.dup = 0, !.repeats = 0]
    BY <1>2 DEF Counted
  <2>2. 0 \in 0..2 /\ 0 \in 0..RepeatMax /\ 0 < 2 /\ 0 < RepeatMax
    BY <1>1
  <2> QED
    BY <2>1, <2>2 DEF Run
<1>3. CASE Single(calls)
  <2> DEFINE same == run.sig # <<>> /\ SameCall(run.sig[1], calls[1])
  <2> DEFINE again == run.sig # <<>> /\ run.sig[1].name = calls[1].name
  <2> DEFINE dup == IF same THEN run.dup + 1 ELSE 0
  <2> DEFINE repeats == IF dup >= 2 THEN run.repeats
                        ELSE IF again THEN run.repeats + 1 ELSE 0
  <2> DEFINE stuck == dup >= 2 \/ (again /\ repeats >= RepeatMax)
  <2>1. run' = [run EXCEPT !.sig = calls, !.dup = dup, !.repeats = repeats, !.stuck = stuck]
    BY <1>3 DEF Counted
  <2> HIDE DEF same, again
  <2>0. run.dup < 2 /\ run.repeats < RepeatMax
    OBVIOUS
  <2>12. dup \in 0..2
    BY <1>1, <2>0
  <2>13. repeats \in 0..RepeatMax
    <3> HIDE DEF dup
    <3> QED
      BY <1>1, <2>0
  <2>2. dup \in 0..2 /\ repeats \in 0..RepeatMax
    BY <2>12, <2>13
  <2>3. ~stuck => dup < 2 /\ repeats < RepeatMax
    <3>1. ~stuck => ~(dup >= 2) /\ ~(again /\ repeats >= RepeatMax)
      OBVIOUS
    <3>2. ~again => repeats = 0 \/ dup >= 2
      <4> HIDE DEF dup
      <4> QED
        OBVIOUS
    <3> HIDE DEF dup, repeats, stuck
    <3> QED
      BY <1>1, <2>2, <3>1, <3>2
  <2>4. stuck \in BOOLEAN
    OBVIOUS
  <2> HIDE DEF dup, repeats, stuck
  <2>5. run' \in Run
    <3>1. PICK d \in 0..2, s \in 0..RepeatMax, b \in BOOLEAN :
             run' = [run EXCEPT !.sig = calls, !.dup = d, !.repeats = s, !.stuck = b]
      BY <2>1, <2>2, <2>4
    <3> QED
      BY <3>1 DEF Run
  <2>6. run'.iter = run.iter /\ run'.dup = dup /\ run'.repeats = repeats /\ run'.stuck = stuck
    BY <2>1 DEF Run
  <2> QED
    BY <2>3, <2>5, <2>6
<1> QED
  BY <1>2, <1>3

LEMMA LengthsStep ==
  ASSUME Shapes, Ranges, Known, Queue, Conversation, Counters, Unasked, Lengths, [Next]_vars
  PROVE  Lengths'
<1> DEFINE n == Len(messages)
<1>1. /\ messages \in Seq(ToolRounds) /\ n \in Nat /\ MaxIter \in Nat
      /\ run \in Run /\ run.iter \in Nat /\ run.iter <= MaxIter /\ n <= MaxIter
      /\ toolOut \in Output
  BY AgentAssumption DEF Conversation, Lengths, Run
<1>2. run.stuck = FALSE => run.dup < 2 /\ run.repeats < RepeatMax
  BY DEF Lengths
<1>3. /\ pc \in {"ask", "failover", "answered"} => run.stuck = FALSE
      /\ pc \in Idle => messages = <<>> /\ run.stuck = FALSE
  BY DEF Counters, Unasked
<1> USE DEF Idle
\* Steps that change neither the conversation nor what is counted.
<1>4. ASSUME messages' = messages, toolOut' = toolOut, run' \in Run,
             run'.iter = run.iter, run'.dup = run.dup, run'.repeats = run.repeats,
             run'.stuck = run.stuck,
             pc' \in Idle => pc \in Idle,
             pc' \in {"ask", "failover", "answered"} =>
                pc \in Idle \cup {"ask", "failover", "answered"},
             pc' \in {"failover", "answered"} =>
                pc \in {"failover", "answered"} \/ (pc = "ask" /\ run.iter < MaxIter),
             pc' \in {"tools", "join", "decide"} => pc \in {"tools", "join", "decide"}
      PROVE  Lengths'
  <2>1. pc \in Idle => n = run.iter
    BY <1>3 DEF Lengths
  <2> QED
    BY <1>1, <1>4, <2>1 DEF Lengths
<1>5. CASE Top \/ PopWoken \/ PopStopping \/ Pop \/ Hang
  BY <1>1, <1>4, <1>5 DEF Top, PopWoken, PopStopping, Pop, Hang, Leave, conv
<1>6. CASE CheckMemory \/ Slash \/ Guard \/ FastPath
  BY <1>1, <1>4, <1>6 DEF CheckMemory, Slash, Guard, FastPath, EarlyEnd, Onwards, AfterReply, conv
<1>7. CASE Vision
  <2>1. CASE UNCHANGED run
    BY <1>1, <1>4, <1>7, <2>1 DEF Vision, conv
  <2>2. CASE run' = [run EXCEPT !.final = "vision"]
    <3>1. run' \in Run
      BY <1>1, <2>2 DEF Run, Texts
    <3> QED
      BY <1>1, <1>4, <1>7, <2>2, <3>1 DEF Vision, Run, conv
  <2> QED
    BY <1>7, <2>1, <2>2 DEF Vision
<1>8. CASE Route
  <2>1. PICK b \in Backends \cup {None} : run' = [run EXCEPT !.backend = b, !.trace = "begun"]
    BY <1>8 DEF Route
  <2>2. run' \in Run
    BY <1>1, <2>1 DEF Run
  <2> QED
    BY <1>1, <1>4, <1>8, <2>1, <2>2 DEF Route, Run, conv
<1>9. CASE Lookup
  <2>1. CASE UNCHANGED run
    BY <1>1, <1>4, <1>9, <2>1 DEF Lookup, conv
  <2>2. CASE /\ run' = [run EXCEPT !.final = Cached, !.hit = TRUE, !.trace = "ok"]
             /\ Cached # None /\ pc' = "store"
    <3>1. Cached \in Texts \cup {None}
      BY DEF Cached, Known, Queries, Queue, Msg
    <3>2. run' \in Run
      BY <1>1, <2>2, <3>1 DEF Run
    <3> QED
      BY <1>1, <1>4, <1>9, <2>2, <3>2 DEF Lookup, Run, conv
  <2> QED
    BY <1>9, <2>1, <2>2 DEF Lookup
<1>10. CASE Ask
  BY <1>1, <1>4, <1>10 DEF Ask
<1>11. CASE Failover
  <2>1. CASE UNCHANGED run
    BY <1>1, <1>4, <1>11, <2>1 DEF Failover
  <2>2. CASE \E b \in Backends : run' = [run EXCEPT !.backend = b]
    <3>1. run' \in Run
      BY <1>1, <2>2 DEF Run
    <3> QED
      BY <1>1, <1>4, <1>11, <2>2, <3>1 DEF Failover, Run
  <2> QED
    BY <1>11, <2>1, <2>2 DEF Failover
<1>12. CASE CallFailed \/ Stuck
  BY <1>1, <1>4, <1>12 DEF CallFailed, Stuck, conv
<1>13. CASE TimedOut
  <2>1. run' = [run EXCEPT !.final = "timeout", !.fired = TRUE]
    BY <1>13 DEF TimedOut
  <2>2. run' \in Run
    BY <1>1, <2>1 DEF Run, Texts
  <2> QED
    BY <1>1, <1>4, <1>13, <2>1, <2>2 DEF TimedOut, Run, conv
<1>14. CASE Cascade
  <2>1. PICK b \in Backends, r \in Responses :
           run' = [run EXCEPT !.backend = b, !.fired = r.late,
                              !.final = IF r.late THEN "timeout" ELSE "answer"]
    BY <1>14 DEF Cascade, WeakAnswer
  <2>2. r.late \in BOOLEAN
    BY DEF Responses, Answers
  <2>3. run' \in Run
    BY <1>1, <2>1, <2>2 DEF Run, Texts
  <2> QED
    BY <1>1, <1>4, <1>14, <2>1, <2>3 DEF Cascade, WeakAnswer, Run
<1>15. CASE TakeText
  <2>1. run' = [run EXCEPT !.final = IF resp.text = None THEN None ELSE "answer"]
    BY <1>15 DEF TakeText
  <2>2. run' \in Run
    BY <1>1, <2>1 DEF Run, Texts
  <2> QED
    BY <1>1, <1>4, <1>15, <2>1, <2>2 DEF TakeText, Run, conv
<1>16. CASE StartTools
  <2>1. resp.calls \in Rounds /\ pc = "answered" /\ run' = Counted(resp.calls)
        /\ pc' \in {"tools", "join"} /\ toolOut' = toolOut
    BY <1>16, CallsOfResponse DEF StartTools, Ranges
  <2>2. /\ run' \in Run /\ run'.iter = run.iter
        /\ run'.stuck = FALSE => run'.dup < 2 /\ run'.repeats < RepeatMax
    BY <1>1, <1>2, <1>3, <2>1, CountedInRun
  <2>3. n = run.iter /\ run.iter < MaxIter
    BY <2>1 DEF Lengths
  <2>4. Len(messages') = n + 1
    BY <1>1, <1>16 DEF StartTools
  <2> QED
    BY <1>1, <2>1, <2>2, <2>3, <2>4 DEF Lengths
<1>17. ASSUME pc \in {"tools", "join"}, run' = run, toolOut' \in Output,
              Len(messages') = n, pc' \in {"join", "decide"}
       PROVE  Lengths'
  BY <1>1, <1>2, <1>17 DEF Lengths
<1>18. CASE RunTool
  <2>1. PICK t \in {"empty", "text", "complete"} :
           toolOut' = [msg |-> msg.n, round |-> run.iter, text |-> t]
    BY <1>18 DEF RunTool
  <2>2. msg.n \in 0..MaxMsgs /\ run.iter \in 0..MaxIter
    BY <1>1 DEF Queue, Msg
  <2>3. toolOut' \in Output
    BY <2>1, <2>2 DEF Output
  <2>4. Len(messages') = n
    BY <1>1, <1>18 DEF RunTool, AddResult
  <2> QED
    BY <1>17, <1>18, <2>3, <2>4 DEF RunTool
<1>19. CASE Join
  <2>1. Len(messages') = n
    BY <1>1, <1>19 DEF Join, AddResult
  <2> QED
    BY <1>1, <1>17, <1>19, <2>1 DEF Join, Joining
<1>20. CASE JoinedAll
  BY <1>1, <1>17, <1>20 DEF JoinedAll, conv
<1>21. CASE TakeOutput
  <2>1. run' = [run EXCEPT !.final = "tool"]
    BY <1>21 DEF TakeOutput
  <2>2. run' \in Run
    BY <1>1, <2>1 DEF Run, Texts
  <2> QED
    BY <1>1, <1>4, <1>21, <2>1, <2>2 DEF TakeOutput, Run, conv
<1>22. CASE Confirm
  <2>1. PICK text \in {"confirm", "taskTimeout", None} :
           run' = [run EXCEPT !.final = text, !.fired = (text = "taskTimeout")]
    BY <1>22 DEF Confirm
  <2>2. (text = "taskTimeout") \in BOOLEAN /\ text \in Texts \cup {None}
    BY DEF Texts
  <2>3. run' \in Run
    BY <1>1, <2>1, <2>2 DEF Run
  <2> QED
    BY <1>1, <1>4, <1>22, <2>1, <2>3 DEF Confirm, Run, conv
<1>23. CASE NextRound
  <2>1. /\ run' = [run EXCEPT !.iter = run.iter + 1] /\ pc = "decide" /\ pc' = "ask"
        /\ messages' = messages /\ toolOut' = toolOut
    BY <1>23 DEF NextRound, conv
  <2>2. run.iter < MaxIter /\ n = run.iter + 1
    BY <2>1 DEF Lengths
  <2>3. run.iter + 1 \in 0..MaxIter
    BY <1>1, <2>2
  <2>4. run' \in Run /\ run'.iter = run.iter + 1 /\ run'.dup = run.dup
        /\ run'.repeats = run.repeats /\ run'.stuck = run.stuck
    BY <1>1, <2>1, <2>3 DEF Run
  <2> QED
    BY <1>1, <1>2, <2>1, <2>2, <2>4 DEF Lengths
<1>24. CASE ForceFinish
  <2>1. PICK text \in {"answer", "timeout", None} :
           run' = [run EXCEPT !.final = text, !.trace = "timeout"]
    BY <1>24 DEF ForceFinish
  <2>2. run' \in Run
    BY <1>1, <2>1 DEF Run, Texts
  <2> QED
    BY <1>1, <1>4, <1>24, <2>1, <2>2 DEF ForceFinish, Run, conv
<1>25. CASE End
  <2>1. run' = [run EXCEPT !.trace = IF run.fired THEN "timeout"
                                     ELSE IF run.final # None THEN "ok" ELSE "fail"]
    BY <1>25 DEF End
  <2>2. run' \in Run
    BY <1>1, <2>1 DEF Run
  <2> QED
    BY <1>1, <1>4, <1>25, <2>1, <2>2 DEF End, Run, conv
<1>26. CASE Store
  BY <1>1, <1>4, <1>26 DEF Store, conv
<1>27. CASE Dispatch
  <2>1. run' = FreshRun /\ messages' = <<>> /\ toolOut' = toolOut /\ pc' = "top"
    BY <1>27 DEF Dispatch, AfterReply
  <2>2. run' \in Run
    BY <2>1, AgentAssumption DEF FreshRun, Run
  <2>3. run'.iter = 0 /\ run'.dup < 2 /\ run'.repeats < RepeatMax
    BY <2>1, AgentAssumption DEF FreshRun
  <2> QED
    BY <1>1, <2>1, <2>2, <2>3 DEF Lengths
<1>28. CASE ThreadStep \/ MainStep \/ (\E k \in Kinds : Arrive(k))
  BY <1>1, <1>4, <1>28 DEF ThreadStep, ToolThread, MainStep, Arrive, conv
<1>29. CASE UNCHANGED vars
  BY <1>1, <1>4, <1>29 DEF vars, conv
<1> QED
  BY <1>5, <1>6, <1>7, <1>8, <1>9, <1>10, <1>11, <1>12, <1>13, <1>14, <1>15, <1>16, <1>18, <1>19, <1>20, <1>21, <1>22, <1>23, <1>24, <1>25, <1>26, <1>27, <1>28, <1>29 DEF Next, LoopStep

(* The buffers handed out are counted: those free never exceed the pool.   *)
LEMMA PoolStep ==
  ASSUME Ranges, Ranges', Shapes, Tasks', BuffersAccounted', pool <= size, [Next]_vars
  PROVE  pool' <= size'
<1>1. CASE pc' # "exit"
  <2>1. Len(task') \in Nat /\ joined' \in Nat /\ pool' \in Nat
    BY DEF Tasks
  <2>2. Cardinality(Held(joined', task')) \in Nat
    BY <2>1, HeldIsFinite
  <2>3. pool' + Cardinality(Held(joined', task')) = size'
    BY <1>1 DEF BuffersAccounted, Held
  <2> QED
    BY <2>1, <2>2, <2>3
<1>2. CASE pc' = "exit"
  <2>1. Elsewhere
    BY <1>2, ElsewhereStep DEF StartTools, RunTool, Join, Joining, JoinedAll, NextRound,
         Dispatch, AfterReply
  <2>2. size' \in Nat
    BY AgentAssumption DEF Ranges
  <2> QED
    BY <2>1, <2>2 DEF Elsewhere
<1> QED
  BY <1>1, <1>2

LEMMA LimitsInit == Init => Limits
<1> SUFFICES ASSUME Init PROVE Limits
  OBVIOUS
<1> USE AgentAssumption DEF Init
<1>1. NoMsg \in Msg /\ NoMsg.n = 0
  <2>1. (CHOOSE k \in Kinds : TRUE) \in Kinds
    OBVIOUS
  <2> QED
    BY <2>1 DEF NoMsg, Msg
<1>2. Queue
  BY <1>1 DEF Queue
<1>3. Pushes
  BY DEF Pushes, Idle
<1>4. run \in Run /\ toolOut \in Output
  BY DEF FreshRun, Run, NoOutput, Output
<1>5. run.iter = 0 /\ run.dup = 0 /\ run.repeats = 0
  BY DEF FreshRun
<1>6. Lengths
  BY <1>4, <1>5 DEF Lengths
<1> QED
  BY <1>2, <1>3, <1>6 DEF Limits

LEMMA LimitsInvariant == Spec => []Limits
<1>1. Inv /\ Inv' /\ RoundInv /\ RoundInv' /\ Limits /\ [Next]_vars => Limits'
  <2> SUFFICES ASSUME Inv, Inv', RoundInv, RoundInv', Limits, [Next]_vars PROVE Limits'
    OBVIOUS
  <2>1. Ranges /\ Ranges' /\ Shapes /\ Kinded /\ Known /\ Pushed
    BY DEF Inv
  <2>8. lost \in Nat /\ ImagesHeld
    BY DEF RoundInv
  <2>2. /\ images \in Int /\ lost \in Nat /\ Conversation /\ Counters /\ Unasked
        /\ Tasks' /\ BuffersAccounted'
    BY <2>1, <2>8, ImagesCounted DEF RoundInv
  <2>3. Queue /\ Pushes /\ Lengths /\ pool <= size
    BY DEF Limits
  <2>4. Queue'
    BY <2>1, <2>2, <2>3, QueueStep
  <2>5. Pushes'
    BY <2>1, <2>3, PushesStep
  <2>6. Lengths'
    BY <2>1, <2>2, <2>3, LengthsStep
  <2>7. pool' <= size'
    BY <2>1, <2>2, <2>3, PoolStep
  <2> QED
    BY <2>4, <2>5, <2>6, <2>7 DEF Limits
<1> QED
  BY LimitsInit, InductiveInv, RoundsInvariant, <1>1, PTL DEF Spec

(***************************************************************************)
(* For any messages, rounds, backends and limits the variables keep their  *)
(* types and bounds: no run takes more rounds than the limit, no message   *)
(* gets more than a status and a reply, and the conversation, the tasks    *)
(* and the free buffers stay within what was allocated for them.           *)
(***************************************************************************)
THEOREM TypeCorrect == Spec => []TypeOK
<1>1. Inv /\ RoundInv /\ Limits => TypeOK
  <2> SUFFICES ASSUME Inv, RoundInv, Limits PROVE TypeOK
    OBVIOUS
  <2> USE AgentAssumption
  <2>1. Ranges /\ Kinded /\ Pushed
    BY DEF Inv
  <2>2. lost \in Nat /\ ImagesHeld /\ Conversation /\ Tasks
    BY DEF RoundInv
  <2>3. Queue /\ Pushes /\ Lengths /\ pool <= size
    BY DEF Limits
  <2>4. images \in 0..MaxMsgs /\ lost \in 0..MaxMsgs
    <3>1. images \in Nat
      BY <2>1, <2>2, ImagesCounted
    <3> QED
      BY <2>1, <2>2, <2>3, <3>1 DEF Queue, Ranges, Msg
  <2>5. Len(out) <= 2
    BY <2>1, <2>3 DEF Pushes, Pushed
  <2>6. task \in Seq(Task) /\ joined \in 0..Len(task) /\ Len(task) <= MaxCalls
    <3>1. Len(resp.calls) <= MaxCalls
      BY <2>1, LenOfResponse DEF Ranges
    <3> QED
      BY <2>2, <3>1 DEF Tasks
  <2>7. joined \in 0..MaxCalls
    BY <2>6
  <2>8. pool \in 0..MaxCalls
    BY <2>1, <2>2, <2>3 DEF Ranges, Tasks
  <2> QED
    BY <2>1, <2>2, <2>3, <2>4, <2>5, <2>6, <2>7, <2>8
       DEF TypeOK, Ranges, Kinded, Pushed, Queue, Lengths, Conversation
<1> QED
  BY InductiveInv, RoundsInvariant, LimitsInvariant, <1>1, PTL

-----------------------------------------------------------------------------
(* How far the work on a message is from its reply, within a round, or     *)
(* from the call it will not return from.                                  *)
Station ==
    [memory |-> 18, slash |-> 17, guard |-> 16, fast |-> 15, vision |-> 14,
     route |-> 13, lookup |-> 12, ask |-> 11, failover |-> 10, answered |-> 9,
     tools |-> 8, join |-> 8, decide |-> 7, end |-> 3, store |-> 2, dispatch |-> 1, hung |-> 0]

Busy == pc \in DOMAIN Station

(* The next round, the next station of this one, or the next task joined. *)
NearerReply ==
    /\ Busy' /\ msg'.n = msg.n
    /\ \/ run.iter < run'.iter /\ run'.iter <= MaxIter
       \/ run'.iter = run.iter /\ Station[pc'] < Station[pc]
       \/ run'.iter = run.iter /\ pc = "join" /\ pc' = "join"
            /\ joined < joined' /\ joined' <= Len(task)

(* What the tools, the channels and the shutdown do leaves the turn there. *)
SameTurn == UNCHANGED <<pc, run, joined, msg>>

TurnAdvances ==
    Busy => \/ SameTurn
            \/ LoopStep /\ (NearerReply \/ pc' = "top")

(* A step to a later station of the same round. *)
LEMMA LaterStation ==
    ASSUME Busy, NEW at \in DOMAIN Station, pc' = at, Station[at] < Station[pc],
           run'.iter = run.iter, msg'.n = msg.n
    PROVE  NearerReply
BY DEF NearerReply, Busy

(* What the loop does on the way to the language model. *)
LEMMA EarlyAdvance ==
    ASSUME TypeOK, Busy,
           CheckMemory \/ Slash \/ Guard \/ FastPath \/ Vision \/ Route \/ Lookup
    PROVE  NearerReply \/ pc' = "top"
<1>1. msg'.n = msg.n /\ run'.iter = run.iter
  BY DEF TypeOK, Msg, Run, CheckMemory, Slash, Guard, FastPath, Vision, Route, Lookup, FreeImage
<1>2. \/ pc' = "top"
      \/ pc = "memory" /\ pc' = "slash"
      \/ pc = "slash" /\ pc' = "guard"
      \/ pc = "guard" /\ pc' = "fast"
      \/ pc = "fast" /\ pc' = "vision"
      \/ pc = "vision" /\ pc' \in {"route", "dispatch"}
      \/ pc = "route" /\ pc' \in {"lookup", "ask"}
      \/ pc = "lookup" /\ pc' \in {"ask", "store"}
  BY DEF CheckMemory, Slash, Guard, FastPath, Vision, Route, Lookup, EarlyEnd, Onwards, AfterReply
<1>3. pc' = "top" \/ (pc' \in DOMAIN Station /\ Station[pc'] < Station[pc])
  BY <1>2 DEF Station
<1> QED
  BY <1>1, <1>3, LaterStation

(* A round of tools is counted without a change of round. *)
LEMMA CountingKeepsRound ==
    ASSUME run \in Run, NEW calls
    PROVE  Counted(calls).iter = run.iter
BY DEF Counted, Run

(* What the loop does with an answer of the language model. *)
LEMMA AnswerAdvance ==
    ASSUME TypeOK, Busy,
           Ask \/ Failover \/ TimedOut \/ CallFailed \/ Cascade \/ TakeText \/ StartTools
    PROVE  NearerReply
<1>1. msg'.n = msg.n
  BY DEF Ask, Failover, TimedOut, CallFailed, Cascade, WeakAnswer, TakeText, StartTools
<1>2. run'.iter = run.iter
  <2>1. CASE StartTools
    BY <2>1, CountingKeepsRound DEF TypeOK, StartTools
  <2>2. CASE Ask \/ Failover \/ TimedOut \/ CallFailed \/ Cascade \/ TakeText
    BY <2>2 DEF TypeOK, Run, Ask, Failover, TimedOut, CallFailed, Cascade, WeakAnswer, TakeText
  <2> QED
    BY <2>1, <2>2
<1>3. \/ pc = "ask" /\ pc' \in {"failover", "answered"}
      \/ pc = "failover" /\ pc' = "answered"
      \/ pc = "answered" /\ pc' \in {"end", "tools", "join"}
  BY DEF Ask, Failover, TimedOut, CallFailed, Cascade, WeakAnswer, TakeText, StartTools
<1>4. pc' \in DOMAIN Station /\ Station[pc'] < Station[pc]
  BY <1>3 DEF Station
<1> QED
  BY <1>1, <1>2, <1>4, LaterStation

(* What the loop does with the tools and after them. *)
LEMMA ToolsAdvance ==
    ASSUME TypeOK, TypeOK', Busy,
           RunTool \/ Join \/ JoinedAll \/ Stuck \/ TakeOutput \/ Confirm \/ NextRound
    PROVE  NearerReply
<1>1. msg'.n = msg.n
  BY DEF RunTool, Join, JoinedAll, Stuck, TakeOutput, Confirm, NextRound
<1>2. CASE Join
  <2>1. /\ pc = "join" /\ pc' = "join" /\ run' = run
        /\ joined < Len(task) /\ joined' = joined + 1
    BY <1>2 DEF Join, Joining
  <2>2. joined \in Nat /\ Len(task) \in Nat
    BY LenProperties DEF TypeOK
  <2>3. joined < joined' /\ joined' <= Len(task)
    BY <2>1, <2>2
  <2> QED
    BY <1>1, <2>1, <2>3 DEF NearerReply, Busy, Station
<1>3. CASE NextRound
  <2>1. pc' = "ask" /\ run' = [run EXCEPT !.iter = @ + 1]
    BY <1>3 DEF NextRound
  <2>2. run.iter \in Nat /\ run'.iter = run.iter + 1
    BY <2>1, AgentAssumption DEF TypeOK, Run
  <2>3. run'.iter <= MaxIter
    BY AgentAssumption DEF TypeOK, Run
  <2>4. run.iter < run'.iter
    BY <2>2
  <2> QED
    BY <1>1, <2>1, <2>3, <2>4 DEF NearerReply, Busy, Station
<1>4. CASE RunTool \/ JoinedAll \/ Stuck \/ TakeOutput \/ Confirm
  <2>1. run'.iter = run.iter
    BY <1>4 DEF TypeOK, Run, RunTool, JoinedAll, Stuck, TakeOutput, Confirm
  <2>2. \/ pc \in {"tools", "join"} /\ pc' = "decide"
        \/ pc = "decide" /\ pc' = "end"
    BY <1>4 DEF RunTool, JoinedAll, Stuck, TakeOutput, Confirm
  <2>3. pc' \in DOMAIN Station /\ Station[pc'] < Station[pc]
    BY <2>2 DEF Station
  <2> QED
    BY <1>1, <2>1, <2>3, LaterStation
<1> QED
  BY <1>2, <1>3, <1>4

(* A call that does not return. *)
LEMMA HangAdvance ==
    ASSUME TypeOK, Busy, Hang
    PROVE  NearerReply
<1>1. msg'.n = msg.n /\ run'.iter = run.iter /\ pc' = "hung" /\ pc # "hung"
  BY DEF Hang, Calling, WeakAnswer
<1>2. pc' \in DOMAIN Station /\ Station[pc'] < Station[pc]
  BY <1>1 DEF Station, Busy
<1> QED
  BY <1>1, <1>2, LaterStation

(* How a run ends. *)
LEMMA EndAdvance ==
    ASSUME TypeOK, Busy, ForceFinish \/ End \/ Store \/ Dispatch
    PROVE  NearerReply \/ pc' = "top"
<1>1. CASE Dispatch
  BY <1>1 DEF Dispatch, AfterReply
<1>2. CASE ForceFinish \/ End \/ Store
  <2>1. msg'.n = msg.n /\ run'.iter = run.iter
    BY <1>2 DEF TypeOK, Run, ForceFinish, End, Store
  <2>2. \/ pc \in {"ask", "end"} /\ pc' = "store"
        \/ pc = "store" /\ pc' = "dispatch"
    BY <1>2 DEF ForceFinish, End, Store
  <2>3. pc' \in DOMAIN Station /\ Station[pc'] < Station[pc]
    BY <2>2 DEF Station
  <2> QED
    BY <2>1, <2>3, LaterStation
<1> QED
  BY <1>1, <1>2

(* Whatever the language model answers and the tools do, every step of the *)
(* loop brings a message nearer to its reply, or to a call that does not   *)
(* return, and nothing else takes it further away: at most MaxIter + 1     *)
(* rounds, at most MaxCalls joins in one and a fixed way between them      *)
(* bound the steps of run_react_loop.                                      *)
THEOREM TurnsAdvance == Spec => [][TurnAdvances]_vars
<1>1. ASSUME TypeOK, TypeOK', [Next]_vars PROVE [TurnAdvances]_vars
  <2> SUFFICES ASSUME Next, Busy
               PROVE  SameTurn \/ (LoopStep /\ (NearerReply \/ pc' = "top"))
    BY <1>1 DEF TurnAdvances
  <2>1. CASE LoopStep
    <3>1. ~(Top \/ PopWoken \/ PopStopping \/ Pop)
      BY DEF Busy, Station, Top, PopWoken, PopStopping, Pop
    <3> QED
      BY <1>1, <2>1, <3>1, EarlyAdvance, AnswerAdvance, ToolsAdvance, HangAdvance, EndAdvance
         DEF LoopStep
  <2>2. CASE ThreadStep
    BY <2>2 DEF ThreadStep, ToolThread, SameTurn
  <2>3. CASE \E k \in Kinds : Arrive(k)
    BY <2>3 DEF Arrive, par, SameTurn
  <2>4. CASE MainStep
    BY <2>4 DEF MainStep, par, SameTurn
  <2> QED
    BY <2>1, <2>2, <2>3, <2>4 DEF Next
<1> QED
  BY <1>1, TypeCorrect, PTL DEF Spec
=============================================================================
