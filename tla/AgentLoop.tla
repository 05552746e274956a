------------------------------ MODULE AgentLoop ------------------------------
(***************************************************************************)
(* The board's agent loop: one thread takes a message from the inbound     *)
(* bus, answers it from a slash command, a keyword, the vision model, the  *)
(* response cache or the ReAct loop (ask the language model, run the tools *)
(* it calls, ask again), and pushes the reply to the outbound bus.         *)
(*                                                                         *)
(* What the language model, the router and the tools return is any of the  *)
(* things the code tells apart.  Session history is an input of the model  *)
(* only, and left out, and so is a failure to allocate what the reply is   *)
(* made from, where no line below mentions it.  A reply is known by its    *)
(* origin, and "dropped" is one that did not get to the outbound bus.      *)
(***************************************************************************)
EXTENDS Integers, Sequences, FiniteSets

CONSTANTS
    Kinds,       \* messages: [query, simple, slash, inject, fast, image]
    Rounds,      \* tool calls of one response: sequences of [name, arg, id]
    Backends,    \* backends the router selects from
    MaxIter,     \* AGENT_AI_AGENT_MAX_TOOL_ITER
    RepeatMax,   \* AGENT_TOOL_NAME_REPEAT_MAX
    LongIds,     \* ids of calls of 31 characters and more
    MaxCalls,    \* AGENT_MAX_TOOL_CALLS, calls in a response, buffers in the pool
    MaxMsgs,     \* bound on messages
    MaxStops     \* bound on shutdown requests, of which the first counts

None == "none"
Calls == UNION {{r[i] : i \in 1..Len(r)} : r \in Rounds}

ASSUME AgentAssumption ==
    /\ Kinds # {} /\ None \notin Backends
    /\ MaxIter \in Nat /\ RepeatMax \in Nat \ {0}
    /\ MaxCalls \in Nat /\ MaxMsgs \in Nat /\ MaxStops \in {0, 1}
    /\ \A k \in Kinds : k.image \in BOOLEAN
    /\ \A r \in Rounds : r \in Seq(Calls) /\ Len(r) <= MaxCalls

VARIABLES
    inbound,   \* messages waiting
    arrived,   \* messages so far
    main,      \* main thread: "running", "stopping", "woken", "torn"
    pc,        \* where the loop thread is
    msg,       \* the message being answered, and its number
    out,       \* what was pushed to the outbound bus for it
    images,    \* image buffers allocated
    lost,      \* those that nothing refers to any more
    run,       \* locals of run_react_loop
    messages,  \* tool rounds of the conversation: the calls, and ids of results
    resp,      \* the language model's last response
    toolOut,   \* tool_output, shared by all rounds and messages
    task,      \* threads of a parallel round and whether their buffer is pooled
    joined,    \* how many of them are joined
    pool,      \* free buffers of the pool
    size,      \* buffers the pool was made with, 0 if that failed
    applied,   \* the backend the router applied last
    cache      \* query -> cached reply, or None

conv == <<messages, resp, toolOut>>
par == <<task, joined, pool, size>>
heap == <<images, lost>>
vars == <<inbound, arrived, main, pc, msg, out, heap, run, conv, par, applied, cache>>

-----------------------------------------------------------------------------
Texts == {"answer", "timeout", "taskTimeout", "tool", "confirm", "vision"}
Replies == Texts \cup {"lowMemory", "slash", "refused", "fast", "error", "dropped"}

FreshRun == [iter |-> 0, sig |-> <<>>, dup |-> 0, repeats |-> 0, stuck |-> FALSE,
             final |-> None, fired |-> FALSE, backend |-> None, hit |-> FALSE,
             trace |-> "off"]

\* A response: did the call work, was it too late, does it call tools.
Answers(ok, late, use, texts, calls) ==
    [ok : ok, late : late, use : use, text : texts, calls : calls]
Responses ==
    Answers({FALSE}, BOOLEAN, {FALSE}, {None}, {<<>>}) \cup
    Answers({TRUE}, {TRUE}, {FALSE}, {"full"}, {<<>>}) \cup
    Answers({TRUE}, {FALSE}, {FALSE}, {None, "weak", "full"}, {<<>>}) \cup
    Answers({TRUE}, {FALSE}, {TRUE}, {None, "full"}, Rounds)
NoResponse == [ok |-> FALSE, late |-> FALSE, use |-> FALSE, text |-> None, calls |-> <<>>]

NoOutput == [msg |-> 0, round |-> 0, text |-> "empty"]
Queries == {k.query : k \in Kinds}
NoMsg == [n |-> 0, kind |-> CHOOSE k \in Kinds : TRUE, image |-> FALSE]

Msg == [n : 0..MaxMsgs, kind : Kinds, image : BOOLEAN]
Run == [iter : 0..MaxIter, sig : Rounds \cup {<<>>}, dup : 0..2, repeats : 0..RepeatMax,
        stuck : BOOLEAN, final : Texts \cup {None}, fired : BOOLEAN,
        backend : Backends \cup {None}, hit : BOOLEAN,
        trace : {"off", "begun", "ok", "timeout", "fail"}]
CallIds == {c.id : c \in Calls}
ToolRounds == [calls : Rounds, results : Seq(CallIds)]
Output == [msg : 0..MaxMsgs, round : 0..MaxIter, text : {"empty", "text", "complete"}]
Task == [at : {"running", "dead", "ran", "hung"}, pooled : BOOLEAN]

(* Types, and how far what grows can grow: at most a status and a reply    *)
(* are pushed for a message, and no more rounds run than the limit allows. *)
TypeOK ==
    /\ inbound \in Seq(Kinds) /\ arrived \in 0..MaxMsgs
    /\ main \in {"running", "stopping", "woken", "torn"}
    /\ pc \in {"top", "pop", "memory", "slash", "guard", "fast", "vision", "route", "lookup",
               "ask", "failover", "answered", "tools", "join", "decide", "end",
               "store", "dispatch", "hung", "exit"}
    /\ msg \in Msg
    /\ out \in Seq(Replies \cup {"status"}) /\ Len(out) <= 2
    /\ images \in 0..MaxMsgs /\ lost \in 0..MaxMsgs
    /\ run \in Run
    /\ messages \in Seq(ToolRounds) /\ Len(messages) <= MaxIter
    /\ resp \in Responses \cup {NoResponse}
    /\ toolOut \in Output
    /\ task \in Seq(Task) /\ Len(task) <= MaxCalls
    /\ joined \in 0..MaxCalls /\ pool \in 0..MaxCalls
    /\ size \in {0, MaxCalls}
    /\ applied \in Backends \cup {None}
    /\ cache \in [Queries -> Texts \cup {None}]

Init ==
    /\ inbound = <<>> /\ arrived = 0 /\ main = "running"
    /\ pc = "top" /\ msg = NoMsg /\ out = <<>> /\ images = 0 /\ lost = 0
    /\ run = FreshRun
    /\ messages = <<>> /\ resp = NoResponse /\ toolOut = NoOutput
    /\ task = <<>> /\ joined = 0
    /\ size \in {0, MaxCalls} /\ pool = size
    /\ applied = None
    /\ cache = [q \in Queries |-> None]

-----------------------------------------------------------------------------
(* The surroundings *)

Arrive(k) ==
    /\ arrived < MaxMsgs /\ main # "torn"
    /\ arrived' = arrived + 1
    /\ inbound' = Append(inbound, k)
    /\ images' = IF k.image THEN images + 1 ELSE images
    /\ UNCHANGED <<lost, main, pc, msg, out, run, conv, par, applied, cache>>

(* ai_agent_main: a second after the request the bus is woken, and half a  *)
(* second later what the loop uses is cleaned up.  What the loop does from *)
(* then on is undefined, and not modelled.                                 *)
MainStep ==
    /\ main' = CASE main = "running" -> "stopping"
                 [] main = "stopping" -> "woken"
                 [] main = "woken" -> "torn"
                 [] OTHER -> main
    /\ main # "torn"
    /\ main = "running" => MaxStops = 1
    /\ UNCHANGED <<inbound, arrived, pc, msg, out, heap, run, conv, par, applied, cache>>

-----------------------------------------------------------------------------
(* agent_loop_task: up to the language model *)

Stopping == main # "running"

FreeImage == /\ images' = IF msg.image THEN images - 1 ELSE images
             /\ msg' = [msg EXCEPT !.image = FALSE]
             /\ UNCHANGED lost

(* The bus may refuse the reply, which is then freed, and a fixed text may *)
(* find no memory; it is not tried again.                                  *)
Push(what) == out' \in {Append(out, what), Append(out, "dropped")}

AfterReply == pc' = "top"

(* The early replies free the content of the message, not its image. *)
EarlyEnd == /\ AfterReply
            /\ lost' = IF msg.image THEN lost + 1 ELSE lost
            /\ UNCHANGED images

Onwards(stage) == pc' = stage /\ UNCHANGED <<out, heap>>

\* The loop ends, and its pool with it.
Leave == pc' = "exit" /\ pool' = 0 /\ size' = 0

Top ==
    /\ pc = "top"
    /\ IF Stopping THEN Leave ELSE pc' = "pop" /\ UNCHANGED <<pool, size>>
    /\ UNCHANGED <<inbound, arrived, main, msg, out, heap, run, conv, task, joined,
                   applied, cache>>

(* Only a wakeup makes message_bus_pop_inbound return without a message. *)
PopWoken ==
    /\ pc = "pop" /\ main = "woken"
    /\ pc' = "top"
    /\ UNCHANGED <<inbound, arrived, main, msg, out, heap, run, conv, par, applied, cache>>

PopStopping ==
    /\ pc = "pop" /\ Stopping /\ inbound # <<>>
    /\ inbound' = Tail(inbound)
    /\ images' = IF Head(inbound).image THEN images - 1 ELSE images
    /\ Leave
    /\ UNCHANGED <<lost, arrived, main, msg, out, run, conv, task, joined, applied, cache>>

Pop ==
    /\ pc = "pop" /\ ~Stopping /\ inbound # <<>>
    /\ msg' = [n |-> msg.n + 1, kind |-> Head(inbound), image |-> Head(inbound).image]
    /\ inbound' = Tail(inbound)
    /\ out' = <<>>
    /\ pc' = "memory"
    /\ UNCHANGED <<arrived, main, heap, run, conv, par, applied, cache>>

(* Low memory is answered at once. *)
CheckMemory ==
    /\ pc = "memory"
    /\ \/ Push("lowMemory") /\ EarlyEnd
       \/ Onwards("slash")
    /\ UNCHANGED <<inbound, arrived, main, msg, run, conv, par, applied, cache>>

\* Mutant: the slash reply falls through to the next stage.
SlashFallsThrough ==
    /\ pc = "slash"
    /\ \/ msg.kind.slash /\ Push("slash") /\ pc' = "guard" /\ UNCHANGED heap
       \/ Onwards("guard")
    /\ UNCHANGED <<inbound, arrived, main, msg, run, conv, par, applied, cache>>

(* A command replies, or finds it cannot (no memory, /remind without a     *)
(* number, a command rewritten for the language model) and is passed on.   *)
Slash ==
    /\ pc = "slash"
    /\ \/ msg.kind.slash /\ Push("slash") /\ EarlyEnd
       \/ Onwards("guard")
    /\ UNCHANGED <<inbound, arrived, main, msg, run, conv, par, applied, cache>>

(* Without memory for the refusal the message is dropped unanswered. *)
Guard ==
    /\ pc = "guard"
    /\ IF msg.kind.inject THEN Push("refused") /\ EarlyEnd ELSE Onwards("fast")
    /\ UNCHANGED <<inbound, arrived, main, msg, run, conv, par, applied, cache>>

FastPath ==
    /\ pc = "fast"
    /\ \/ msg.kind.fast /\ Push("fast") /\ EarlyEnd
       \/ Onwards("vision")
    /\ UNCHANGED <<inbound, arrived, main, msg, run, conv, par, applied, cache>>

(* The image is freed whether the vision model answers or not. *)
Vision ==
    /\ pc = "vision"
    /\ \/ /\ msg.image
          /\ run' = [run EXCEPT !.final = "vision"]
          /\ pc' = "dispatch"
       \/ pc' = "route" /\ UNCHANGED run
    /\ FreeImage
    /\ UNCHANGED <<inbound, arrived, main, out, conv, par, applied, cache>>

-----------------------------------------------------------------------------
(* run_react_loop *)

Route ==
    /\ pc = "route"
    /\ \E b \in Backends \cup {None} :
          /\ run' = [run EXCEPT !.backend = b, !.trace = "begun"]
          /\ applied' = IF b = None THEN applied ELSE b
    /\ pc' = IF msg.kind.simple THEN "lookup" ELSE "ask"
    /\ UNCHANGED <<inbound, arrived, main, msg, out, heap, conv, par, cache>>

Cached == cache[msg.kind.query]

(* A hit, or a miss: the cache may have dropped the entry. *)
Lookup ==
    /\ pc = "lookup"
    /\ \/ /\ Cached # None
          /\ run' = [run EXCEPT !.final = Cached, !.hit = TRUE, !.trace = "ok"]
          /\ pc' = "store"
       \/ pc' = "ask" /\ UNCHANGED run
    /\ UNCHANGED <<inbound, arrived, main, msg, out, heap, conv, par, applied, cache>>

Announce == \/ run.iter = 0 /\ out' = Append(out, "status")
            \/ UNCHANGED out

(* One call of the language model; the first is announced by a status,     *)
(* except on channels that have their own or when the bus refuses it.      *)
Ask ==
    /\ pc = "ask" /\ run.iter < MaxIter
    /\ Announce
    /\ \E r \in Responses :
          /\ resp' = r
          /\ pc' = IF ~r.ok /\ run.backend # None THEN "failover" ELSE "answered"
    /\ UNCHANGED <<inbound, arrived, main, msg, heap, run, messages, toolOut, par,
                   applied, cache>>

\* Mutant: the loop keeps the index of the backend that failed.
FailoverKeepsIndex ==
    /\ pc = "failover"
    /\ pc' = "answered"
    /\ \/ UNCHANGED <<resp, applied>>
       \/ \E b \in Backends \ {run.backend}, r \in Responses :
             resp' = r /\ applied' = b
    /\ UNCHANGED <<inbound, arrived, main, msg, out, heap, run, messages, toolOut, par, cache>>

(* The router has no other backend, or the call is repeated on it. *)
Failover ==
    /\ pc = "failover"
    /\ pc' = "answered"
    /\ \/ UNCHANGED <<resp, applied, run>>
       \/ \E b \in Backends \ {run.backend}, r \in Responses :
             resp' = r /\ applied' = b /\ run' = [run EXCEPT !.backend = b]
    /\ UNCHANGED <<inbound, arrived, main, msg, out, heap, messages, toolOut, par, cache>>

TimedOut ==
    /\ pc = "answered" /\ resp.late
    /\ run' = [run EXCEPT !.final = "timeout", !.fired = TRUE]
    /\ pc' = "end"
    /\ UNCHANGED <<inbound, arrived, main, msg, out, heap, conv, par, applied, cache>>

CallFailed ==
    /\ pc = "answered" /\ ~resp.ok /\ ~resp.late
    /\ pc' = "end"
    /\ UNCHANGED <<inbound, arrived, main, msg, out, heap, run, conv, par, applied, cache>>

WeakAnswer ==
    /\ pc = "answered" /\ resp.ok /\ ~resp.late /\ ~resp.use
    /\ resp.text = "weak" /\ msg.kind.simple /\ run.backend # None

(* A weak answer to a simple query is asked once more of a premium backend *)
(* and kept should that one fail.                                          *)
Cascade ==
    /\ WeakAnswer
    /\ \E b \in Backends \ {run.backend}, r \in Responses :
          /\ resp' = r
          /\ applied' = b
          /\ run' = [run EXCEPT !.backend = b, !.fired = r.late,
                                !.final = IF r.late THEN "timeout" ELSE "answer"]
    /\ pc' = "end"
    /\ UNCHANGED <<inbound, arrived, main, msg, out, heap, messages, toolOut, par, cache>>

TakeText ==
    /\ pc = "answered" /\ resp.ok /\ ~resp.late /\ ~resp.use
    /\ run' = [run EXCEPT !.final = IF resp.text = None THEN None ELSE "answer"]
    /\ pc' = "end"
    /\ UNCHANGED <<inbound, arrived, main, msg, out, heap, conv, par, applied, cache>>

-----------------------------------------------------------------------------
(* Tools *)

Single(calls) == Len(calls) = 1
SameCall(c, d) == c.name = d.name /\ c.arg = d.arg

\* Mutant: repeated names are not counted.
CountedCallsOnly(calls) ==
    LET same == run.sig # <<>> /\ SameCall(run.sig[1], calls[1])
        dup == IF same THEN run.dup + 1 ELSE 0
    IN  IF ~Single(calls)
        THEN [run EXCEPT !.sig = <<>>, !.dup = 0, !.repeats = 0]
        ELSE [run EXCEPT !.sig = calls, !.dup = dup, !.stuck = (dup >= 2)]

(* check_tool_dup: a third identical call in a row, or too many of one name. *)
Counted(calls) ==
    LET same == run.sig # <<>> /\ SameCall(run.sig[1], calls[1])
        dup == IF same THEN run.dup + 1 ELSE 0
        again == run.sig # <<>> /\ run.sig[1].name = calls[1].name
        repeats == IF dup >= 2 THEN run.repeats ELSE IF again THEN run.repeats + 1 ELSE 0
    IN  IF ~Single(calls)
        THEN [run EXCEPT !.sig = <<>>, !.dup = 0, !.repeats = 0]
        ELSE [run EXCEPT !.sig = calls, !.dup = dup, !.repeats = repeats,
                         !.stuck = (dup >= 2 \/ (again /\ repeats >= RepeatMax))]

Ids(calls) == [i \in 1..Len(calls) |-> calls[i].id]
InSeq(e, s) == \E i \in 1..Len(s) : s[i] = e

(* The assistant's message is added, then its tools run: one in this       *)
(* thread, several in threads of their own, each with a buffer of the pool *)
(* or of the heap; a task without buffer or thread stays dead.             *)
StartTools ==
    /\ pc = "answered" /\ resp.ok /\ ~resp.late /\ resp.use
    /\ messages' = Append(messages, [calls |-> resp.calls, results |-> <<>>])
    /\ run' = Counted(resp.calls)
    /\ IF Single(resp.calls)
       THEN pc' = "tools" /\ UNCHANGED par
       ELSE /\ pc' = "join"
            /\ \E at \in [1..Len(resp.calls) -> {"running", "dead"}] :
                  task' = [i \in 1..Len(resp.calls) |-> [at |-> at[i], pooled |-> i <= pool]]
            /\ pool' = IF Len(resp.calls) <= pool THEN pool - Len(resp.calls) ELSE 0
            /\ UNCHANGED <<joined, size>>
    /\ UNCHANGED <<inbound, arrived, main, msg, out, heap, resp, toolOut, applied, cache>>

AddResult(id) == messages' = [messages EXCEPT ![Len(messages)].results = Append(@, id)]
Results == messages[Len(messages)].results

RunTool ==
    /\ pc = "tools"
    /\ \E t \in {"empty", "text", "complete"} :
          toolOut' = [msg |-> msg.n, round |-> run.iter, text |-> t]
    /\ AddResult(resp.calls[1].id)
    /\ pc' = "decide"
    /\ UNCHANGED <<inbound, arrived, main, msg, out, heap, run, resp, par, applied, cache>>

(* A tool that asks a server may wait for it forever. *)
ToolThread(i) ==
    /\ i \in 1..Len(task) /\ task[i].at = "running"
    /\ \E at \in {"ran", "hung"} : task' = [task EXCEPT ![i].at = at]
    /\ UNCHANGED <<inbound, arrived, main, pc, msg, out, heap, run, conv, joined, pool,
                   size, applied, cache>>

Joining == pc = "join" /\ joined < Len(task) /\ task[joined + 1].at \in {"dead", "ran"}
Release == pool' = IF task[joined + 1].pooled THEN pool + 1 ELSE pool

\* Mutant: every call gets a result, a second one of an id too.
JoinAddsAll ==
    /\ Joining
    /\ joined' = joined + 1
    /\ AddResult(resp.calls[joined + 1].id)
    /\ Release
    /\ UNCHANGED <<inbound, arrived, main, pc, msg, out, heap, run, resp, toolOut,
                   task, size, applied, cache>>

\* Mutant: a duplicate is skipped before its buffer is released.
JoinSkipsRelease ==
    /\ Joining
    /\ joined' = joined + 1
    /\ LET id == resp.calls[joined + 1].id
       IN  IF InSeq(id, Results) THEN UNCHANGED <<messages, pool>>
                                 ELSE AddResult(id) /\ Release
    /\ UNCHANGED <<inbound, arrived, main, pc, msg, out, heap, run, resp, toolOut,
                   task, size, applied, cache>>

(***************************************************************************)
(* Tasks are joined in the order of the calls.  The second result of an id *)
(* is skipped; the buffer goes back either way.  Ids are noted in rows of  *)
(* 32 bytes, of which strncpy sets 31: a longer id has no terminator but   *)
(* what the row held, and may or may not be found again.  Different ids    *)
(* are taken to differ in their first 31 characters.                       *)
(***************************************************************************)
Join ==
    /\ Joining
    /\ joined' = joined + 1
    /\ LET id == resp.calls[joined + 1].id
       IN  \/ InSeq(id, Results) /\ UNCHANGED messages
           \/ (InSeq(id, Results) => id \in LongIds) /\ AddResult(id)
    /\ Release
    /\ UNCHANGED <<inbound, arrived, main, pc, msg, out, heap, run, resp, toolOut,
                   task, size, applied, cache>>

JoinedAll ==
    /\ pc = "join" /\ joined = Len(task)
    /\ task' = <<>> /\ joined' = 0
    /\ pc' = "decide"
    /\ UNCHANGED <<inbound, arrived, main, msg, out, heap, run, conv, pool, size,
                   applied, cache>>

-----------------------------------------------------------------------------
(* After the tools *)

Local(c) == c.name \in {"read_file", "write_file", "edit_file", "list_dir"}
SkillRead(c) == c.name = "read_file" /\ c.arg = "skill"

\* Mutant: rounds of several calls take the shortcut too.
ShortcutOfMany(calls) ==
    /\ calls # <<>>
    /\ \A i \in 1..Len(calls) : Local(calls[i]) /\ ~SkillRead(calls[i])
    /\ toolOut.text # "empty"

(* The output of a lone local tool, unless it read a skill, is the reply. *)
Shortcut(calls) ==
    /\ Single(calls)
    /\ Local(calls[1]) /\ ~SkillRead(calls[1])
    /\ toolOut.text # "empty"

Complete(calls) == ~Shortcut(calls) /\ Single(calls) /\ toolOut.text = "complete"

Stuck ==
    /\ pc = "decide" /\ run.stuck
    /\ pc' = "end"
    /\ UNCHANGED <<inbound, arrived, main, msg, out, heap, run, conv, par, applied, cache>>

TakeOutput ==
    /\ pc = "decide" /\ ~run.stuck
    /\ Shortcut(resp.calls)
    /\ run' = [run EXCEPT !.final = "tool"]
    /\ pc' = "end"
    /\ UNCHANGED <<inbound, arrived, main, msg, out, heap, conv, par, applied, cache>>

\* Mutant: the confirmation's timeout is not passed on.
ConfirmForgetsTimeout ==
    /\ pc = "decide" /\ ~run.stuck
    /\ Complete(resp.calls)
    /\ \E text \in {"confirm", "taskTimeout", None} : run' = [run EXCEPT !.final = text]
    /\ pc' = "end"
    /\ UNCHANGED <<inbound, arrived, main, msg, out, heap, conv, par, applied, cache>>

(* handle_task_complete: one more call of the language model, to confirm. *)
Confirm ==
    /\ pc = "decide" /\ ~run.stuck
    /\ Complete(resp.calls)
    /\ \E text \in {"confirm", "taskTimeout", None} :
          run' = [run EXCEPT !.final = text, !.fired = (text = "taskTimeout")]
    /\ pc' = "end"
    /\ UNCHANGED <<inbound, arrived, main, msg, out, heap, conv, par, applied, cache>>

\* Mutant: the round is not counted (and forgotten, which keeps it finite).
NextRoundUncounted ==
    /\ pc = "decide" /\ ~run.stuck
    /\ ~Shortcut(resp.calls) /\ ~Complete(resp.calls)
    /\ messages' = <<>>
    /\ pc' = "ask"
    /\ UNCHANGED <<inbound, arrived, main, msg, out, heap, run, resp, toolOut, par,
                   applied, cache>>

NextRound ==
    /\ pc = "decide" /\ ~run.stuck
    /\ ~Shortcut(resp.calls) /\ ~Complete(resp.calls)
    /\ run' = [run EXCEPT !.iter = @ + 1]
    /\ pc' = "ask"
    /\ UNCHANGED <<inbound, arrived, main, msg, out, heap, conv, par, applied, cache>>

(* force_finish_reply: at the limit the model is asked for a summary. *)
ForceFinish ==
    /\ pc = "ask" /\ run.iter = MaxIter
    /\ \E text \in {"answer", "timeout", None} :
          run' = [run EXCEPT !.final = text, !.trace = "timeout"]
    /\ pc' = "store"
    /\ UNCHANGED <<inbound, arrived, main, msg, out, heap, conv, par, applied, cache>>

End ==
    /\ pc = "end"
    /\ run' = [run EXCEPT !.trace = IF run.fired THEN "timeout"
                                    ELSE IF run.final # None THEN "ok" ELSE "fail"]
    /\ pc' = "store"
    /\ UNCHANGED <<inbound, arrived, main, msg, out, heap, conv, par, applied, cache>>

(* Where the loop waits for the language model or for a tool. *)
Calling ==
    \/ pc = "vision" /\ msg.image
    \/ pc \in {"ask", "tools"}
    \/ pc = "failover" /\ Backends # {run.backend}
    \/ WeakAnswer
    \/ pc = "decide" /\ ~run.stuck /\ Complete(resp.calls)

(* The head of an answer is waited for without limit: a peer that takes    *)
(* the request and stays silent keeps the loop from then on.               *)
Hang ==
    /\ Calling
    /\ pc' = "hung"
    /\ IF pc = "ask" /\ run.iter < MaxIter THEN Announce ELSE UNCHANGED out
    /\ UNCHANGED <<inbound, arrived, main, msg, heap, run, conv, par, applied, cache>>

(* Whatever the reply is, it is cached for a simple query. *)
Store ==
    /\ pc = "store"
    /\ cache' = IF run.final # None /\ msg.kind.simple
                THEN [cache EXCEPT ![msg.kind.query] = run.final]
                ELSE cache
    /\ pc' = "dispatch"
    /\ UNCHANGED <<inbound, arrived, main, msg, out, heap, run, conv, par, applied>>

(* dispatch_response; without a text an error is pushed.  The response and *)
(* the conversation are freed, the tool output stays.                      *)
Dispatch ==
    /\ pc = "dispatch"
    /\ Push(IF run.final # None THEN run.final ELSE "error")
    /\ run' = FreshRun /\ messages' = <<>> /\ resp' = NoResponse
    /\ FreeImage
    /\ AfterReply
    /\ UNCHANGED <<inbound, arrived, main, toolOut, par, applied, cache>>

-----------------------------------------------------------------------------
LoopStep ==
    /\ main # "torn"
    /\ \/ Top \/ PopWoken \/ PopStopping \/ Pop
       \/ CheckMemory \/ Slash \/ Guard \/ FastPath \/ Vision
       \/ Route \/ Lookup \/ Ask \/ Failover
       \/ TimedOut \/ CallFailed \/ Cascade \/ TakeText
       \/ StartTools \/ RunTool \/ Join \/ JoinedAll
       \/ Stuck \/ TakeOutput \/ Confirm \/ NextRound
       \/ ForceFinish \/ End \/ Store \/ Dispatch
       \/ Hang

ThreadStep == main # "torn" /\ \E i \in 1..MaxCalls : ToolThread(i)

Next ==
    \/ LoopStep
    \/ ThreadStep
    \/ \E k \in Kinds : Arrive(k)
    \/ MainStep

Spec == Init /\ [][Next]_vars

\* The threads are scheduled.  A call need not return: it may end in Hang.
FairSpec == Spec /\ WF_vars(LoopStep) /\ WF_vars(ThreadStep)

-----------------------------------------------------------------------------
(* Properties *)

(***************************************************************************)
(* For each message the loop tries exactly one reply, as the last thing it *)
(* does for it before it takes the next one.  The reply may be lost on the *)
(* way out ("dropped"): the outbound bus may refuse it, or there may be no *)
(* memory for a fixed text; then the message stays unanswered.             *)
(***************************************************************************)
Answers1 == {i \in 1..Len(out) : out[i] # "status"}
OneReply ==
    IF pc \in {"top", "pop", "exit"}
    THEN msg.n > 0 => Answers1 = {Len(out)}
    ELSE Answers1 = {}

(***************************************************************************)
(* Whenever the language model is asked, each call the conversation holds  *)
(* has a result under its id, and only one unless several calls of the     *)
(* round share an id of 31 characters or more.                             *)
(***************************************************************************)
CallsAnswered ==
    pc \in {"ask", "failover", "decide"} =>
       \A i \in 1..Len(messages) :
          LET ids == Ids(messages[i].calls)
              res == messages[i].results
          IN  \A id \in {ids[j] : j \in 1..Len(ids)} :
                 LET n == Cardinality({j \in 1..Len(res) : res[j] = id})
                 IN  n >= 1 /\ (id \notin LongIds => n = 1)

(***************************************************************************)
(* A reply made from the tool output, as it is or confirmed, is made from  *)
(* the output of the round it ends, never of an earlier round or message.  *)
(***************************************************************************)
FreshOutput ==
    (pc = "end" /\ run.final \in {"tool", "confirm"}) =>
       /\ toolOut.msg = msg.n
       /\ toolOut.round = run.iter

(***************************************************************************)
(* A pooled buffer is either free or held by a task that is not joined:    *)
(* none is lost and none is handed out while a tool writes to it.          *)
(***************************************************************************)
BuffersAccounted ==
    pc # "exit" =>
       pool + Cardinality({i \in joined + 1..Len(task) : task[i].pooled}) = size

(***************************************************************************)
(* An image waits with its message, is under work, or was left behind by   *)
(* an early reply, which frees the content of the message only: no other   *)
(* way out of a message loses an image, and none frees one twice.          *)
(***************************************************************************)
ImagesHeld ==
    images = Cardinality({i \in 1..Len(inbound) : inbound[i].image})
             + (IF msg.image /\ pc \notin {"top", "pop", "exit"} THEN 1 ELSE 0)
             + lost

(***************************************************************************)
(* Whichever way a message or a round of tools ends, no buffer is lost and *)
(* nothing is given back twice; the images of messages that are answered   *)
(* early are what the loop leaks.                                          *)
(***************************************************************************)
ResourcesKept == BuffersAccounted /\ ImagesHeld

(***************************************************************************)
(* A run is traced as OK when its reply is one the model, a tool or the    *)
(* cache gave, and never when the watchdog wrote it in this run.           *)
(***************************************************************************)
TraceHonest ==
    pc = "store" /\ run.trace = "ok" =>
       /\ run.final # None
       /\ run.hit \/ run.final \notin {"timeout", "taskTimeout"}

(***************************************************************************)
(* The loop credits and blames the backend its calls really go to.         *)
(***************************************************************************)
CreditsRight ==
    pc \in {"ask", "failover", "answered", "decide"} /\ run.backend # None =>
       applied = run.backend

(***************************************************************************)
(* The model is not asked again after the same call three times in a row,  *)
(* nor after RepeatMax + 1 calls of the same tool in a row.                *)
(***************************************************************************)
Alone(i) == Single(messages[i].calls)
CallOf(i) == messages[i].calls[1]
NotStuck ==
    pc = "ask" => \A i \in 1..Len(messages) :
       /\ ~ /\ i + 2 <= Len(messages)
            /\ \A j \in i..i + 2 : Alone(j) /\ SameCall(CallOf(i), CallOf(j))
       /\ ~ /\ i + RepeatMax <= Len(messages)
            /\ \A j \in i..i + RepeatMax : Alone(j) /\ CallOf(i).name = CallOf(j).name

(***************************************************************************)
(* Every message is taken up and done with, unless a shutdown comes first  *)
(* or a peer keeps the loop or one of its tools waiting forever.           *)
(***************************************************************************)
Hanging == pc = "hung" \/ \E i \in 1..Len(task) : task[i].at = "hung"
MessagesDone ==
    \A n \in 1..MaxMsgs :
       (arrived >= n) ~> (Stopping \/ Hanging \/ (msg.n >= n /\ pc \in {"top", "pop"}))
=============================================================================
