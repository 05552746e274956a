# HomeMind in TLA+

Specifications of the HomeMind repository: a smart-home assistant made of a
cloud API (FastAPI), a gateway process at home, an ESP32-S3 board that runs a
language-model agent under openvela/NuttX, and a WeChat mini-program. The
modules below are read off the sources under `src/`; `PROJECT.json` gives, for
every definition, the lines it stands for.

## The system

### Parts, state and operations

| Part | Where | State | Operations |
|---|---|---|---|
| Command API | `backend/api/app/routers/commands.py`, `mqtt_client.py`, `main.py` | table `commands` (status, created, ttl) | POST a command, publish it, apply an acknowledgement, sweep overdue rows |
| Gateway | `backend/gateway-agent/gateway_agent.py`, `command_policy.py` | `CommandPolicy._records`, one thread per command, the serial lock, `led_state` | claim, acknowledge, execute, report; speak; reconnect |
| Serial line and console | `gateway_agent.py` (SerialExecutor), `nsh_commands.c` (`cmd_ask`) | the tokens on the line, the board's bus | ask, read until answered or out of time, judge |
| Agent loop | `core/agent_loop.c` | inbound and outbound bus, conversation, response cache, buffer pool, backend chosen by the router, tool output | pop, slash commands, keywords, guard, vision, ReAct rounds, parallel tools, dispatch |
| Agent main | `agent_main.c` | start and stop of all threads, voice cooldown | start-up, outbound dispatch, shutdown |
| Wi-Fi manager | `infra/network_manager.c` (second half), `infra/config_store.c` | `g_wifi_ctx`, the interface, the credentials in memory and in the file | `network_wifi_connect`, `network_wifi_reconnect`, the state machine thread |
| RPMSG network | `infra/network_manager.c` (first half) | link state, listeners, open connections | poll, notify, acquire and release a resource |
| TLS client | `infra/vela_tls.c` | pool of connections, static read buffers and their locks | request over a kept, new or own connection; date request; plain HTTP; clean-up |
| Voice and screen | `nsh_commands.c` (`cmd_kws_listen`, `hm_voice_utterance_roundtrip`), `ui/hm_lcd_display.c` | who has the microphone, `g_kws_listen_run`, `g_hm_voice_busy`, `g_lcd_hold`, what is shown | listen, hear, record, request, announce; start, stop, `voice`, captures; show, release, draw |
| Reminder worker | `backend/api/app/reminder_worker.py`, `routers/tasks.py` | table `tasks`, events | query, announce, mark, store an event; create and edit tasks |
| Scenes, Home Assistant bridge | `scenes.py`, `ha_bridge.py` | tasks, last states, cool-down | bedtime scene of a request or a plan; poll, scene when the lamp goes off |
| Agent plan, perception | `agent_plan.py`, `perception.py` | rows | plan and execute, ingest an event |
| WebSocket hub | `ws_hub.py`, `routers/ws.py` | queue of events, connections | push from the MQTT thread, drain on the event loop |
| Relay | `relay_client.py`, `relay_proxy.py`, `home-relay/relay_agent.py` | pending requests | forward, answer, time out |
| MiHome adapter | `gateway-agent/mihome_adapter.py` | entities | set and read back, query, notify |
| Mini-program | `miniprogram/` | pending commands, tokens, tasks | send and watch a command, log in again, edit the calendar |
| The rest | accounts, devices, media, speech, camera, LCD, tools, console, model data, scripts, landing page | rows or none | synchronous reads and writes, drivers |

### How they interact

A client posts a command; the API commits a row, then publishes it on
`device/<id>/cmd`. The gateway's MQTT callback claims it and starts a thread,
which takes the serial lock and types `ask ...` at the board's console. The
console pushes the request on the board's bus; the agent loop takes it off,
answers, and the outbound thread prints `[Agent]: ...` on the same line, for a
request to the language model first a status phrase that looks the same. The
gateway thread judges what it read and publishes `done` or `expired` on
`device/<id>/ack`; the API's MQTT callback writes it to the row, while a
sweeper on the event loop expires overdue rows. Reminders and speech go to the
gateway over `device/<id>/speak`. The agent loop reaches its language model
through the TLS client, which needs the network that the Wi-Fi manager keeps
up, and so do the listener threads that wait for the wake word. A bedtime scene
inserts tasks, which the reminder worker announces, and has the loudspeaker put
the lamp out; the bridge polls that lamp and runs a bedtime scene of its own
when it sees it go off.

### What is hard

Every row of the command table has three writers in sessions of their own, each
of which reads, decides and later writes. MQTT repeats, loses, delays and
reorders. The board's replies do not say which request they answer. The
gateway keeps what it has claimed in memory and prunes it by time and by
capacity. The Wi-Fi thread reads and writes its context without the lock that
`network_wifi_connect` takes. The agent loop shares one output buffer, one
buffer pool and one router between rounds and messages. The reminder worker
publishes before it commits. Kept connections hold what earlier exchanges left,
and a request on one may have been carried out although it failed. Flags of the
voice path are tested in one step and set in another. The bridge sees the
effects of the scenes as if a person had caused them. `PROJECT.json` lists these places under
`hazards`, each at its line and with the properties aimed at it.

### What correctness means, part by part

- Gateway: a command is executed at most once; every claim is answered; the
  status a redelivery is told never goes back; `done` means it was attempted.
- Command API: a status shown is backed by what the gateway did; every row
  ends, and stays ended.
- Serial line: a reply is read by the command that asked, while executions wait
  for their replies; every worker ends.
- Agent loop: one reply per message, made from current data; well-formed
  conversations; no buffer lost, no image but those the code is known to lose;
  credit to the right backend; no endless loop.
- Wi-Fi manager: what is stored worked, or two named events mixed it; FAILED
  stays; retries never stop because of their own backoff; recovery once the
  causes are gone.
- Reminders: announced once but for faults; audited; none forgotten behind a
  query that has room.
- TLS client: contexts and buffers exclusive and given back; a body whole, and
  the request's own; a request sent twice only after a kept connection failed;
  each one returns.
- Voice and screen: the microphone is closed wherever a thread may wait for
  long; a stop is obeyed; nobody is locked out by a flag left behind; listening
  and the dashboard come back.
- Scenes and bridge: repeated scenes create no task twice; a scene for a lamp
  that went off, one, and none for nothing.

## Modules

| Module | Models | Kind |
|---|---|---|
| `CommandGateway` | claiming, pruning, workers, restart | component |
| `CommandApi` | rows, acknowledgements, sweeper, restart | component |
| `CommandPromise` | what the API promises of a command | abstract specification |
| `CommandChannel` | `CommandApi` + broker + `CommandGateway`, refines `CommandPromise` | composition |
| `SerialLine` | exec under the serial lock, console, agent loop as a queue | component, the inside of `CommandGateway`'s `BeginExec`, `Confirm`, `Fail` |
| `AgentLoop` | the whole loop thread, tool threads, shutdown | component, the inside of `SerialLine`'s board |
| `WifiManager` | context, thread, calls, radio | component |
| `ReminderWorker` | pass over due tasks, task endpoints | component |
| `TlsClient` | pool, buffers, requests of the three kinds, servers | component |
| `VoiceFlow` | listeners, round trip, console captures, screen | component; its request may hang, as `TlsClient` shows |
| `Scenes` | runs of the bedtime scene, the bridge, the lamp, edits of tasks | component; its tasks are those `ReminderWorker` announces |
| `...Proofs` | theorems of nine of these modules, two of them in `BoardProofs` | proofs |
| `MC...` | instances for TLC | models |

How state and actions correspond to the code:

- **CommandGateway.** `records` is `CommandPolicy._records`, with the time a
  record was touched; the order of the dictionary is the order of those times,
  so the oldest are evicted. One delivery is `ClaimMalformed`,
  `ClaimDuplicate`, `ClaimRejected` or `ClaimAccepted`, each with the pruning
  that `claim` begins with; `callback` is the accepted message between the
  return of `claim` and `Acknowledge`, which publishes `acked` and starts the
  thread. A worker goes from `ready` through `BeginExec`, `Release`,
  `Confirm`, `ReportExpired` or `Fail` to `PublishStatus` or `StatusRaises`.
  What an execution returns is a free choice. A message once published can be
  delivered at any time on any connection: `cmdNet` only grows.
- **CommandApi.** SQLAlchemy reads a row and writes it back by primary key, so
  a read and its commit are two actions (`AckReadRow`/`AckCommit`,
  `SweepRead`/`SweepCommit`), and either may fail. A restart forgets
  everything but the rows.
- **SerialLine.** Text is a set of tokens (`sent`, an LED state, any other final
  reply, `status`). `Ask` empties the input by an arbitrary prefix,
  because `reset_input_buffer` drops only what has arrived. A request that finds
  the bus full is dropped, and the console still prints *Sent to agent*.
  `AskModel` prints the status phrase of a request to the language model, which
  already completes the reading, and `ModelReplies` its final reply, whenever it
  comes. What a worker acknowledges depends only on the text read, so `Return`
  decides it. `early` records that an execution returned before a final reply,
  `cutShort` that one met its deadline or the port failed. Tokens are read whole;
  opening the port and the gateway's `led_state` are left out.
- **AgentLoop.** `pc` names the stages of `agent_loop_task` and
  `run_react_loop`. The language model, router, guard and tools return any of
  the cases the code tells apart, or never (`Hang`, for the model and for a
  tool thread). A reply is known by its origin. `Push` is a push the outbound
  bus may refuse; the reply is then freed and not tried again (`dropped`). Ids
  of 31 characters or more are `LongIds`: their rows need not be terminated, so
  `Join` may miss a repeated one; how long the ids of a response can be is fixed
  outside `src/`. `EarlyEnd` is the end of the three replies that free the
  content of a message but not its image, which `lost` counts. Session
  history, the inside of commands and tools, and failures to allocate other
  than those of a reply after the guard and of a tool buffer are left out.
  Behaviour after the teardown (`main = "torn"`) is undefined in C, so
  nothing is stepped or claimed there.
- **WifiManager.** One action per stretch of the thread between two points at
  which a call may slip in. Credentials are pairs (`cred`; `ram` and `file` of
  `config_store.c`), saved and loaded one key at a time, with calls, failures
  and restarts in between (`SaveSsid`, `SavePass`, `LoadSsid`, `LoadPass`).
  `WriteFile` may fail or leave the file empty; `SetOther` is any other key
  written. `Restart` loses everything but the file, which may be empty then or
  not open. The ghost `spoilt` marks a second call since the last restart, and
  a save whose password was not written with its ssid. `DhcpWait` and the rest
  are counted in ticks of the thread's sleeps; longer times than `MaxElapsed`
  are one value. The 90 s of polling at the end of `network_wifi_connect` only
  read and are left out.
- **ReminderWorker.** `pass` is what the query returned, with the markers as
  the session has them cached; a commit expires the cache (`fresh`). `Abort`
  is an exception that leaves the pass or a restart of the process. `closed` is
  a task that is done or cancelled. `Crowded` says of a task that the query is
  filled by marked tasks that are not later.
- **TlsClient.** A thread's `pc` goes through `drain`, `connect`, `write`,
  `raw`, `head`, `body`; `place` is the context it uses, a slot or its own. A
  response is one token for its head and one per piece of body, framed by a
  length, by chunks, by the end of the stream or not at all. `GiveUp` is every
  error return of a read or a write: on a kept connection it is `Reconnect`
  (the label `pool_reconnect`), else `Finish`. Servers answer in full or in
  part, close, reset, fall silent (`mute`), and may send a notice on an idle
  connection. `late` marks one that comes after the drain. The handshake
  succeeds or fails; the diagnostic replay and the guard of the RPMSG network
  are left out.
- **VoiceFlow.** `at` names the stages of `kws_listen_worker` and of
  `hm_voice_utterance_roundtrip`; `Check` and `Enter` are the test and the
  setting of `g_hm_voice_busy`, `Tick` and `Render` the test of `g_lcd_hold`
  and the drawing. Two round trips may overlap between the first two.
  `Hang` is a request that never returns. Recordings and scores are free
  choices. The stage `report`, a publication over MQTT, counts as a use of the
  microphone the listener keeps open in it.
- **Scenes.** A title is a number; the one above `Planned` is the note's, which
  only people add. `LookUp` and `Insert` are the query of `_mk_task` and its
  commit. `alone` records that a run met no other writer of its user's tasks.
  Rows older than two hours leave the table (`GrowOld`), as the look-up's
  cutoff passes over them. `Act` is everything after the tasks: of it only the
  lamp matters here. `LampOff` is `on_state_change` up to the cool-down's test.
  A hub that is away hides the lamp; `lit` records how it last was known to be,
  and `went` that a lit lamp went off since the bridge's last scene, so that a
  hub that comes back to a lamp that was off all along is not one.

Operators whose names end in a variation of the definition that follows and
whose comment begins with *Mutant:* are deliberate faults; no specification
uses them. `PROJECT.json` names, per property, the one that breaks it.

## Runs

`tlc -config MCx.cfg MCx` in this directory. Eleven runs hold; one shows a
disagreement between the code and what it says of itself.

| Run | Question | Bounds and why they suffice |
|---|---|---|
| `gateway` | executed at most once, `done` only if tried, statuses advance | 2 commands, 2 connections, 2 threads, table of 1 record, ttl 1, skew 1, 3 ticks, 1 restart: the table overflows, a record outlives and survives its ttl, the same command is redelivered after each |
| `gateway_live` | every claim is answered | 3 commands, 2 connections, 2 threads; 2 commands share the serial lock, one has no executor; no restart, whose victims are the sweeper's business |
| `channel` | refinement of `CommandPromise`, rows settle | 1 command (rows do not interact but in the sweeper's set), every crash once, 4 ticks: the ttl ends before, while and after each other step |
| `serial` | replies belong to commands, LED is what was asked last, workers end | `led.on`, `led.off`, `device.info`, bus of 1: each overtakes each, the bus fills, the report on the device, which may show either LED state, comes before, while or after an LED command is read. Without either half of its condition `PunctualLedDone` fails here |
| `wifi` | credentials stored, FAILED, backoff, recovery | 1 network and none (so a pair can be mixed), 2 calls between restarts, 1 restart, 2 retries, waits up to 4: a call, a failed write and a restart during each branch, the backoff reaches its cap. More networks: `SavedPairWorked` |
| `reminder` | repeats and audit paid for, due reminders handled | 3 tasks and a query of 2, so that announced tasks fill it; all come due at the same time, so that it may return any two; 2 faults, 1 edit of a note |
| `agent` | one reply, well-formed conversation, fresh output, nothing lost, trace, credit | 2 messages of 3 kinds, 6 kinds of rounds (no call, one, two, two under one short or one long id), 2 backends, 2 rounds: the second message follows every way the first can end |
| `agent_live` | no stuck model, rounds end, shutdown | 4 rounds of lone calls, as 3 equal calls or 4 of one tool are the limits; a shutdown at any moment |
| `tls` | exclusive, nothing leaks, bodies whole and own, sent twice only after reuse, requests end | pairs of requests (same host, two hosts, with the date request, with plain HTTP) over 1 slot and 1 buffer, room for 2 pieces: reuse, eviction, no slot, waiting for the buffer, every framing, a body that does not fit |
| `voice` | microphone, stop, flag, listening and dashboard come back | 2 listeners and the console, so that a stop and a start leave two listening; the eyes blink every other tick |
| `scenes` | a lone run adds nothing twice, one scene per lamp that went off, none passed over | 2 runs, 1 person and the house, 1 planned task and the note's, people switch the lamp while the table is empty: runs overlap each other and the bridge, tasks are closed and reopened between a look-up and its insertion |
| `bedtime_twice` | one pending task of a title: **violated** | 1 run, 2 planned tasks as in the code |

No run spends itself on a type invariant: all are proved, for every instance.

Deadlock is checked in `voice`, `scenes` and `bedtime_twice`, where display and
bridge go on for ever, and not in the other runs: each of these systems may come to rest when its
inputs are used up (commands, calls, messages, requests; the board's threads
that hang), and the liveness properties say where it must not.

### The violation

- `bedtime_twice`: a plan runs the bedtime scene for `home-system`. It creates
  its tasks and has the loudspeaker put the lamp out. The bridge sees the lamp
  go from on to off and takes that for a person's wish; its own scene creates
  the same tasks for the same user without a look-up (`ha_bridge.py:132`). Each
  is announced twice, which `scenes.py:65` says the look-up is there to prevent.
  `LoneRunsAreIdempotent` shows what the look-up does achieve, and
  `OncePerSwitchOff` that it takes a lamp that really was on and went off. Two runs
  of the scene that overlap leave a task twice as well (`scenes.py:70`); `alone`
  excepts them.

### Further disagreements, described but not run

Met while reading; each is contained in the model named, as behaviour the code
has, unless it says otherwise.

Commands and the serial line:

- The sweeper and the acknowledgement callback read a row as live and commit
  later, in either order (`mqtt_client.py:142`, `main.py:46`): `expired` turns
  into `acked` or `done`, and `done` into `expired`, against `models.py:34`
  ("queued -> acked -> done / expired"). `RowsSettle` shows that it does end.
- A late reply to one command is read by the next, which is reported `done`
  though the board never ran it (`gateway_agent.py:149`, against
  `gateway-agent/README.md:13`). It takes no deadline: a `device.info` goes to
  the language model, whose status phrase (`agent_loop.c:1084`, printed at
  `agent_main.c:449`) completes the reading at once, although the comment at
  `gateway_agent.py:132` says it has to wait for the final reply. That reply is
  then left for the next execution, and the one after it reads its
  predecessor's. `PunctualLedDone` and `NothingLeftOver` show that these two,
  a deadline (or a failed port) and a return at the status phrase, are the only
  causes. (`docs/evidence/2026-09-12_s2_led_deviceinfo_pass.md:16` records a
  `device.info` of some 12 s, long enough for a model's reply.)
- A command acknowledged `done` is acknowledged `expired` as well when the
  status publication after it raises (`gateway_agent.py:248-258`,
  `StatusRaises`).
- A `device.info` the board never answers is `done`: only failure markers are
  looked for (`gateway_agent.py:238`, `Confirm` of `SerialLine`).

Wi-Fi:

- A call while the thread waits for DHCP replaces the credentials; the thread
  then stores the new ones on the strength of the old network's address
  (`network_manager.c:1242`, against `nsh_commands.c:134`). The ssid and the
  password are stored by two calls whose results nobody reads (1242-1243): if
  the second fails, or the power goes between them, the file holds a pair that
  never worked. `SavedWorked` shows that it takes one of these two.
- Every write of the file empties it first (`config_store.c:87`): a restart or a
  failure there loses all keys. `SavedWorked` says that then nothing is left,
  not something wrong.
- The backoff doubles on every second of the wait, not on every failure
  (`network_manager.c:1294` against the comment at 811, `Tail`); failures
  before DHCP are never counted against the maximum (1190, `AfterFailure`
  against `MayFail`); FAILED may be written over a call just made (1252):
  `FailedStays` and `Recovers` count that FAILED as any other, and do not
  exclude it.

Reminders:

- `limit(50)` is applied before the marked tasks are skipped, so fifty
  announced, never completed tasks starve the later ones
  (`reminder_worker.py:71`, against its lines 1 and 3); `DueIsHandled` shows that
  nothing else does.
- A reminder is repeated when the commit after the announcement fails
  (`reminder_worker.py:78-81`), is given for a task completed since the query,
  comes up to 90 s early (62), and eight hours late if set in the
  mini-program, whose local time is stored without a zone
  (`routers/tasks.py:60`; times have no zone in the model).

Agent loop:

- The response cache keeps timeout notices and the replies of requests that
  acted, so that a repeated request is confirmed without acting
  (`agent_loop.c:1072-1077`, 1366-1375, `Lookup`, `Store`).
- A reply the outbound bus refuses is freed and not tried again (876, 888, 1506,
  1542): the message stays unanswered. `OneReply` counts it as the one reply
  that was tried.
- Early replies leak the image of their message (1510, 1525, 1545);
  `ResourcesKept` counts these images in `lost` and shows that no other path
  loses one.
- The ids of calls are noted in uninitialised rows of 32 bytes with `strncpy` of
  31 (282, 303), so a repeated id of 31 characters or more may be missed and
  get a second result, against the comment at 281. `CallsAnswered` asks for a
  single result of the shorter ids only.
- A model call may never return (`vela_tls.c:1069`), and the loop with it; a tool
  thread that hangs is joined without limit.
- The shutdown cleans up half a second after the wakeup although the loop may be
  waiting for the model (`agent_main.c:775`).

TLS client:

- The loop for the rest of a body notes the end of the stream and tests
  something else (`vela_tls.c:1183-1185`), so it does not leave after a close,
  although the comment at 1187 has the caller close an incomplete body. The loop
  for the head goes on after every timeout (1080). Both are `Stuck`; both hold a
  slot and the buffer.
- A head that ends with the stream is returned as a success with an empty body
  (1100-1103); plain HTTP returns a body cut short as a success (1571-1590);
  chunks with an extension count as complete but are not decoded (142).
  `WholeBody` says which of these it excepts.
- A request that failed on a kept connection is sent again whatever its method
  (1273-1287): `DoubledByReuseOnly` bounds it at two.

Voice and screen:

- `voice` records while a listener has the same microphone open, against the
  comment at `nsh_commands.c:887`: the flag excludes only round trips. It is
  tested and set in two steps (897-905), so that two round trips overlap, against
  the mutual exclusion the comment at 894 claims, and the first to leave resets
  it for the other; `VoiceNotLockedOut` shows only that it is never left set. A
  stop and a start during a round trip leave two listeners.
- A round trip releases the screen and then shows one more text, which holds it
  again (846-847, 859-860), and stays, as `ReleasedScreenReturns` speaks only of a
  screen that is not taken again; the texts of the wake commands are never released;
  the display tests the hold and draws afterwards, over a text shown meanwhile.
- A microphone that does not open again ends every listener (1977).

Scenes and bridge:

- `scenes.py:51` and `ha_bridge.py:147` send `utcnow().timestamp()`, hours off
  where the clock is not UTC, while `commands.py:67` sends `time.time()`; the
  gateway rejects such a command as too old (`ClaimRejected`; no clocks here).
- `_speak` is documented to fall back to MQTT (`scenes.py:98`) but an exception
  of `xiaoai.say` leaves the request after its tasks were created (`Raise`).
- A hub that reports the lamp unavailable between on and off hides the change,
  and an event that cannot be stored loses its scene (`Poll`, `BridgeRaises`);
  the cool-down is set before the work, so a scene that failed is not tried
  again within it.
- The MQTT client's network thread runs the language model and the scene of a
  spoken intent (`mqtt_client.py:109-114`), so acknowledgements wait behind it
  (in `CommandChannel` they may wait for any time).

Not contained in a model: `network_acquire_resource` calls a function that locks
the mutex it holds (`network_manager.c:728`), and the relay's client is copied
before it exists, so that every forwarded request is answered 503
(`relay_client.py:18`).

## Fairness

- `CommandGateway.FairSpec`: the callback and each worker end what they began;
  strong where a worker waits for the serial lock (a thread blocked on it gets
  its turn) and for a free slot of the model. The serial executor returns
  because its reads time out, which `EveryWorkerReports` of `SerialLine`
  establishes. No fairness of delivery.
- `CommandChannel.ChFairness`: time passes; the sweeper runs again every 5 s;
  a locked SQLite file is not locked each time, hence strong fairness of
  `SweepCommit`; the callback ends what it began. None of the network or the
  gateway.
- `SerialLine.FairSpec`: only of the gateway's threads, and without counting on
  a failure of the port; nothing of the board or the model.
- `WifiManager.FairSpec`: the thread's loop turns. `Recovers` moreover assumes
  that from some time on nothing fails.
- `ReminderWorker.FairSpec`: the worker's loop goes on after an error (faults are bounded).
- `AgentLoop.FairSpec`: the loop and the tool threads run. A call of the model
  or a tool may hang for good, as `TlsClient` shows for the two reads no timeout
  ends (`Stuck`); `MessagesDone` excepts it, and says that nothing else keeps the
  loop from its next message but the shutdown.
- `TlsClient.FairSpec`: each thread runs, connecting and writing succeed or fail
  in bounded time, and a server that will not answer has closed, reset or
  fallen silent for good. `RequestsEnd` names the two ways a request may still
  not return, and nothing else is excepted.
- `VoiceFlow.VoiceFairSpec`: listeners and the display run. Nobody has to type a
  command, the console's captures need not end, and a request may hang. That the
  calls of the audio driver return is assumed; the comments at
  `nsh_commands.c:887` and 1083 leave that open where two have it open at once.
- `Scenes.FairSpec`: the bridge's thread keeps running and the hub answers
  sometimes. Nothing is assumed of scenes, people or the clock.

## Proofs

`tlapm M.tla` checks each; the constants are arbitrary but for the named
assumptions (`GatewayAssumption` etc.), which the runs evaluate.

- **CommandGatewayProofs.** `IInv` is inductive; `ExecutedAtMostOnce`,
  `DoneIsBacked`, `StatusOnlyAdvances` and `TypeCorrect` follow. `AtMostOnce`
  alone is not inductive: it needs that a claimed command cannot be claimed
  again. `Guarded` says why: either the message is past its ttl, or its record
  is still there and was touched late enough (`ts <= at + FutureSkew`) to
  outlive every acceptable redelivery; with `FutureSkew <= MaxTtl` (5 and 300 in
  the code) twice the ttl suffices. `SingleOwner` and `Untried` say that one
  thread holds it and has not tried it, `OwnerStatus` that the record's status
  follows that thread. Records evicted or lost in a restart are excepted by
  `forgotten`, as they must be. Two more theorems are the safety part of
  `ClaimedIsAnswered`: `NeverDropped`, that a claimed command is answered, with
  the callback or with its thread (`InHand`; inductive with `Reported`), and
  `LockIsGivenBack`, that `SerialExecutor.lock` is held exactly by the thread
  that executes over the line (`LockFollows`), so that no way a command fails
  leaves it to nobody.
- **CommandChannelProofs.** `PromiseKept`: `CommandChannel` implements
  `CommandPromise`, by step simulation, and `RowsTyped`. Publishing, reading an
  acknowledgement, redeliveries, replies, the clock and both restarts are
  stutters; `ClaimAccepted` is `Take`, `BeginExec` is `Try`, `SendCommand` is
  `Accept`, and the two commits are `Show`. A status is shown because of an
  acknowledgement that may have been sent long ago, so `ChInv` follows its reason
  from the threads (`Threads`) and the table (`Table`) through the network and
  the callback (`Replies`) to the row; `Accepted` says that whatever is under way
  belongs to a command with a row. `ChannelIsGateway` is a second refinement:
  the gateway in the channel is the gateway of `CommandGateway`, because what
  the API is about to publish is a command once, with the time of the day and a
  ttl it allows (`Publishable`). So `ChannelExecutesOnce` carries `AtMostOnce`
  and `StatusAdvances` over to the channel without proving them again: the
  instance `Proved` of `CommandGatewayProofs` has the channel's constants, which
  satisfy the gateway's assumption (`ApiSuitsGateway`), and unfolds to the same
  formulas (`OneGateway`). `ChannelDropsNothing` carries over `InHand` and
  `LockFollows` in the same way.
- **BoardProofs**, of two components. `WifiManager`: `TypeCorrect`,
  `FailedUntilCall` (with `FailedIdles`: in FAILED the thread is not about to
  write another state) and `SavedPairWorked` (with `LoneNetwork`: until a second
  call the interface, the address, the context and what is loaded or saved speak
  of one network, and a pair about to be saved gave an address; it covers any
  number of networks, of which the run has one).
  `VoiceFlow`: `VoiceTypeCorrect`, `MicrophoneReturned` and `FlagReset`. The
  three properties are inductive together: a step moves one user, and it is
  enough that this user does not keep the microphone where it must not
  (`MicByMover`) and does not leave the flag set on its way out (`FlagByMover`).
  (`VoiceFlow` names its specification `VoiceSpec`, so that one module can
  extend both.)
- **ReminderWorkerProofs.** `TypeCorrect`; `RepeatsArePaidFor`, with the strengthening
  `UsedUpIsMarked`: a task announced as often as faults and edits allow is
  marked, or about to be; and `TrailIsComplete`.
- **AgentLoopProofs**, in three invariants, each resting on those before it.
  `Inv` says of each stage what has been pushed, whether a reply is decided,
  from where the shared output comes and which backend is applied: `RepliesOnce`,
  `CreditsAreRight`, `OutputIsFresh`. `RoundInv` is about the rounds of tools:
  `CallsAllAnswered`, because the results under way are those of the calls
  joined so far, one to each id but the long ones (`ResultsOf`, `Conversation`);
  `ResourcesAccounted`, by counting the buffers of tasks that are not joined
  (`HeldJoin`) and the images in the queue (`WithImageAppend`, `WithImageTail`),
  an equality in which those the early replies lost are a term of their own;
  `NeverStuck`, because the two counters of `check_tool_dup` are at least as high
  as the rounds they stand for (`Counters`), so that neither limit is passed
  before they see it; and `TraceIsHonest` (`Watched`: a text of the watchdog's
  has marked the run). `Limits` bounds what grows, and with it `TypeCorrect` says
  more than types: a run takes no more rounds than its limit, a message gets at
  most a status and a reply, tasks and free buffers fit what was allocated.
  `ElsewhereStep` says once what the steps away from the tools leave alone.
  `TurnsAdvance` is the part of `MessagesDone` a proof can carry: every step of
  the loop on a message goes to the next round, to a later station of the same
  round, to the next task to join, all of them bounded, or into a call that does
  not return, and no step of anyone else takes the message back (`Station`, `NearerReply`).
- **SerialLineProofs.** `TypeCorrect`, `PunctualIsHonest`, `CleanLine` and
  `LedSettles`. While every execution read a final reply before it returned, the
  bus, the model and the line hold what is left of the present execution and
  nothing else, its reply last (`Orderly`): replies carry no request, so this is
  what ties them to one, and the most the code gives. That the condition excludes
  a `device.info` that returned at its status phrase is not the proof's
  convenience: the conclusion is false of it. `QuietLed` rests on `LastOnBus`: behind the LED command
  accepted last there is no other on the bus.
- **TlsClientProofs.** `TypeCorrect`, `ContextsAndBuffers`,
  `ConnectionsAccounted`, `BodiesAreWhole`, `AnswersAreOwn`, `SentTwiceAtMost`.
  `Stages` and `Locks` say which stages hold a slot and a buffer, `Tries` how
  often a request was sent on which route, `AskedFor` whom a connection's server
  works for, `Inboxes` that what is on a connection in use is the request's own
  or a late notice, followed by no more pieces than its framing has, and `Heads`
  that the head read is one of these. `OwnAnswer` is not inductive without
  them: a kept connection may hold anything until it has been drained.
  `RequestsProgress` is the part of `RequestsEnd` a proof can carry: whatever
  the servers do, a step of a request brings it nearer to its end (`Ahead`) or
  reads more into a buffer of `Cap`. The one way back, from a failed exchange to
  a second connection, costs the route that allowed it.
- **ScenesProofs.** `TypeCorrect`, `Idempotent`, `SwitchOffEach`. `Clear`: a
  lone run about to insert still finds no pending task of its title; `Apart`:
  two writers of one user's tasks are not both alone; `Settled`: a task from a
  lone run has no untouched one before it; `Seen`: a lamp the
  bridge last saw on is lit still or has gone off since its last scene.

Model-checked only: liveness (`ClaimedIsAnswered`, `RowsSettle`,
`RetryWaitEnds`, `Recovers`, `DueIsHandled`, `EveryWorkerReports`,
`MessagesDone`, `RequestsEnd`, `StopIsObeyed`, `ListensAgain`,
`ReleasedScreenReturns`, `SwitchOffHandled`), which is out of the prover's
reach. Every invariant and every action property of the runs has a theorem.
`TurnsAdvance` and `RequestsProgress` say of two of the liveness properties that
they can fail only by waiting, never by going round, and `NeverDropped` and
`LockIsGivenBack` of a third that it can fail only by a thread that stops; that
the waiting ends is left to the runs. These four have no run of their own.

## Plan

The order in which the project was built, all done:

1. `CommandGateway`, its proofs. 2. `CommandApi`, `CommandPromise`,
   `CommandChannel`, its proofs. 3. `WifiManager`, its proofs. 4. `SerialLine`, its proofs.
   5. `ReminderWorker`, its proofs. 6. `AgentLoop`, its proofs.
   7. `TlsClient`, its proofs. 8. `VoiceFlow`, its proofs. 9. `Scenes` with the
   bridge, its proofs.

What remains worth doing, most useful first: an abstract connection for
`TlsClient` to implement; for the listeners of `VoiceFlow` and the worker of
`ReminderWorker` what `TurnsAdvance` says of the agent loop; the guard of the RPMSG
network below `TlsClient`; the speak path and the reconnection of the gateway.
The project keeps one run per question.

## Not modelled

Model data and signal processing (`*.cc`), drivers, the camera and what is
drawn on the screen; text handling (prompts, plans, keyword matching);
single-session endpoints (accounts, devices, intents, events, assets); requests
to outside services (media, speech recognition, vision, MiHome); the console's
other commands, which print or set one value; the link to the phone over RPMSG,
whose driver is not in the repository; the relay, which never gets as far as
changing a state; the WebSocket hub and the mini-program, which show what the
rows of `CommandApi` hold; the legacy `server/`, the `tools/staging-*` copies of
firmware files, scripts, board and application skeletons, landing page. They
hold no state shared between activities, or are superseded or generated.

Of the 43 445 lines counted as implementation 25 061 are one generated array of
model weights and more than 4 000 are the frozen copies under `tools/`; most of the rest is
text handling, printing and drivers. The map therefore covers a small share of
the lines, though nearly all of the code in which activities meet.
