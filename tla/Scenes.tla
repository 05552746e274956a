-------------------------------- MODULE Scenes --------------------------------
(***************************************************************************)
(* The bedtime scene of the cloud service (routers/scenes.py) and the      *)
(* bridge to the home hub, which runs a bedtime scene of its own when it   *)
(* sees the ceiling lamp go off (ha_bridge.py).                            *)
(*                                                                         *)
(* A scene is run by a request of a person or, for the house's own user,   *)
(* by a plan of the language model.  It looks up and inserts its tasks one *)
(* by one, has the loudspeaker put the lamp out, and speaks.  The bridge   *)
(* polls the lamp.  The look-up asks for rows of the last two hours, and   *)
(* older ones are left out of the table here.                              *)
(***************************************************************************)
EXTENDS Naturals, Sequences, FiniteSets

CONSTANTS
    Runs,     \* runs of the scene, each once
    People,   \* users that log in
    Home,     \* "home-system", which nobody logs in as
    Planned,  \* tasks of every bedtime scene (two in the code)
    MaxRows   \* bound: with as many rows, people leave the lamp alone

ASSUME ScenesAssumption ==
    /\ Home \notin People
    /\ Planned \in Nat \ {0} /\ MaxRows \in Nat

Users == People \cup {Home}

VARIABLES
    tasks,    \* rows of the last two hours, in the order of insertion
    run,      \* run -> where it is
    lamp,     \* "on", "off" or "unavailable", as the hub has it
    lit,      \* it was on when last known to be on or off
    went,     \* it went off, having been lit, since the bridge last began a scene
    seenOn,   \* the lamp is "on" in _last_state
    bridge,   \* its thread: [stage, title]; at "boot" _last_state is empty
    cooling   \* less than BEDTIME_COOLDOWN_SEC since _last_bedtime_ts

home    == <<lamp, lit, went>>
service == <<seenOn, bridge, cooling>>
vars    == <<tasks, run, home, service>>

\* The titles of a scene; the one after the planned ones carries a note.
Title == 1..Planned + 1

(* alone: the run has overlapped no other writer of its user's tasks. *)
Run  == [stage : {"ready", "look", "insert", "act", "over"},
         user : Users, title : Title, last : Title, alone : BOOLEAN]
Task == [user : Users, title : Title, status : {"pending", "closed", "reopened"},
         alone : BOOLEAN]

Idle(stage) == [stage |-> stage, user |-> Home, title |-> 1, last |-> 1, alone |-> FALSE]

TypeOK ==
    /\ tasks \in Seq(Task)
    /\ run \in [Runs -> Run]
    /\ lamp \in {"on", "off", "unavailable"}
    /\ bridge \in [stage : {"boot", "poll", "event", "insert", "announce", "error"},
                   title : Title]
    /\ seenOn \in BOOLEAN
    /\ cooling \in BOOLEAN /\ lit \in BOOLEAN /\ went \in BOOLEAN

Init ==
    /\ tasks = <<>>
    /\ run = [r \in Runs |-> Idle("ready")]
    /\ lamp \in {"on", "off"} /\ lit = (lamp = "on") /\ went = FALSE
    /\ seenOn = FALSE /\ bridge = [stage |-> "boot", title |-> 1]
    /\ cooling = FALSE

-----------------------------------------------------------------------------
(* Runs of the scene *)

Writing(r)  == run[r].stage \in {"look", "insert"}
BridgeBusy  == bridge.stage = "insert"

Pending(i) == tasks[i].status /= "closed"

\* Mutant: only the newest row of the table is looked at.
MatchNewest(u, k) == {i \in DOMAIN tasks : /\ i = Len(tasks)
                                           /\ tasks[i].user = u /\ tasks[i].title = k
                                           /\ Pending(i)}

(* The look-up of _mk_task: rows that make a new one unnecessary. *)
Match(u, k) == {i \in DOMAIN tasks : /\ tasks[i].user = u /\ tasks[i].title = k
                                     /\ Pending(i)}

NewTask(u, k, alone) ==
    [user |-> u, title |-> k, status |-> "pending", alone |-> alone]

(* A writer of u's tasks begins: the runs it meets are not alone. *)
Disturb(others, u) ==
    [r \in Runs |-> IF others[r].user = u THEN [others[r] EXCEPT !.alone = FALSE]
                    ELSE others[r]]

(* run_scene, or a plan's action.  A rehearsal (dry_run) leaves no task. *)
Start(r) ==
    /\ run[r].stage = "ready"
    /\ \E u \in Users, last \in {Planned, Planned + 1} :
         /\ u = Home => last = Planned
         /\ LET met == \/ \E q \in Runs : run[q].user = u /\ Writing(q)
                       \/ u = Home /\ BridgeBusy
            IN  run' = [Disturb(run, u) EXCEPT ![r] =
                          [stage |-> "look", user |-> u, title |-> 1, last |-> last,
                           alone |-> ~met]]
    /\ UNCHANGED <<tasks, home, service>>

(* The next task of the plan, or what follows the last one. *)
Advance(r) ==
    run' = [run EXCEPT ![r] =
              IF run[r].title = run[r].last THEN Idle("act")
              ELSE [run[r] EXCEPT !.stage = "look", !.title = run[r].title + 1]]

LookUp(r) ==
    /\ run[r].stage = "look"
    /\ IF Match(run[r].user, run[r].title) = {}
       THEN run' = [run EXCEPT ![r].stage = "insert"]
       ELSE Advance(r)
    /\ UNCHANGED <<tasks, home, service>>

Insert(r) ==
    /\ run[r].stage = "insert"
    /\ tasks' = Append(tasks, NewTask(run[r].user, run[r].title, run[r].alone))
    /\ Advance(r)
    /\ UNCHANGED <<home, service>>

(* The row and the message for the board's LED, the lamp, which the        *)
(* loudspeaker puts out or not, the speech, and a request's records.       *)
Act(r) ==
    /\ run[r].stage = "act"
    /\ run' = [run EXCEPT ![r] = Idle("over")]
    /\ \/ lamp = "on" /\ lamp' = "off" /\ lit' = FALSE /\ went' = TRUE
       \/ UNCHANGED home
    /\ UNCHANGED <<tasks, service>>

(* An error of the database or of the network on the way to the            *)
(* loudspeaker: nothing of what was done is taken back.                    *)
Raise(r) ==
    /\ run[r].stage \notin {"ready", "over"}
    /\ run' = [run EXCEPT ![r] = Idle("over")]
    /\ UNCHANGED <<tasks, home, service>>

Scene(r) ==
    \/ Start(r) \/ LookUp(r) \/ Insert(r) \/ Act(r)
    \/ Raise(r)

-----------------------------------------------------------------------------
(* The bridge *)

\* Mutant: any change to "off" counts, a hub that comes back included.
PollAnyChange ==
    /\ bridge.stage \in {"boot", "poll"}
    /\ seenOn' = (lamp /= "off")
    /\ bridge' = IF seenOn /\ lamp = "off" THEN [bridge EXCEPT !.stage = "event"]
                 ELSE [bridge EXCEPT !.stage = "poll"]
    /\ UNCHANGED <<tasks, run, home, cooling>>

\* Mutant: a poll that finds the lamp off compares with the new state.
PollCompareNew ==
    /\ bridge.stage \in {"boot", "poll"}
    /\ seenOn' = (lamp = "on")
    /\ bridge' = IF seenOn' /\ lamp = "off" THEN [bridge EXCEPT !.stage = "event"]
                 ELSE [bridge EXCEPT !.stage = "poll"]
    /\ UNCHANGED <<tasks, run, home, cooling>>

(* poll_once with an answer of the hub; without one nothing changes.  The  *)
(* first state is only remembered, any other is remembered before the      *)
(* change is handled.                                                      *)
Poll ==
    /\ bridge.stage \in {"boot", "poll"}
    /\ seenOn' = (lamp = "on")
    /\ bridge' = IF seenOn /\ lamp = "off" THEN [bridge EXCEPT !.stage = "event"]
                 ELSE [bridge EXCEPT !.stage = "poll"]
    /\ UNCHANGED <<tasks, run, home, cooling>>

(* The event is stored, then run_bedtime_from_voice begins unless it did   *)
(* so less than the cool-down ago.                                         *)
LampOff ==
    /\ bridge.stage = "event"
    /\ IF cooling
       THEN bridge' = [bridge EXCEPT !.stage = "poll"] /\ UNCHANGED <<run, cooling, went>>
       ELSE /\ bridge' = [stage |-> "insert", title |-> 1]
            /\ cooling' = TRUE /\ went' = FALSE
            /\ run' = Disturb(run, Home)
    /\ UNCHANGED <<tasks, lamp, lit, seenOn>>

(* Two tasks, whatever is pending. *)
BridgeInsert ==
    /\ bridge.stage = "insert"
    /\ tasks' = Append(tasks, NewTask(Home, bridge.title, FALSE))
    /\ bridge' = IF bridge.title = Planned THEN [bridge EXCEPT !.stage = "announce"]
                 ELSE [bridge EXCEPT !.title = bridge.title + 1]
    /\ UNCHANGED <<run, home, seenOn, cooling>>

(* LED, speech and event, or the log of an error: the bridge polls again. *)
Announce ==
    /\ bridge.stage \in {"announce", "error"}
    /\ bridge' = [stage |-> "poll", title |-> 1]
    /\ UNCHANGED <<tasks, run, home, seenOn, cooling>>

(* The database refuses the event or a task; the change is not seen again. *)
BridgeRaises ==
    /\ bridge.stage \in {"event", "insert"}
    /\ bridge' = [bridge EXCEPT !.stage = "error"]
    /\ UNCHANGED <<tasks, run, home, seenOn, cooling>>

CooldownEnds ==
    /\ cooling /\ cooling' = FALSE
    /\ UNCHANGED <<tasks, run, home, seenOn, bridge>>

Bridge == Poll \/ LampOff \/ BridgeInsert \/ Announce \/ BridgeRaises \/ CooldownEnds

-----------------------------------------------------------------------------
(* People, the lamp, time and restarts *)

(* A hub that goes away and comes back may find the lamp in another state. *)
Switch ==
    /\ lamp' \in {"on", "off", "unavailable"} \ {lamp}
    /\ Len(tasks) < MaxRows
    /\ lit' = IF lamp' = "unavailable" THEN lit ELSE lamp' = "on"
    /\ went' = (went \/ (lit /\ lamp' = "off"))
    /\ UNCHANGED <<tasks, run, service>>

(* update_task: a person closes a task of theirs, or opens it again; new  *)
(* titles and tasks of other requests are left out.                        *)
Patch(i) ==
    /\ tasks[i].user \in People
    /\ tasks' = [tasks EXCEPT ![i].status = IF Pending(i) THEN "closed" ELSE "reopened"]
    /\ UNCHANGED <<run, home, service>>

(* Two hours have passed since the oldest row: no scene takes that long. *)
GrowOld ==
    /\ tasks /= <<>> /\ ~cooling /\ bridge.stage \in {"boot", "poll"}
    /\ \A r \in Runs : run[r].stage \in {"ready", "over"}
    /\ tasks' = Tail(tasks)
    /\ UNCHANGED <<run, home, service>>

Restart ==
    /\ run' = [r \in Runs |-> IF run[r].stage = "ready" THEN run[r] ELSE Idle("over")]
    /\ seenOn' = FALSE /\ cooling' = FALSE
    /\ bridge' = [stage |-> "boot", title |-> 1]
    /\ UNCHANGED <<tasks, home>>

Next ==
    \/ \E r \in Runs : Scene(r)
    \/ Bridge
    \/ Switch
    \/ \E i \in DOMAIN tasks : Patch(i)
    \/ GrowOld
    \/ Restart

Spec == Init /\ [][Next]_vars

(* The bridge's thread keeps running and the hub answers sometimes. *)
FairSpec == Spec /\ WF_vars(Poll) /\ WF_vars(LampOff) /\ WF_vars(BridgeInsert) /\ WF_vars(Announce)

-----------------------------------------------------------------------------
Same(i, j) == tasks[i].user = tasks[j].user /\ tasks[i].title = tasks[j].title

(* A run of the scene that overlaps no other writer of its user's tasks    *)
(* never adds a task to a pending one of the same title from the last two  *)
(* hours, unless that one was closed meanwhile and reopened (_mk_task's    *)
(* look-up).                                                               *)
LoneRunsAreIdempotent ==
    \A i, j \in DOMAIN tasks :
        i < j /\ Same(i, j) /\ Pending(i) /\ Pending(j) /\ tasks[j].alone
            => tasks[i].status = "reopened"

(* Each bedtime scene of the bridge has a lamp that was on and went off    *)
(* since the one before: neither a hub that goes away and comes back with  *)
(* the lamp off as it was, nor a restart, nor an error makes it run one    *)
(* for nothing (poll_once).                                                *)
OncePerSwitchOff == [][bridge'.stage = "insert" /\ bridge.stage /= "insert" => went]_vars

(* A lamp that the bridge has seen on and that goes off brings a bedtime   *)
(* scene, unless the lamp changes again before the next poll, one was run  *)
(* within the cool-down, the service restarts or the event is not stored.  *)
SwitchOffHandled ==
    seenOn /\ lamp = "off" ~> cooling \/ lamp /= "off" \/ bridge.stage \in {"boot", "error"}

(* A bedtime scene is idempotent: one pending task of a title. *)
BedtimeOnce ==
    \A i, j \in DOMAIN tasks : i < j /\ Same(i, j) => ~(Pending(i) /\ Pending(j))
===============================================================================
