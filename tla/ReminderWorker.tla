---------------------------- MODULE ReminderWorker ----------------------------
(***************************************************************************)
(* The reminder worker of the cloud API: a thread that every 20 s queries  *)
(* the tasks whose reminder is due, announces each over MQTT, marks it in  *)
(* its note and stores an event; and the task endpoints that change the    *)
(* same rows from request threads.                                         *)
(*                                                                         *)
(* Times are counted in units of the query's 90 s horizon, and remind_at   *)
(* is compared with utcnow as it is stored, without a zone.                *)
(***************************************************************************)
EXTENDS Integers, FiniteSets

CONSTANTS
    Tasks,       \* task ids
    RemindAts,   \* reminder times clients ask for
    Horizon,     \* how far ahead of utcnow the query looks
    Limit,       \* limit of the query
    MaxTime,     \* bound on the clock
    MaxFaults,   \* bound on crashes and failed commits
    MaxPatches   \* bound on PATCHes of a note

ASSUME ReminderAssumption ==
    /\ RemindAts \subseteq Nat
    /\ Horizon \in Nat
    /\ Limit \in Nat \ {0}
    /\ MaxTime \in Nat /\ MaxFaults \in Nat /\ MaxPatches \in Nat

VARIABLES
    now,       \* datetime.utcnow()
    task,      \* task id -> its row
    pass,      \* the pass under way: what the query returned and what is left
    pc,        \* what the worker does next: "idle" sleeps, then queries
    current,   \* tasks the worker is at: none or one
    announced, \* task -> how often its announcement was attempted
    events,    \* task -> task_reminder events stored for it
    patches,   \* PATCHes of notes so far
    faults     \* crashes and failed commits so far

vars == <<now, task, pass, pc, current, announced, events, patches, faults>>

-----------------------------------------------------------------------------
\* closed: done or cancelled, which nothing here tells apart
Row == [status : {"absent", "pending", "closed"},
        remindAt : RemindAts \cup {-1},       \* -1: no reminder
        marked : BOOLEAN]                     \* MARK in note

\* rows not yet visited, those of the query that were marked then, and
\* whether a commit has made the session read rows afresh since
Pass == [left : SUBSET Tasks, seen : SUBSET Tasks, fresh : BOOLEAN]
NoPass == [left |-> {}, seen |-> {}, fresh |-> FALSE]

TypeOK ==
    /\ now \in 0..MaxTime
    /\ task \in [Tasks -> Row]
    /\ pass \in Pass
    /\ pc \in {"idle", "visit", "commit", "event"}
    /\ IF pc \in {"commit", "event"} THEN \E t \in Tasks : current = {t}
                                    ELSE current = {}
    /\ announced \in [Tasks -> Nat] /\ events \in [Tasks -> Nat]
    /\ patches \in 0..MaxPatches
    /\ faults \in 0..MaxFaults

Init ==
    /\ now = 0
    /\ task = [t \in Tasks |-> [status |-> "absent", remindAt |-> -1,
                                marked |-> FALSE]]
    /\ pass = NoPass
    /\ pc = "idle"
    /\ current = {}
    /\ announced = [t \in Tasks |-> 0]
    /\ events = [t \in Tasks |-> 0]
    /\ patches = 0
    /\ faults = 0

-----------------------------------------------------------------------------
(* The task endpoints *)

CreateTask(t, status, r) ==
    /\ task[t].status = "absent"
    /\ task' = [task EXCEPT ![t].status = status, ![t].remindAt = r]
    /\ UNCHANGED <<now, pass, pc, current, announced, events, patches, faults>>

PatchStatus(t, status) ==
    /\ task[t].status # "absent"
    /\ task' = [task EXCEPT ![t].status = status]
    /\ UNCHANGED <<now, pass, pc, current, announced, events, patches, faults>>

(* The note is replaced as a whole, the worker's marker with it. *)
PatchNote(t) ==
    /\ task[t].status # "absent"
    /\ patches < MaxPatches
    /\ patches' = patches + 1
    /\ task' = [task EXCEPT ![t].marked = FALSE]
    /\ UNCHANGED <<now, pass, pc, current, announced, events, faults>>

-----------------------------------------------------------------------------
(* process_due_tasks *)

Selected(t) ==
    /\ task[t].status = "pending"
    /\ task[t].remindAt # -1
    /\ task[t].remindAt <= now + Horizon

Earlier(t, u) == task[t].remindAt <= task[u].remindAt

(* The Limit earliest of the selected tasks, the marked ones included. *)
Query ==
    /\ pc = "idle"
    /\ \E B \in SUBSET {t \in Tasks : Selected(t)} :
          /\ \/ Cardinality(B) = Limit
             \/ Cardinality(B) < Limit /\ \A t \in Tasks : Selected(t) => t \in B
          /\ \A t \in B, u \in Tasks \ B : Selected(u) => Earlier(t, u)
          /\ pass' = [left |-> B, seen |-> {t \in B : task[t].marked},
                      fresh |-> FALSE]
    /\ pc' = "visit"
    /\ UNCHANGED <<now, task, current, announced, events, patches, faults>>

\* A commit expires what the session has loaded: later rows are read anew.
SeenMarked(t) == IF pass.fresh THEN task[t].marked ELSE t \in pass.seen

IsNext(t) == t \in pass.left /\ \A u \in pass.left : Earlier(t, u)

\* Mutant: a marked task ends the pass.
SkipEndsPass(t) ==
    /\ pc = "visit"
    /\ IsNext(t)
    /\ SeenMarked(t)
    /\ pass' = NoPass
    /\ pc' = "idle"
    /\ UNCHANGED <<now, task, current, announced, events, patches, faults>>

Skip(t) ==
    /\ pc = "visit"
    /\ IsNext(t)
    /\ SeenMarked(t)
    /\ pass' = [pass EXCEPT !.left = @ \ {t}]
    /\ UNCHANGED <<now, task, pc, current, announced, events, patches, faults>>

(* Publish the announcement; whether that works makes no difference here. *)
Announce(t) ==
    /\ pc = "visit"
    /\ IsNext(t)
    /\ ~SeenMarked(t)
    /\ pass' = [pass EXCEPT !.left = @ \ {t}]
    /\ announced' = [announced EXCEPT ![t] = @ + 1]
    /\ current' = {t}
    /\ pc' = "commit"
    /\ UNCHANGED <<now, task, events, patches, faults>>

\* Mutant: the marker is not written.
MarkNothing ==
    /\ pc = "commit"
    /\ pass' = [pass EXCEPT !.fresh = TRUE]
    /\ pc' = "event"
    /\ UNCHANGED <<now, task, current, announced, events, patches, faults>>

Mark ==
    /\ pc = "commit"
    /\ task' = [t \in Tasks |-> IF t \in current
                                THEN [task[t] EXCEPT !.marked = TRUE]
                                ELSE task[t]]
    /\ pass' = [pass EXCEPT !.fresh = TRUE]
    /\ pc' = "event"
    /\ UNCHANGED <<now, current, announced, events, patches, faults>>

\* Mutant: the event is left out.
StoreNothing ==
    /\ pc = "event"
    /\ current' = {}
    /\ pc' = "visit"
    /\ UNCHANGED <<now, task, pass, announced, events, patches, faults>>

StoreEvent ==
    /\ pc = "event"
    /\ events' = [t \in Tasks |-> IF t \in current THEN events[t] + 1 ELSE events[t]]
    /\ current' = {}
    /\ pc' = "visit"
    /\ UNCHANGED <<now, task, pass, announced, patches, faults>>

(* _store_event swallows its own failure and the pass goes on. *)
EventLost ==
    /\ pc = "event"
    /\ faults < MaxFaults
    /\ faults' = faults + 1
    /\ current' = {}
    /\ pc' = "visit"
    /\ UNCHANGED <<now, task, pass, announced, events, patches>>

EndPass ==
    /\ pc = "visit"
    /\ pass.left = {}
    /\ pass' = NoPass
    /\ pc' = "idle"
    /\ UNCHANGED <<now, task, current, announced, events, patches, faults>>

(* A query or a commit fails and the rest of the pass is dropped, or the    *)
(* process dies and starts again.                                          *)
Abort ==
    /\ pc # "idle"
    /\ faults < MaxFaults
    /\ faults' = faults + 1
    /\ pass' = NoPass
    /\ current' = {}
    /\ pc' = "idle"
    /\ UNCHANGED <<now, task, announced, events, patches>>

-----------------------------------------------------------------------------
Tick == /\ now < MaxTime
        /\ now' = now + 1
        /\ UNCHANGED <<task, pass, pc, current, announced, events, patches, faults>>

WorkerStep ==
    \/ Query
    \/ \E t \in Tasks : Skip(t) \/ Announce(t)
    \/ Mark
    \/ StoreEvent
    \/ EventLost
    \/ EndPass

Request ==
    \E t \in Tasks :
       \/ \E s \in {"pending", "closed"}, r \in RemindAts \cup {-1} : CreateTask(t, s, r)
       \/ \E s \in {"pending", "closed"} : PatchStatus(t, s)
       \/ PatchNote(t)

Next == WorkerStep \/ Abort \/ Request \/ Tick

Spec == Init /\ [][Next]_vars

\* The worker thread is scheduled and its loop goes on after an error.
FairSpec == Spec /\ WF_vars(WorkerStep)

-----------------------------------------------------------------------------
(* Properties *)

(***************************************************************************)
(* A task is announced once, and once more at most for every crash, failed *)
(* commit and PATCH of a note: nothing else repeats an announcement.       *)
(***************************************************************************)
RepeatsAccounted == \A t \in Tasks : announced[t] <= 1 + faults + patches

(***************************************************************************)
(* Every announcement leaves an event behind, except for one per fault and *)
(* the one under way.                                                      *)
(***************************************************************************)
AuditTrail ==
    \A t \in Tasks :
       announced[t] <= events[t] + faults + (IF t \in current THEN 1 ELSE 0)

(***************************************************************************)
(* A pending task that comes within the horizon is marked as reminded,     *)
(* unless it is completed or cancelled first, or as many tasks as a query  *)
(* returns stand before it, still pending though announced long ago.       *)
(***************************************************************************)
Crowded(t) ==
    Limit <= Cardinality({u \in Tasks : /\ Selected(u) /\ task[u].marked
                                        /\ Earlier(u, t)})

DueIsHandled ==
    \A t \in Tasks :
       (Selected(t) /\ ~task[t].marked)
           ~> (task[t].marked \/ ~Selected(t) \/ Crowded(t))
===============================================================================
