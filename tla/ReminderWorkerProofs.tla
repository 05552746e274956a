------------------------- MODULE ReminderWorkerProofs -------------------------
(***************************************************************************)
(* Proofs about ReminderWorker for any tasks, reminder times, horizon,     *)
(* limit and number of faults and edits: RepeatsAccounted and AuditTrail.  *)
(***************************************************************************)
EXTENDS ReminderWorker, TLAPS

\* What the proofs need to know of types: the counters are counters.
Counters ==
    /\ task \in [Tasks -> Row]
    /\ announced \in [Tasks -> Nat]
    /\ events \in [Tasks -> Nat]
    /\ patches \in Nat
    /\ faults \in Nat
    /\ pass \in Pass
    /\ current \subseteq Tasks

(***************************************************************************)
(* A task that has used up its announcements carries the marker, or is     *)
(* about to; and should it still be ahead in the pass, the pass knows.     *)
(***************************************************************************)
UsedUp(t) == announced[t] > faults + patches

UsedUpIsMarked ==
    \A t \in Tasks : UsedUp(t) =>
       /\ task[t].marked \/ (pc = "commit" /\ t \in current)
       /\ t \in pass.left => SeenMarked(t)

OneAtATime == pc \in {"idle", "visit"} => current = {}

\* A task is at hand exactly while it is announced, marked and audited.
Stages ==
    /\ now \in 0..MaxTime
    /\ pc \in {"idle", "visit", "commit", "event"}
    /\ pc \in {"commit", "event"} => \E t \in Tasks : current = {t}
    /\ patches \in 0..MaxPatches
    /\ faults \in 0..MaxFaults

Inv == Counters /\ Stages /\ RepeatsAccounted /\ UsedUpIsMarked /\ AuditTrail /\ OneAtATime

LEMMA InitInv == Init => Inv
  BY ReminderAssumption
     DEF Init, Inv, Counters, Stages, Row, Pass, NoPass, RepeatsAccounted, UsedUpIsMarked,
         UsedUp, AuditTrail, OneAtATime

(* Writing fields of one row leaves a table of rows. *)
LEMMA RowsStayRows ==
  ASSUME task \in [Tasks -> Row], NEW t \in Tasks, NEW r \in Row
  PROVE  [task EXCEPT ![t] = r] \in [Tasks -> Row]
  OBVIOUS

(* Every step keeps the counters counting. *)
LEMMA CountersStep == Counters /\ [Next]_vars => Counters'
<1> SUFFICES ASSUME Counters, [Next]_vars PROVE Counters'
  OBVIOUS
<1> USE ReminderAssumption DEF Counters
<1>1. ASSUME NEW t \in Tasks, NEW s \in {"pending", "closed"}, NEW r \in RemindAts \cup {-1}, CreateTask(t, s, r)
      PROVE Counters'
  <2> DEFINE row == [task[t] EXCEPT !.status = s, !.remindAt = r]
  <2>1. row \in Row
    <3>1. task[t] \in Row
      OBVIOUS
    <3> QED
      BY <3>1 DEF Row
  <2>2. task' = [task EXCEPT ![t] = row]
    BY <1>1 DEF CreateTask
  <2> HIDE DEF row
  <2>3. task' \in [Tasks -> Row]
    BY <2>1, <2>2, RowsStayRows
  <2>4. /\ UNCHANGED <<pass, current, announced, events, faults>>
        /\ patches' = patches \/ patches' = patches + 1
    BY <1>1 DEF CreateTask
  <2> QED
    BY <2>3, <2>4
<1>2. ASSUME NEW t \in Tasks, NEW s \in {"pending", "closed"}, PatchStatus(t, s)
      PROVE Counters'
  <2> DEFINE row == [task[t] EXCEPT !.status = s]
  <2>1. row \in Row
    <3>1. task[t] \in Row
      OBVIOUS
    <3> QED
      BY <3>1 DEF Row
  <2>2. task' = [task EXCEPT ![t] = row]
    BY <1>2 DEF PatchStatus
  <2> HIDE DEF row
  <2>3. task' \in [Tasks -> Row]
    BY <2>1, <2>2, RowsStayRows
  <2>4. /\ UNCHANGED <<pass, current, announced, events, faults>>
        /\ patches' = patches \/ patches' = patches + 1
    BY <1>2 DEF PatchStatus
  <2> QED
    BY <2>3, <2>4
<1>3. ASSUME NEW t \in Tasks, PatchNote(t)
      PROVE Counters'
  <2> DEFINE row == [task[t] EXCEPT !.marked = FALSE]
  <2>1. row \in Row
    <3>1. task[t] \in Row
      OBVIOUS
    <3> QED
      BY <3>1 DEF Row
  <2>2. task' = [task EXCEPT ![t] = row]
    BY <1>3 DEF PatchNote
  <2> HIDE DEF row
  <2>3. task' \in [Tasks -> Row]
    BY <2>1, <2>2, RowsStayRows
  <2>4. /\ UNCHANGED <<pass, current, announced, events, faults>>
        /\ patches' = patches \/ patches' = patches + 1
    BY <1>3 DEF PatchNote
  <2> QED
    BY <2>3, <2>4
<1>4. CASE Query
  <2>1. pass' \in Pass
    BY <1>4 DEF Query, Pass
  <2> QED
    BY <1>4, <2>1 DEF Query
<1>5. ASSUME NEW t \in Tasks, Skip(t)
      PROVE Counters'
  <2>1. pass' \in Pass
    BY <1>5 DEF Skip, Pass
  <2> QED
    BY <1>5, <2>1 DEF Skip
<1>6. ASSUME NEW t \in Tasks, Announce(t)
      PROVE Counters'
  <2>1. pass' \in Pass
    BY <1>6 DEF Announce, Pass
  <2>2. announced' \in [Tasks -> Nat]
    BY <1>6 DEF Announce
  <2> QED
    BY <1>6, <2>1, <2>2 DEF Announce
<1>7. CASE Mark
  <2>1. pass' \in Pass
    BY <1>7 DEF Mark, Pass
  <2>2. task' \in [Tasks -> Row]
    BY <1>7 DEF Mark, Row
  <2> QED
    BY <1>7, <2>1, <2>2 DEF Mark
<1>8. CASE StoreEvent
  BY <1>8 DEF StoreEvent
<1>9. CASE EventLost
  BY <1>9 DEF EventLost
<1>10. CASE EndPass
  BY <1>10 DEF EndPass, Pass, NoPass
<1>11. CASE Abort
  BY <1>11 DEF Abort, Pass, NoPass
<1>12. CASE Tick
  BY <1>12 DEF Tick
<1>13. CASE UNCHANGED vars
  BY <1>13 DEF vars
<1> QED
  BY <1>1, <1>2, <1>3, <1>4, <1>5, <1>6, <1>7, <1>8, <1>9, <1>10, <1>11, <1>12, <1>13 DEF Next, WorkerStep, Request

(* Only a task that the pass does not know to be marked is announced. *)
LEMMA RepeatsStep == Inv /\ [Next]_vars => RepeatsAccounted'
<1> SUFFICES ASSUME Inv, [Next]_vars PROVE RepeatsAccounted'
  OBVIOUS
<1> USE ReminderAssumption DEF Inv, Counters, RepeatsAccounted, UsedUpIsMarked, UsedUp
<1>1. ASSUME NEW t \in Tasks, NEW s \in {"pending", "closed"}, NEW r \in RemindAts \cup {-1}, CreateTask(t, s, r)
      PROVE RepeatsAccounted'
  BY <1>1 DEF CreateTask
<1>2. ASSUME NEW t \in Tasks, NEW s \in {"pending", "closed"}, PatchStatus(t, s)
      PROVE RepeatsAccounted'
  BY <1>2 DEF PatchStatus
<1>3. ASSUME NEW t \in Tasks, PatchNote(t)
      PROVE RepeatsAccounted'
  BY <1>3 DEF PatchNote
<1>4. CASE Query
  BY <1>4 DEF Query
<1>5. ASSUME NEW t \in Tasks, Skip(t)
      PROVE RepeatsAccounted'
  BY <1>5 DEF Skip
<1>6. ASSUME NEW t \in Tasks, Announce(t)
      PROVE RepeatsAccounted'
  <2>1. t \in pass.left /\ ~SeenMarked(t)
    BY <1>6 DEF Announce, IsNext
  <2>2. announced[t] <= faults + patches
    BY <2>1
  <2> QED
    BY <1>6, <2>2 DEF Announce
<1>7. CASE Mark
  BY <1>7 DEF Mark
<1>8. CASE StoreEvent
  BY <1>8 DEF StoreEvent
<1>9. CASE EventLost
  BY <1>9 DEF EventLost
<1>10. CASE EndPass
  BY <1>10 DEF EndPass
<1>11. CASE Abort
  BY <1>11 DEF Abort
<1>12. CASE Tick
  BY <1>12 DEF Tick
<1>13. CASE UNCHANGED vars
  BY <1>13 DEF vars
<1> QED
  BY <1>1, <1>2, <1>3, <1>4, <1>5, <1>6, <1>7, <1>8, <1>9, <1>10, <1>11, <1>12, <1>13 DEF Next, WorkerStep, Request

(* The marker goes away only with an edit, which pays for the next announcement. *)
LEMMA UsedUpStep == Inv /\ [Next]_vars => UsedUpIsMarked'
<1> SUFFICES ASSUME Inv, [Next]_vars PROVE UsedUpIsMarked'
  OBVIOUS
<1> USE ReminderAssumption DEF Inv, Counters, Row, Pass, NoPass, RepeatsAccounted, UsedUpIsMarked, UsedUp, SeenMarked, OneAtATime, Selected
<1>1. ASSUME NEW t \in Tasks, NEW s \in {"pending", "closed"}, NEW r \in RemindAts \cup {-1}, CreateTask(t, s, r)
      PROVE UsedUpIsMarked'
  BY <1>1 DEF CreateTask
<1>2. ASSUME NEW t \in Tasks, NEW s \in {"pending", "closed"}, PatchStatus(t, s)
      PROVE UsedUpIsMarked'
  BY <1>2 DEF PatchStatus
<1>3. ASSUME NEW t \in Tasks, PatchNote(t)
      PROVE UsedUpIsMarked'
  BY <1>3 DEF PatchNote
<1>4. CASE Query
  BY <1>4 DEF Query
<1>5. ASSUME NEW t \in Tasks, Skip(t)
      PROVE UsedUpIsMarked'
  BY <1>5 DEF Skip
<1>6. ASSUME NEW t \in Tasks, Announce(t)
      PROVE UsedUpIsMarked'
  BY <1>6 DEF Announce
<1>7. CASE Mark
  BY <1>7 DEF Mark
<1>8. CASE StoreEvent
  BY <1>8 DEF StoreEvent
<1>9. CASE EventLost
  BY <1>9 DEF EventLost
<1>10. CASE EndPass
  BY <1>10 DEF EndPass
<1>11. CASE Abort
  BY <1>11 DEF Abort
<1>12. CASE Tick
  BY <1>12 DEF Tick
<1>13. CASE UNCHANGED vars
  BY <1>13 DEF vars
<1> QED
  BY <1>1, <1>2, <1>3, <1>4, <1>5, <1>6, <1>7, <1>8, <1>9, <1>10, <1>11, <1>12, <1>13 DEF Next, WorkerStep, Request

(* An announcement is followed by its event or by a fault. *)
LEMMA AuditStep == Inv /\ [Next]_vars => AuditTrail'
<1> SUFFICES ASSUME Inv, [Next]_vars PROVE AuditTrail'
  OBVIOUS
<1> USE ReminderAssumption DEF Inv, Counters, AuditTrail, OneAtATime
<1>1. ASSUME NEW t \in Tasks, NEW s \in {"pending", "closed"}, NEW r \in RemindAts \cup {-1}, CreateTask(t, s, r)
      PROVE AuditTrail'
  BY <1>1 DEF CreateTask
<1>2. ASSUME NEW t \in Tasks, NEW s \in {"pending", "closed"}, PatchStatus(t, s)
      PROVE AuditTrail'
  BY <1>2 DEF PatchStatus
<1>3. ASSUME NEW t \in Tasks, PatchNote(t)
      PROVE AuditTrail'
  BY <1>3 DEF PatchNote
<1>4. CASE Query
  BY <1>4 DEF Query
<1>5. ASSUME NEW t \in Tasks, Skip(t)
      PROVE AuditTrail'
  BY <1>5 DEF Skip
<1>6. ASSUME NEW t \in Tasks, Announce(t)
      PROVE AuditTrail'
  BY <1>6 DEF Announce
<1>7. CASE Mark
  BY <1>7 DEF Mark
<1>8. CASE StoreEvent
  BY <1>8 DEF StoreEvent
<1>9. CASE EventLost
  BY <1>9 DEF EventLost
<1>10. CASE EndPass
  BY <1>10 DEF EndPass
<1>11. CASE Abort
  BY <1>11 DEF Abort
<1>12. CASE Tick
  BY <1>12 DEF Tick
<1>13. CASE UNCHANGED vars
  BY <1>13 DEF vars
<1> QED
  BY <1>1, <1>2, <1>3, <1>4, <1>5, <1>6, <1>7, <1>8, <1>9, <1>10, <1>11, <1>12, <1>13 DEF Next, WorkerStep, Request

(* A visit ends before the next begins. *)
LEMMA OneStep == OneAtATime /\ [Next]_vars => OneAtATime'
<1> SUFFICES ASSUME OneAtATime, [Next]_vars PROVE OneAtATime'
  OBVIOUS
<1> USE ReminderAssumption DEF OneAtATime
<1>1. ASSUME NEW t \in Tasks, NEW s \in {"pending", "closed"}, NEW r \in RemindAts \cup {-1}, CreateTask(t, s, r)
      PROVE OneAtATime'
  BY <1>1 DEF CreateTask
<1>2. ASSUME NEW t \in Tasks, NEW s \in {"pending", "closed"}, PatchStatus(t, s)
      PROVE OneAtATime'
  BY <1>2 DEF PatchStatus
<1>3. ASSUME NEW t \in Tasks, PatchNote(t)
      PROVE OneAtATime'
  BY <1>3 DEF PatchNote
<1>4. CASE Query
  BY <1>4 DEF Query
<1>5. ASSUME NEW t \in Tasks, Skip(t)
      PROVE OneAtATime'
  BY <1>5 DEF Skip
<1>6. ASSUME NEW t \in Tasks, Announce(t)
      PROVE OneAtATime'
  BY <1>6 DEF Announce
<1>7. CASE Mark
  BY <1>7 DEF Mark
<1>8. CASE StoreEvent
  BY <1>8 DEF StoreEvent
<1>9. CASE EventLost
  BY <1>9 DEF EventLost
<1>10. CASE EndPass
  BY <1>10 DEF EndPass
<1>11. CASE Abort
  BY <1>11 DEF Abort
<1>12. CASE Tick
  BY <1>12 DEF Tick
<1>13. CASE UNCHANGED vars
  BY <1>13 DEF vars
<1> QED
  BY <1>1, <1>2, <1>3, <1>4, <1>5, <1>6, <1>7, <1>8, <1>9, <1>10, <1>11, <1>12, <1>13 DEF Next, WorkerStep, Request

(* Every step goes to a stage there is, with a task at hand where it needs one. *)
LEMMA StagesStep == Stages /\ [Next]_vars => Stages'
<1> SUFFICES ASSUME Stages, [Next]_vars PROVE Stages'
  OBVIOUS
<1> USE ReminderAssumption DEF Stages
<1>1. ASSUME NEW t \in Tasks, NEW s \in {"pending", "closed"}, NEW r \in RemindAts \cup {-1}, CreateTask(t, s, r)
      PROVE Stages'
  BY <1>1 DEF CreateTask
<1>2. ASSUME NEW t \in Tasks, NEW s \in {"pending", "closed"}, PatchStatus(t, s)
      PROVE Stages'
  BY <1>2 DEF PatchStatus
<1>3. ASSUME NEW t \in Tasks, PatchNote(t)
      PROVE Stages'
  BY <1>3 DEF PatchNote
<1>4. CASE Query
  BY <1>4 DEF Query
<1>5. ASSUME NEW t \in Tasks, Skip(t)
      PROVE Stages'
  BY <1>5 DEF Skip
<1>6. ASSUME NEW t \in Tasks, Announce(t)
      PROVE Stages'
  BY <1>6 DEF Announce
<1>7. CASE Mark
  BY <1>7 DEF Mark
<1>8. CASE StoreEvent
  BY <1>8 DEF StoreEvent
<1>9. CASE EventLost
  BY <1>9 DEF EventLost
<1>10. CASE EndPass
  BY <1>10 DEF EndPass
<1>11. CASE Abort
  BY <1>11 DEF Abort
<1>12. CASE Tick
  BY <1>12 DEF Tick
<1>13. CASE UNCHANGED vars
  BY <1>13 DEF vars
<1> QED
  BY <1>1, <1>2, <1>3, <1>4, <1>5, <1>6, <1>7, <1>8, <1>9, <1>10, <1>11, <1>12, <1>13 DEF Next, WorkerStep, Request

LEMMA InductiveInv == Spec => []Inv
<1>1. Inv /\ [Next]_vars => Inv'
  BY CountersStep, RepeatsStep, UsedUpStep, AuditStep, OneStep, StagesStep DEF Inv
<1> QED
  BY InitInv, <1>1, PTL DEF Spec

(* For any tasks, limits and numbers of faults the variables keep their    *)
(* types, and the worker is at one task from its announcement to its event. *)
THEOREM TypeCorrect == Spec => []TypeOK
<1>1. Inv => TypeOK
  BY DEF Inv, Counters, Stages, OneAtATime, TypeOK
<1> QED
  BY InductiveInv, <1>1, PTL

(* Every repeated announcement is paid for by a fault or an edit of a note. *)
THEOREM RepeatsArePaidFor == Spec => []RepeatsAccounted
<1>1. Inv => RepeatsAccounted
  BY DEF Inv
<1> QED
  BY InductiveInv, <1>1, PTL

(* Every announcement leaves its event, but for one per fault. *)
THEOREM TrailIsComplete == Spec => []AuditTrail
<1>1. Inv => AuditTrail
  BY DEF Inv
<1> QED
  BY InductiveInv, <1>1, PTL
=============================================================================
