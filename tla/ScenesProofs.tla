----------------------------- MODULE ScenesProofs -----------------------------
(***************************************************************************)
(* Proofs about Scenes for any runs, people, number of planned tasks and   *)
(* bound: type correctness, LoneRunsAreIdempotent and OncePerSwitchOff.    *)
(*                                                                         *)
(* LoneRunsAreIdempotent is not inductive: a closed row may be opened      *)
(* again.  Settled says that no row before a lone run's is still as it was *)
(* inserted, which closing and reopening keep.  An insertion keeps it if a *)
(* lone run about to insert has found every earlier row of its kind closed *)
(* since (Clear), and that holds because writers of one user who overlap   *)
(* are not alone (Apart).                                                  *)
(***************************************************************************)
EXTENDS Scenes, TLAPS

Settled ==
    \A i, j \in DOMAIN tasks :
        i < j /\ Same(i, j) /\ tasks[j].alone => tasks[i].status /= "pending"

Clear ==
    \A r \in Runs : run[r].stage = "insert" /\ run[r].alone =>
        \A i \in DOMAIN tasks :
            tasks[i].user = run[r].user /\ tasks[i].title = run[r].title
                => tasks[i].status /= "pending"

Apart ==
    /\ \A r, q \in Runs :
         r /= q /\ Writing(r) /\ Writing(q) /\ run[r].user = run[q].user => ~run[r].alone
    /\ \A r \in Runs : Writing(r) /\ run[r].user = Home /\ BridgeBusy => ~run[r].alone

(* A lamp that was on when last polled is lit still, behind an absent hub  *)
(* perhaps, or went off since; so did one whose going off is being handled.*)
Seen ==
    /\ lamp = "on" => lit
    /\ lamp = "off" => ~lit
    /\ seenOn => lit \/ went
    /\ bridge.stage = "event" => went /\ ~seenOn

Ordered ==
    /\ \A r \in Runs : run[r].title <= run[r].last
    /\ bridge.title <= Planned

Inv == TypeOK /\ Ordered /\ Settled /\ Clear /\ Apart /\ Seen

LEMMA InitInv == Init => Inv
<1> SUFFICES ASSUME Init PROVE Inv
  OBVIOUS
<1> USE ScenesAssumption DEF Init, Idle
<1>0. 1 \in Title /\ Home \in Users
  BY DEF Title, Users
<1>1. TypeOK
  <2>1. tasks \in Seq(Task)
    OBVIOUS
  <2>2. run \in [Runs -> Run]
    BY <1>0 DEF Run
  <2> QED
    BY <1>0, <2>1, <2>2 DEF TypeOK
<1>2. Ordered
  BY DEF Ordered
<1>3. Settled /\ Clear /\ Apart
  BY DEF Settled, Clear, Apart, Writing
<1>4. Seen
  <2>1. (lamp = "on" => lit) /\ (lamp = "off" => ~lit)
    OBVIOUS
  <2> QED
    BY <2>1 DEF Seen
<1> QED
  BY <1>1, <1>2, <1>3, <1>4 DEF Inv

-----------------------------------------------------------------------------
(* Type correctness *)

LEMMA IdleType == ASSUME NEW s \in {"ready", "look", "insert", "act", "over"}
                  PROVE Idle(s) \in Run
  BY ScenesAssumption DEF Idle, Run, Title, Users

LEMMA AdvanceType ==
    ASSUME TypeOK, Ordered, NEW r \in Runs, Advance(r)
    PROVE  run' \in [Runs -> Run]
<1>1. CASE run[r].title = run[r].last
  <2>1. run' = [run EXCEPT ![r] = Idle("act")]
    BY <1>1 DEF Advance
  <2> QED
    BY <2>1, IdleType DEF TypeOK
<1>2. CASE run[r].title /= run[r].last
  <2>1. run' = [run EXCEPT ![r] = [run[r] EXCEPT !.stage = "look", !.title = run[r].title + 1]]
    BY <1>2 DEF Advance
  <2>2. run[r] \in Run
    BY DEF TypeOK
  <2>3. run[r].title + 1 \in Title
    BY <1>2, <2>2, ScenesAssumption DEF Run, Title, Ordered
  <2>4. [run[r] EXCEPT !.stage = "look", !.title = run[r].title + 1] \in Run
    BY <2>2, <2>3 DEF Run
  <2> QED
    BY <2>1, <2>4 DEF TypeOK
<1> QED
  BY <1>1, <1>2

LEMMA OneMore == ASSUME TypeOK, NEW t \in Task
                 PROVE  Append(tasks, t) \in Seq(Task)
  BY DEF TypeOK

(* Marking the runs of one user changes nothing but the marks. *)
LEMMA Disturbed ==
    ASSUME TypeOK, NEW u \in Users
    PROVE  /\ Disturb(run, u) \in [Runs -> Run]
           /\ \A r \in Runs :
                /\ Disturb(run, u)[r].stage = run[r].stage
                /\ Disturb(run, u)[r].user = run[r].user
                /\ Disturb(run, u)[r].title = run[r].title
                /\ Disturb(run, u)[r].last = run[r].last
                /\ Disturb(run, u)[r].alone = (run[r].alone /\ run[r].user /= u)
  BY DEF TypeOK, Disturb, Run

(* The record that a run starts with. *)
LEMMA StartRecord ==
    ASSUME TypeOK, NEW u \in Users, NEW last \in {Planned, Planned + 1}, NEW b \in BOOLEAN
    PROVE  [stage |-> "look", user |-> u, title |-> 1, last |-> last, alone |-> b] \in Run
  BY ScenesAssumption DEF Run, Title

LEMMA TypeStep == TypeOK /\ Ordered /\ [Next]_vars => TypeOK'
<1> SUFFICES ASSUME TypeOK, Ordered, [Next]_vars PROVE TypeOK'
  OBVIOUS
<1> USE DEF home, service
<1>1. ASSUME NEW r \in Runs, Scene(r) PROVE TypeOK'
  <2>1. CASE Start(r)
    <3>1. PICK u \in Users, last \in {Planned, Planned + 1} :
            \E b \in BOOLEAN : run' = [Disturb(run, u) EXCEPT ![r] =
              [stage |-> "look", user |-> u, title |-> 1, last |-> last, alone |-> b]]
      BY <2>1 DEF Start
    <3>2. run' \in [Runs -> Run]
      BY <3>1, StartRecord, Disturbed
    <3> QED
      BY <2>1, <3>2 DEF Start, TypeOK
  <2>2. CASE LookUp(r)
    <3>1. run' \in [Runs -> Run]
      <4>1. CASE Advance(r)
        BY <4>1, AdvanceType
      <4>2. CASE run' = [run EXCEPT ![r].stage = "insert"]
        BY <4>2 DEF TypeOK, Run
      <4> QED
        BY <2>2, <4>1, <4>2 DEF LookUp
    <3> QED
      BY <2>2, <3>1 DEF LookUp, TypeOK
  <2>3. CASE Insert(r)
    <3>1. NewTask(run[r].user, run[r].title, run[r].alone) \in Task
      BY DEF NewTask, TypeOK, Run, Task
    <3>2. tasks' \in Seq(Task) /\ run' \in [Runs -> Run]
      BY <2>3, <3>1, OneMore, AdvanceType DEF Insert
    <3> QED
      BY <2>3, <3>2 DEF Insert, TypeOK
  <2>4. CASE Act(r)
    BY <2>4, IdleType DEF Act, TypeOK
  <2>5. CASE Raise(r)
    BY <2>5, IdleType DEF Raise, TypeOK
  <2> QED
    BY <1>1, <2>1, <2>2, <2>3, <2>4, <2>5 DEF Scene
<1>2. CASE Bridge
  <2>0. 1 \in Title /\ Home \in Users
    BY ScenesAssumption DEF Title, Users
  <2>1. CASE Poll
    BY <2>1 DEF Poll, TypeOK
  <2>2. CASE LampOff
    <3>1. Disturb(run, Home) \in [Runs -> Run]
      BY <2>0, Disturbed
    <3>2. bridge' \in [stage : {"boot", "poll", "event", "insert", "announce", "error"},
                       title : Title]
      BY <2>2, <2>0 DEF LampOff, TypeOK
    <3>3. run' \in [Runs -> Run] /\ cooling' \in BOOLEAN /\ went' \in BOOLEAN
      <4>1. CASE cooling
        BY <2>2, <4>1 DEF LampOff, TypeOK
      <4>2. CASE ~cooling
        BY <2>2, <3>1, <4>2 DEF LampOff
      <4> QED
        BY <4>1, <4>2
    <3> QED
      BY <2>2, <3>2, <3>3 DEF LampOff, TypeOK
  <2>3. CASE BridgeInsert
    <3>1. NewTask(Home, bridge.title, FALSE) \in Task
      BY <2>0 DEF NewTask, TypeOK, Task
    <3>2. bridge.title /= Planned => bridge.title + 1 \in Title
      BY ScenesAssumption DEF TypeOK, Title, Ordered
    <3>3. tasks' \in Seq(Task)
      BY <2>3, <3>1, OneMore DEF BridgeInsert
    <3> QED
      BY <2>3, <3>2, <3>3 DEF BridgeInsert, TypeOK
  <2>4. CASE Announce
    BY <2>4, <2>0 DEF Announce, TypeOK
  <2>5. CASE BridgeRaises
    BY <2>5 DEF BridgeRaises, TypeOK
  <2>6. CASE CooldownEnds
    BY <2>6 DEF CooldownEnds, TypeOK
  <2> QED
    BY <1>2, <2>1, <2>2, <2>3, <2>4, <2>5, <2>6 DEF Bridge
<1>3. CASE Switch
  BY <1>3 DEF Switch, TypeOK
<1>4. ASSUME NEW i \in DOMAIN tasks, Patch(i) PROVE TypeOK'
  <2>1. PICK st \in {"closed", "reopened"} : tasks' = [tasks EXCEPT ![i].status = st]
    BY <1>4 DEF Patch
  <2>2. [tasks[i] EXCEPT !.status = st] \in Task
    <3>1. tasks[i] \in Task
      BY DEF TypeOK
    <3> QED
      BY <3>1 DEF Task
  <2>3. tasks' \in Seq(Task)
    <3>1. [tasks EXCEPT ![i] = [tasks[i] EXCEPT !.status = st]] \in Seq(Task)
      BY <2>2 DEF TypeOK
    <3> QED
      BY <2>1, <3>1
  <2> QED
    BY <1>4, <2>3 DEF Patch, TypeOK
<1>5. CASE GrowOld
  BY <1>5 DEF GrowOld, TypeOK
<1>6. CASE Restart
  <2>1. run' \in [Runs -> Run]
    BY <1>6, IdleType DEF Restart, TypeOK
  <2>2. 1 \in Title
    BY ScenesAssumption DEF Title
  <2> QED
    BY <1>6, <2>1, <2>2 DEF Restart, TypeOK
<1>7. CASE UNCHANGED vars
  BY <1>7 DEF vars, TypeOK
<1> QED
  BY <1>1, <1>2, <1>3, <1>4, <1>5, <1>6, <1>7 DEF Next

LEMMA OrderedStep == Inv /\ [Next]_vars => Ordered'
<1> SUFFICES ASSUME Inv, [Next]_vars PROVE Ordered'
  OBVIOUS
<1> USE DEF Inv, home, service
<1>1. ASSUME NEW r \in Runs, Scene(r) PROVE Ordered'
  <2>0. run \in [Runs -> Run]
    BY DEF TypeOK
  <2>1. CASE Start(r)
    <3>1. PICK u \in Users, last \in {Planned, Planned + 1} :
            \E b \in BOOLEAN : run' = [Disturb(run, u) EXCEPT ![r] =
              [stage |-> "look", user |-> u, title |-> 1, last |-> last, alone |-> b]]
      BY <2>1 DEF Start
    <3> QED
      BY <2>1, <3>1, Disturbed, ScenesAssumption DEF Start, Ordered
  <2>2. CASE Advance(r) /\ UNCHANGED service
    <3>1. ASSUME NEW q \in Runs PROVE run'[q].title <= run'[q].last
      <4>1. CASE run[r].title = run[r].last
        BY <2>0, <2>2, <4>1 DEF Advance, Idle, Ordered
      <4>2. CASE run[r].title /= run[r].last
        BY <2>0, <2>2, <4>2, ScenesAssumption DEF Advance, Ordered, Run, Title
      <4> QED
        BY <4>1, <4>2
    <3> QED
      BY <2>2, <3>1 DEF Ordered
  <2>3. CASE LookUp(r) /\ ~Advance(r)
    <3>1. run' = [run EXCEPT ![r].stage = "insert"] /\ bridge' = bridge
      BY <2>3 DEF LookUp
    <3>2. \A q \in Runs : run'[q].title = run[q].title /\ run'[q].last = run[q].last
      BY <2>0, <3>1 DEF Run
    <3> QED
      BY <3>1, <3>2 DEF Ordered
  <2>4. CASE Act(r) \/ Raise(r)
    BY <2>0, <2>4 DEF Act, Raise, Idle, Ordered
  <2> QED
    BY <1>1, <2>1, <2>2, <2>3, <2>4 DEF Scene, LookUp, Insert
<1>2. CASE Bridge
  <2>1. CASE LampOff
    <3>1. run' = run \/ run' = Disturb(run, Home)
      BY <2>1 DEF LampOff
    <3>2. \A r \in Runs : run'[r].title <= run'[r].last
      BY <3>1, Disturbed DEF Ordered, Users
    <3>3. bridge'.title \in {1, bridge.title}
      BY <2>1 DEF LampOff, TypeOK
    <3> QED
      BY <3>2, <3>3, ScenesAssumption DEF Ordered
  <2>2. CASE BridgeInsert
    BY <2>2, ScenesAssumption DEF BridgeInsert, Ordered, TypeOK, Title
  <2>3. CASE Poll \/ Announce \/ BridgeRaises \/ CooldownEnds
    BY <2>3, ScenesAssumption DEF Poll, Announce, BridgeRaises, CooldownEnds, Ordered, TypeOK
  <2> QED
    BY <1>2, <2>1, <2>2, <2>3 DEF Bridge
<1>3. CASE Restart
  <2>1. \A r \in Runs : run'[r].title <= run'[r].last
    BY <1>3 DEF Restart, Idle, Ordered
  <2> QED
    BY <1>3, <2>1, ScenesAssumption DEF Restart, Ordered
<1>4. CASE UNCHANGED <<run, bridge>>
  BY <1>4 DEF Ordered
<1> QED
  BY <1>1, <1>2, <1>3, <1>4 DEF Next, Switch, Patch, GrowOld, vars

-----------------------------------------------------------------------------
(* The bridge *)

LEMMA SeenStep == Inv /\ [Next]_vars => Seen'
<1> SUFFICES ASSUME Inv, [Next]_vars PROVE Seen'
  OBVIOUS
<1> USE DEF Inv, Seen, home, service
<1>1. ASSUME NEW r \in Runs, Scene(r) PROVE Seen'
  BY <1>1 DEF Scene, Start, LookUp, Insert, Act, Raise
<1>2. CASE Bridge
  <2>0. bridge \in [stage : {"boot", "poll", "event", "insert", "announce", "error"},
                    title : Title]
    BY DEF TypeOK
  <2>1. CASE Poll
    BY <2>0, <2>1 DEF Poll
  <2>2. CASE LampOff
    <3>0. \/ bridge' = [bridge EXCEPT !.stage = "poll"]
          \/ bridge' = [stage |-> "insert", title |-> 1]
      BY <2>2 DEF LampOff
    <3>1. bridge'.stage /= "event"
      BY <2>0, <3>0
    <3>2. ~seenOn' /\ lamp' = lamp /\ lit' = lit
      <4>1. ~seenOn /\ seenOn' = seenOn /\ lamp' = lamp /\ lit' = lit
        BY <2>2 DEF LampOff
      <4> QED
        BY <4>1
    <3> QED
      BY <3>1, <3>2
  <2>3. CASE BridgeInsert \/ Announce \/ BridgeRaises \/ CooldownEnds
    <3>1. bridge'.stage = "event" => bridge.stage = "event"
      <4>1. CASE BridgeInsert
        BY <2>0, <4>1 DEF BridgeInsert
      <4>2. CASE Announce
        BY <2>0, <4>2 DEF Announce
      <4>3. CASE BridgeRaises
        BY <2>0, <4>3 DEF BridgeRaises
      <4>4. CASE bridge' = bridge
        BY <4>4
      <4> QED
        BY <2>3, <4>1, <4>2, <4>3, <4>4 DEF CooldownEnds
    <3>2. lamp' = lamp /\ lit' = lit /\ went' = went /\ seenOn' = seenOn
      BY <2>3 DEF BridgeInsert, Announce, BridgeRaises, CooldownEnds
    <3> QED
      BY <3>1, <3>2
  <2> QED
    BY <1>2, <2>1, <2>2, <2>3 DEF Bridge
<1>3. CASE Switch
  BY <1>3 DEF Switch
<1>4. CASE Restart
  BY <1>4 DEF Restart
<1>5. CASE UNCHANGED <<home, service>>
  BY <1>5
<1> QED
  BY <1>1, <1>2, <1>3, <1>4, <1>5 DEF Next, Patch, GrowOld, vars

-----------------------------------------------------------------------------
(* Lone runs *)

\* No run begins or goes on to another user's tasks.
NoneBegins ==
    \A r \in Runs : Writing(r)' =>
        Writing(r) /\ run'[r].user = run[r].user /\ (run'[r].alone => run[r].alone)

LEMMA Quieter == ASSUME Apart, NoneBegins, BridgeBusy' => BridgeBusy PROVE Apart'
  BY DEF Apart, NoneBegins

(* A run that advances writes on for the same user or stops writing. *)
LEMMA AdvanceBeginsNone ==
    ASSUME TypeOK, NEW r \in Runs, Writing(r), Advance(r)
    PROVE  NoneBegins /\ run'[r].stage /= "insert" /\ \A q \in Runs \ {r} : run'[q] = run[q]
<1>0. run \in [Runs -> Run]
  BY DEF TypeOK
<1>1. \A q \in Runs \ {r} : run'[q] = run[q]
  BY <1>0 DEF Advance
<1>2. CASE run[r].title = run[r].last
  <2>1. run'[r].stage = "act"
    BY <1>0, <1>2 DEF Advance, Idle
  <2> QED
    BY <1>1, <2>1 DEF NoneBegins, Writing
<1>3. CASE run[r].title /= run[r].last
  <2>1. run'[r] = [run[r] EXCEPT !.stage = "look", !.title = run[r].title + 1]
    BY <1>0, <1>3 DEF Advance
  <2>2. run'[r].stage = "look" /\ run'[r].user = run[r].user /\ run'[r].alone = run[r].alone
    BY <1>0, <2>1 DEF Run
  <2> QED
    BY <1>1, <2>2 DEF NoneBegins, Writing
<1> QED
  BY <1>2, <1>3

LEMMA ApartStep == Inv /\ [Next]_vars => Apart'
<1> SUFFICES ASSUME Inv, [Next]_vars PROVE Apart'
  OBVIOUS
<1> USE DEF Inv, home, service
<1>0. run \in [Runs -> Run]
  BY DEF TypeOK
<1>1. ASSUME NEW r \in Runs, Scene(r) PROVE Apart'
  <2>1. CASE Start(r)
    <3>1. PICK u \in Users, last \in {Planned, Planned + 1}, b \in BOOLEAN :
            /\ b => ~(u = Home /\ BridgeBusy) /\ \A q \in Runs : ~(run[q].user = u /\ Writing(q))
            /\ run' = [Disturb(run, u) EXCEPT ![r] =
                 [stage |-> "look", user |-> u, title |-> 1, last |-> last, alone |-> b]]
      BY <2>1 DEF Start
    <3>2. /\ run'[r].stage = "look" /\ run'[r].user = u /\ (run'[r].alone => b)
          /\ \A q \in Runs \ {r} : run'[q] = Disturb(run, u)[q]
      BY <3>1, Disturbed
    <3>3. \A q \in Runs \ {r} :
            /\ Writing(q)' => Writing(q)
            /\ run'[q].user = run[q].user
            /\ run'[q].alone => run[q].alone /\ run[q].user /= u
      <4> SUFFICES ASSUME NEW q \in Runs \ {r}
                   PROVE  /\ Writing(q)' => Writing(q)
                          /\ run'[q].user = run[q].user
                          /\ run'[q].alone => run[q].alone /\ run[q].user /= u
        OBVIOUS
      <4>1. run'[q] = Disturb(run, u)[q]
        BY <3>2
      <4>2. run'[q].stage = run[q].stage /\ run'[q].user = run[q].user
        BY <4>1, Disturbed
      <4>3. run'[q].alone = (run[q].alone /\ run[q].user /= u)
        BY <4>1, Disturbed
      <4> QED
        BY <4>2, <4>3 DEF Writing
    <3>4. bridge' = bridge
      BY <2>1 DEF Start
    <3>5. ASSUME NEW p \in Runs, NEW q \in Runs, p /= q, Writing(p)', Writing(q)',
                 run'[p].user = run'[q].user
          PROVE  ~run'[p].alone
      <4>1. CASE p = r
        BY <3>1, <3>2, <3>3, <3>5, <4>1
      <4>2. CASE q = r
        BY <3>2, <3>3, <3>5, <4>2
      <4>3. CASE p /= r /\ q /= r
        BY <3>3, <3>5, <4>3 DEF Apart
      <4> QED
        BY <4>1, <4>2, <4>3
    <3>6. ASSUME NEW p \in Runs, Writing(p)', run'[p].user = Home, BridgeBusy'
          PROVE  ~run'[p].alone
      <4>1. CASE p = r
        BY <3>1, <3>2, <3>4, <3>6, <4>1 DEF BridgeBusy
      <4>2. CASE p /= r
        BY <3>3, <3>4, <3>6, <4>2 DEF BridgeBusy, Apart
      <4> QED
        BY <4>1, <4>2
    <3> QED
      BY <3>5, <3>6 DEF Apart
  <2>2. CASE LookUp(r) /\ ~Advance(r)
    <3>1. run' = [run EXCEPT ![r].stage = "insert"] /\ bridge' = bridge /\ Writing(r)
      BY <2>2 DEF LookUp, Writing
    <3>2. \A q \in Runs : run'[q].user = run[q].user /\ run'[q].alone = run[q].alone
      BY <1>0, <3>1 DEF Run
    <3>3. \A q \in Runs : Writing(q)' => Writing(q)
      BY <1>0, <3>1 DEF Writing
    <3>4. NoneBegins
      BY <3>2, <3>3 DEF NoneBegins
    <3> QED
      BY <3>1, <3>4, Quieter DEF BridgeBusy
  <2>3. CASE Writing(r) /\ Advance(r) /\ UNCHANGED service
    BY <2>3, AdvanceBeginsNone, Quieter DEF BridgeBusy
  <2>4. CASE Act(r) \/ Raise(r)
    <3>1. run' = [run EXCEPT ![r] = Idle("over")] /\ bridge' = bridge
      BY <2>4 DEF Act, Raise
    <3>2. run'[r].stage = "over" /\ \A q \in Runs \ {r} : run'[q] = run[q]
      BY <1>0, <3>1 DEF Idle
    <3>3. NoneBegins
      BY <3>2 DEF NoneBegins, Writing
    <3> QED
      BY <3>1, <3>3, Quieter DEF BridgeBusy
  <2> QED
    BY <1>1, <2>1, <2>2, <2>3, <2>4 DEF Scene, LookUp, Insert, Writing
<1>2. CASE LampOff
  <2>1. CASE ~cooling
    <3>1. run' = Disturb(run, Home)
      BY <1>2, <2>1 DEF LampOff
    <3>2. \A q \in Runs :
            /\ Writing(q)' => Writing(q)
            /\ run'[q].user = run[q].user
            /\ run'[q].alone => run[q].alone /\ run[q].user /= Home
      BY <3>1, Disturbed DEF Writing, Users
    <3> QED
      BY <3>2 DEF Apart
  <2>2. CASE cooling
    <3>1. bridge' = [bridge EXCEPT !.stage = "poll"] /\ run' = run
      BY <1>2, <2>2 DEF LampOff
    <3>2. NoneBegins /\ ~BridgeBusy'
      BY <3>1 DEF NoneBegins, Writing, BridgeBusy, TypeOK
    <3> QED
      BY <3>2, Quieter
  <2> QED
    BY <2>1, <2>2
<1>3. CASE Restart
  <2>1. \A q \in Runs : ~Writing(q)'
    BY <1>3 DEF Restart, Idle, Writing
  <2> QED
    BY <2>1 DEF Apart
<1>4. CASE run' = run /\ (BridgeBusy' => BridgeBusy)
  BY <1>4, Quieter DEF NoneBegins, Writing
<1>5. ASSUME Poll \/ BridgeInsert \/ Announce \/ BridgeRaises \/ CooldownEnds
      PROVE  run' = run /\ (BridgeBusy' => BridgeBusy)
  <2>0. bridge \in [stage : {"boot", "poll", "event", "insert", "announce", "error"},
                    title : Title]
    BY DEF TypeOK
  <2>1. CASE Poll
    BY <2>0, <2>1 DEF Poll, BridgeBusy
  <2>2. CASE BridgeInsert
    BY <2>2 DEF BridgeInsert, BridgeBusy
  <2>3. CASE Announce
    BY <2>3 DEF Announce, BridgeBusy
  <2>4. CASE BridgeRaises
    BY <2>0, <2>4 DEF BridgeRaises, BridgeBusy
  <2>5. CASE CooldownEnds
    BY <2>5 DEF CooldownEnds, BridgeBusy
  <2> QED
    BY <1>5, <2>1, <2>2, <2>3, <2>4, <2>5
<1> QED
  BY <1>1, <1>2, <1>3, <1>4, <1>5 DEF Next, Bridge, Switch, Patch, GrowOld, vars, BridgeBusy

\* A lone run about to insert was so before; a pending row had an equal one.
InsertersKept ==
    \A r \in Runs : run'[r].stage = "insert" /\ run'[r].alone =>
        /\ run[r].stage = "insert" /\ run[r].alone
        /\ run'[r].user = run[r].user /\ run'[r].title = run[r].title

PendingKept ==
    \A i \in DOMAIN tasks' : tasks'[i].status = "pending" =>
        \E k \in DOMAIN tasks :
            /\ tasks[k].status = "pending"
            /\ tasks[k].user = tasks'[i].user /\ tasks[k].title = tasks'[i].title

LEMMA ClearKept == ASSUME Clear, InsertersKept, PendingKept PROVE Clear'
  BY DEF Clear, InsertersKept, PendingKept

(* A step that moves one run elsewhere leaves the other inserters alone. *)
LEMMA OthersInsert ==
    ASSUME NEW r \in Runs, run'[r].stage /= "insert", \A q \in Runs \ {r} : run'[q] = run[q]
    PROVE  InsertersKept
  BY DEF InsertersKept

LEMMA DisturbedInsert ==
    ASSUME TypeOK, NEW u \in Users, NEW r \in Runs, run'[r].stage /= "insert",
           \A q \in Runs \ {r} : run'[q] = Disturb(run, u)[q]
    PROVE  InsertersKept
<1> SUFFICES ASSUME NEW q \in Runs, run'[q].stage = "insert", run'[q].alone
             PROVE  /\ run[q].stage = "insert" /\ run[q].alone
                    /\ run'[q].user = run[q].user /\ run'[q].title = run[q].title
  BY DEF InsertersKept
<1>1. run'[q] = Disturb(run, u)[q]
  OBVIOUS
<1>2. /\ run'[q].stage = run[q].stage /\ run'[q].user = run[q].user
      /\ run'[q].title = run[q].title
  BY <1>1, Disturbed
<1>3. run'[q].alone = (run[q].alone /\ run[q].user /= u)
  BY <1>1, Disturbed
<1> QED
  BY <1>2, <1>3

(* A new row is no obstacle to Clear if no lone run is about to insert one *)
(* of its kind.                                                            *)
LEMMA ClearAppended ==
    ASSUME TypeOK, Clear, InsertersKept, NEW t \in Task, tasks' = Append(tasks, t),
           \A r \in Runs : run'[r].stage = "insert" /\ run'[r].alone => run'[r].user /= t.user
    PROVE  Clear'
<1> SUFFICES ASSUME NEW r \in Runs, run'[r].stage = "insert", run'[r].alone,
                    NEW i \in DOMAIN tasks',
                    tasks'[i].user = run'[r].user, tasks'[i].title = run'[r].title
             PROVE  tasks'[i].status /= "pending"
  BY DEF Clear
<1>1. i /= Len(tasks) + 1
  BY DEF TypeOK
<1>2. i \in DOMAIN tasks /\ tasks'[i] = tasks[i]
  BY <1>1 DEF TypeOK
<1> QED
  BY <1>2 DEF Clear, InsertersKept

LEMMA SameRows == ASSUME tasks' = tasks PROVE PendingKept
  BY DEF PendingKept

(* Closing, opening again and growing old. *)
LEMMA RowsPatched ==
    ASSUME TypeOK, NEW i \in DOMAIN tasks, Patch(i)
    PROVE  /\ DOMAIN tasks' = DOMAIN tasks
           /\ \A k \in DOMAIN tasks :
                /\ tasks'[k].user = tasks[k].user /\ tasks'[k].title = tasks[k].title
                /\ tasks'[k].alone = tasks[k].alone
                /\ tasks'[k].status = "pending" => tasks[k].status = "pending"
<1>1. PICK st \in {"closed", "reopened"} : tasks' = [tasks EXCEPT ![i].status = st]
  BY DEF Patch
<1>2. \A k \in DOMAIN tasks : tasks[k] \in Task
  BY DEF TypeOK
<1>3. DOMAIN tasks' = DOMAIN tasks
  BY <1>1
<1>4. tasks'[i] = [tasks[i] EXCEPT !.status = st]
  BY <1>1
<1>5. /\ tasks'[i].user = tasks[i].user /\ tasks'[i].title = tasks[i].title
      /\ tasks'[i].alone = tasks[i].alone /\ tasks'[i].status /= "pending"
  BY <1>2, <1>4 DEF Task
<1>6. \A k \in DOMAIN tasks \ {i} : tasks'[k] = tasks[k]
  BY <1>1
<1> QED
  BY <1>3, <1>5, <1>6

LEMMA RowsGrownOld ==
    ASSUME TypeOK, GrowOld
    PROVE  \A k \in DOMAIN tasks' : k + 1 \in DOMAIN tasks /\ tasks'[k] = tasks[k + 1]
  BY DEF TypeOK, GrowOld

LEMMA SettledAppended ==
    ASSUME TypeOK, Settled, NEW t \in Task, tasks' = Append(tasks, t),
           t.alone => \A i \in DOMAIN tasks :
             tasks[i].user = t.user /\ tasks[i].title = t.title => tasks[i].status /= "pending"
    PROVE  Settled'
<1> SUFFICES ASSUME NEW i \in DOMAIN tasks', NEW j \in DOMAIN tasks', i < j, Same(i, j)',
                    tasks'[j].alone
             PROVE  tasks'[i].status /= "pending"
  BY DEF Settled
<1>1. i \in DOMAIN tasks /\ tasks'[i] = tasks[i]
  BY DEF TypeOK
<1>2. CASE j \in DOMAIN tasks
  <2>1. tasks'[j] = tasks[j]
    BY <1>2 DEF TypeOK
  <2> QED
    BY <1>1, <1>2, <2>1 DEF Settled, Same
<1>3. CASE j \notin DOMAIN tasks
  <2>1. tasks'[j] = t
    BY <1>3 DEF TypeOK
  <2> QED
    BY <1>1, <2>1 DEF Same
<1> QED
  BY <1>2, <1>3

LEMMA ClearStep == Inv /\ [Next]_vars => Clear'
<1> SUFFICES ASSUME Inv, [Next]_vars PROVE Clear'
  OBVIOUS
<1> USE DEF Inv, home, service
<1>0. run \in [Runs -> Run]
  BY DEF TypeOK
<1>1. ASSUME NEW r \in Runs, Scene(r) PROVE Clear'
  <2>1. CASE Start(r)
    <3>1. PICK u \in Users, last \in {Planned, Planned + 1}, b \in BOOLEAN :
            run' = [Disturb(run, u) EXCEPT ![r] =
              [stage |-> "look", user |-> u, title |-> 1, last |-> last, alone |-> b]]
      BY <2>1 DEF Start
    <3>2. run'[r].stage /= "insert" /\ \A q \in Runs \ {r} : run'[q] = Disturb(run, u)[q]
      BY <3>1, Disturbed
    <3>3. InsertersKept
      BY <3>2, DisturbedInsert
    <3>4. tasks' = tasks
      BY <2>1 DEF Start
    <3> QED
      BY <3>3, <3>4, SameRows, ClearKept
  <2>2. CASE LookUp(r) /\ ~Advance(r)
    <3>1. /\ run' = [run EXCEPT ![r].stage = "insert"] /\ tasks' = tasks
          /\ Match(run[r].user, run[r].title) = {}
      BY <2>2 DEF LookUp
    <3>2. /\ run'[r].user = run[r].user /\ run'[r].title = run[r].title
          /\ \A q \in Runs \ {r} : run'[q] = run[q]
      BY <1>0, <3>1 DEF Run
    <3>3. \A i \in DOMAIN tasks :
            tasks[i].user = run[r].user /\ tasks[i].title = run[r].title
              => tasks[i].status /= "pending"
      BY <3>1 DEF Match, Pending
    <3>4. ASSUME NEW q \in Runs, run'[q].stage = "insert", run'[q].alone,
                 NEW i \in DOMAIN tasks,
                 tasks[i].user = run'[q].user, tasks[i].title = run'[q].title
          PROVE  tasks[i].status /= "pending"
      <4>1. CASE q = r
        BY <3>2, <3>3, <3>4, <4>1
      <4>2. CASE q /= r
        BY <3>2, <3>4, <4>2 DEF Clear
      <4> QED
        BY <4>1, <4>2
    <3> QED
      BY <3>1, <3>4 DEF Clear
  <2>3. CASE LookUp(r) /\ Advance(r)
    <3>1. Writing(r) /\ tasks' = tasks
      BY <2>3 DEF LookUp, Writing
    <3>2. InsertersKept
      BY <2>3, <3>1, AdvanceBeginsNone, OthersInsert
    <3> QED
      BY <3>1, <3>2, SameRows, ClearKept
  <2>4. CASE Insert(r)
    <3>1. Writing(r) /\ Advance(r)
      BY <2>4 DEF Insert, Writing
    <3>2. run'[r].stage /= "insert" /\ \A q \in Runs \ {r} : run'[q] = run[q]
      BY <3>1, AdvanceBeginsNone
    <3>3. InsertersKept
      BY <3>2, OthersInsert
    <3> DEFINE t == NewTask(run[r].user, run[r].title, run[r].alone)
    <3>4. t \in Task /\ t.user = run[r].user
      BY <1>0 DEF NewTask, Run, Task
    <3>5. ASSUME NEW q \in Runs, run'[q].stage = "insert", run'[q].alone
          PROVE  run'[q].user /= t.user
      BY <3>1, <3>2, <3>4, <3>5 DEF Apart, Writing
    <3>6. tasks' = Append(tasks, t)
      BY <2>4 DEF Insert
    <3> QED
      BY <3>3, <3>4, <3>5, <3>6, ClearAppended
  <2>5. CASE Act(r) \/ Raise(r)
    <3>1. run' = [run EXCEPT ![r] = Idle("over")] /\ tasks' = tasks
      BY <2>5 DEF Act, Raise
    <3>2. run'[r].stage /= "insert" /\ \A q \in Runs \ {r} : run'[q] = run[q]
      BY <1>0, <3>1 DEF Idle
    <3> QED
      BY <3>1, <3>2, OthersInsert, SameRows, ClearKept
  <2> QED
    BY <1>1, <2>1, <2>2, <2>3, <2>4, <2>5 DEF Scene
<1>2. CASE LampOff
  <2>1. tasks' = tasks /\ (run' = run \/ run' = Disturb(run, Home))
    BY <1>2 DEF LampOff
  <2>2. CASE run' = run
    BY <2>1, <2>2 DEF Clear
  <2>3. CASE run' = Disturb(run, Home)
    <3>1. ASSUME NEW q \in Runs, run'[q].stage = "insert", run'[q].alone
          PROVE  /\ run[q].stage = "insert" /\ run[q].alone
                 /\ run'[q].user = run[q].user /\ run'[q].title = run[q].title
      <4>1. Home \in Users
        BY DEF Users
      <4>2. /\ run'[q].stage = run[q].stage /\ run'[q].user = run[q].user
            /\ run'[q].title = run[q].title
        BY <2>3, <4>1, Disturbed
      <4>3. run'[q].alone = (run[q].alone /\ run[q].user /= Home)
        BY <2>3, <4>1, Disturbed
      <4> QED
        BY <3>1, <4>2, <4>3
    <3>2. InsertersKept
      BY <3>1 DEF InsertersKept
    <3> QED
      BY <2>1, <3>2, SameRows, ClearKept
  <2> QED
    BY <2>1, <2>2, <2>3
<1>3. CASE BridgeInsert
  <2> DEFINE t == NewTask(Home, bridge.title, FALSE)
  <2>1. run' = run /\ BridgeBusy /\ tasks' = Append(tasks, t)
    BY <1>3 DEF BridgeInsert, BridgeBusy
  <2>2. t \in Task /\ t.user = Home
    BY DEF NewTask, Task, Users, TypeOK
  <2>3. ASSUME NEW q \in Runs, run'[q].stage = "insert", run'[q].alone
        PROVE  run'[q].user /= t.user
    BY <2>1, <2>2, <2>3 DEF Apart, Writing
  <2>4. InsertersKept
    BY <2>1 DEF InsertersKept
  <2> QED
    BY <2>1, <2>2, <2>3, <2>4, ClearAppended
<1>4. ASSUME NEW i \in DOMAIN tasks, Patch(i) PROVE Clear'
  <2>1. PendingKept
    BY <1>4, RowsPatched DEF PendingKept
  <2>2. InsertersKept
    BY <1>4 DEF Patch, InsertersKept
  <2> QED
    BY <2>1, <2>2, ClearKept
<1>5. CASE GrowOld
  <2>1. PendingKept
    BY <1>5, RowsGrownOld DEF PendingKept
  <2>2. InsertersKept
    BY <1>5 DEF GrowOld, InsertersKept
  <2> QED
    BY <2>1, <2>2, ClearKept
<1>6. CASE Restart
  <2>1. \A q \in Runs : run'[q].stage /= "insert"
    BY <1>6 DEF Restart, Idle
  <2> QED
    BY <2>1 DEF Clear
<1>7. CASE UNCHANGED <<tasks, run>>
  BY <1>7 DEF Clear
<1> QED
  BY <1>1, <1>2, <1>3, <1>4, <1>5, <1>6, <1>7
     DEF Next, Bridge, Poll, Announce, BridgeRaises, CooldownEnds, Switch, vars

LEMMA SettledStep == Inv /\ [Next]_vars => Settled'
<1> SUFFICES ASSUME Inv, [Next]_vars PROVE Settled'
  OBVIOUS
<1> USE DEF Inv, home, service
<1>1. CASE tasks' = tasks
  BY <1>1 DEF Settled, Same
<1>2. ASSUME NEW r \in Runs, Insert(r) PROVE Settled'
  <2> DEFINE t == NewTask(run[r].user, run[r].title, run[r].alone)
  <2>1. /\ t \in Task /\ t.user = run[r].user /\ t.title = run[r].title
        /\ t.alone = run[r].alone
    BY DEF NewTask, Run, Task, TypeOK
  <2>2. tasks' = Append(tasks, t) /\ run[r].stage = "insert"
    BY <1>2 DEF Insert
  <2>3. t.alone => \A i \in DOMAIN tasks :
          tasks[i].user = t.user /\ tasks[i].title = t.title => tasks[i].status /= "pending"
    BY <2>1, <2>2 DEF Clear
  <2> QED
    BY <2>1, <2>2, <2>3, SettledAppended
<1>3. CASE BridgeInsert
  <2> DEFINE t == NewTask(Home, bridge.title, FALSE)
  <2>1. t \in Task /\ ~t.alone
    BY DEF NewTask, Task, Users, TypeOK
  <2>2. tasks' = Append(tasks, t)
    BY <1>3 DEF BridgeInsert
  <2> QED
    BY <2>1, <2>2, SettledAppended
<1>4. ASSUME NEW i \in DOMAIN tasks, Patch(i) PROVE Settled'
  BY <1>4, RowsPatched DEF Settled, Same
<1>5. CASE GrowOld
  <2> SUFFICES ASSUME NEW i \in DOMAIN tasks', NEW j \in DOMAIN tasks', i < j, Same(i, j)',
                      tasks'[j].alone
               PROVE  tasks'[i].status /= "pending"
    BY DEF Settled
  <2>1. /\ i + 1 \in DOMAIN tasks /\ tasks'[i] = tasks[i + 1]
        /\ j + 1 \in DOMAIN tasks /\ tasks'[j] = tasks[j + 1]
    BY <1>5, RowsGrownOld
  <2>2. i + 1 < j + 1
    BY <1>5 DEF GrowOld, TypeOK
  <2> QED
    BY <2>1, <2>2 DEF Settled, Same
<1> QED
  BY <1>1, <1>2, <1>3, <1>4, <1>5
     DEF Next, Scene, Start, LookUp, Act, Raise, Bridge, Poll, LampOff, Announce, BridgeRaises,
         CooldownEnds, Switch, Restart, vars

-----------------------------------------------------------------------------
LEMMA NextInv == Inv /\ [Next]_vars => Inv'
  BY TypeStep, OrderedStep, SettledStep, ClearStep, ApartStep, SeenStep DEF Inv

(* Every variable keeps its type. *)
THEOREM TypeCorrect == Spec => []TypeOK
<1>1. Inv => TypeOK
  BY DEF Inv
<1> QED
  BY <1>1, InitInv, NextInv, PTL DEF Spec

(* A lone run adds no task to a pending one of the same title: what the    *)
(* look-up of _mk_task achieves, for any number of runs and people.        *)
THEOREM Idempotent == Spec => []LoneRunsAreIdempotent
<1>1. Inv => LoneRunsAreIdempotent
  <2> SUFFICES ASSUME Inv, NEW i \in DOMAIN tasks, NEW j \in DOMAIN tasks,
                      i < j, Same(i, j), Pending(i), tasks[j].alone
               PROVE  tasks[i].status = "reopened"
    BY DEF LoneRunsAreIdempotent
  <2>1. tasks[i].status /= "pending" /\ tasks[i].status /= "closed"
    BY DEF Inv, Settled, Pending
  <2>2. tasks[i] \in Task
    BY DEF Inv, TypeOK
  <2> QED
    BY <2>1, <2>2 DEF Task
<1> QED
  BY <1>1, InitInv, NextInv, PTL DEF Spec

(* The bridge begins a scene only for a lamp that was on and went off      *)
(* since the scene before (poll_once and run_bedtime_from_voice).          *)
THEOREM SwitchOffEach == Spec => OncePerSwitchOff
<1>1. Inv /\ [Next]_vars => [bridge'.stage = "insert" /\ bridge.stage /= "insert" => went]_vars
  <2> SUFFICES ASSUME Inv, Next, bridge'.stage = "insert", bridge.stage /= "insert"
               PROVE  went
    OBVIOUS
  <2> USE DEF service, home
  <2>0. bridge \in [stage : {"boot", "poll", "event", "insert", "announce", "error"},
                    title : Title]
    BY DEF Inv, TypeOK
  <2>1. CASE LampOff
    <3>1. bridge.stage = "event"
      BY <2>1 DEF LampOff
    <3> QED
      BY <3>1 DEF Inv, Seen
  <2>2. ~Poll
    BY <2>0 DEF Poll
  <2>3. ~BridgeInsert
    BY DEF BridgeInsert
  <2>8. ~Announce
    <3>1. Announce => bridge' = [stage |-> "poll", title |-> 1]
      BY DEF Announce
    <3> QED
      BY <3>1
  <2>4. ~BridgeRaises
    BY <2>0 DEF BridgeRaises
  <2>5. ~CooldownEnds /\ ~Switch /\ ~GrowOld /\ ~Restart
    BY DEF CooldownEnds, Switch, GrowOld, Restart
  <2>6. \A i \in DOMAIN tasks : ~Patch(i)
    BY DEF Patch
  <2>7. \A r \in Runs : ~Scene(r)
    BY DEF Scene, Start, LookUp, Insert, Act, Raise
  <2> QED
    BY <2>1, <2>2, <2>3, <2>4, <2>5, <2>6, <2>7, <2>8 DEF Next, Bridge
<1> QED
  BY <1>1, InitInv, NextInv, PTL DEF Spec, OncePerSwitchOff
===============================================================================
