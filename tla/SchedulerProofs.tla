-------------------------- MODULE SchedulerProofs --------------------------
(***************************************************************************)
(* For any list of heavy jobs and any set of light ones: a job never       *)
(* overlaps itself, heavy jobs never overlap one another, and the run      *)
(* history never buries a live pass.                                       *)
(*                                                                         *)
(* The claim does not keep jobs apart (it is not a lease), so the          *)
(* strengthening says what the lanes know: the heavy lane is the one task  *)
(* with a position, every other live task is a light job held in _running, *)
(* and no two tasks hold the same light job.                               *)
(***************************************************************************)
EXTENDS Scheduler, FiniteSetTheorems, TLAPS

LaneTask ==
    \A s \in Slots :
        /\ tasks[s].at /= 0 => lane = s /\ tasks[s].job = Heavy[tasks[s].at]
        /\ tasks[s].at = 0 /\ tasks[s].pc /= "none" => tasks[s].job \in running
        /\ tasks[s].pc /= "none" => tasks[s].job \in Names
        /\ tasks[s].pc \in {"none", "claiming", "opening"} => tasks[s].run = 0

LightTask ==
    \A s, t \in Slots :
        /\ tasks[s].at = 0 /\ tasks[t].at = 0
        /\ tasks[s].pc /= "none" /\ tasks[t].pc /= "none"
        /\ tasks[s].job = tasks[t].job
        => s = t

\* Apart says of all live tasks what LanesHold says of those past their claim.
Apart ==
    \A s, t \in Slots :
        /\ tasks[s].pc /= "none" /\ tasks[t].pc /= "none"
        /\ \/ tasks[s].job = tasks[t].job
           \/ tasks[s].job \notin Light /\ tasks[t].job \notin Light
        => s = t

Lanes == TypeOK /\ LaneTask /\ LightTask

-----------------------------------------------------------------------------
LEMMA HeavyName == \A i \in 1 .. Len(Heavy) : Heavy[i] \in Names /\ Heavy[i] \notin Light
  BY LaneAssumption DEF Names

LEMMA LightName == Light \subseteq Names
  BY DEF Names

LEMMA StartingType ==
  ASSUME NEW n \in Names, NEW i \in 0 .. Len(Heavy)
  PROVE  /\ Starting(n, i) \in Task
         /\ Starting(n, i).pc = "claiming" /\ Starting(n, i).job = n
         /\ Starting(n, i).at = i /\ Starting(n, i).run = 0
  BY LaneAssumption, CrashAssumption DEF Starting, NoTask, Task

LEMMA NoTaskType == NoTask \in Task
  BY LaneAssumption, CrashAssumption DEF NoTask, Task

LEMMA LanesApart == Lanes => Apart
<1> SUFFICES ASSUME Lanes, NEW s \in Slots, NEW t \in Slots,
                    tasks[s].pc /= "none", tasks[t].pc /= "none",
                    \/ tasks[s].job = tasks[t].job
                    \/ tasks[s].job \notin Light /\ tasks[t].job \notin Light
             PROVE  s = t
  BY DEF Apart
<1>1. running \subseteq Light /\ tasks[s] \in Task /\ tasks[t] \in Task
  BY DEF Lanes, TypeOK
<1>2. CASE tasks[s].at = 0 /\ tasks[t].at = 0
  <2>1. tasks[s].job \in Light /\ tasks[t].job \in Light
    BY <1>1, <1>2 DEF Lanes, LaneTask
  <2> QED
    BY <1>2, <2>1 DEF Lanes, LightTask
<1>3. CASE tasks[s].at /= 0 /\ tasks[t].at /= 0
  BY <1>3 DEF Lanes, LaneTask
<1>4. ASSUME NEW u \in Slots, NEW v \in Slots, tasks[u].pc /= "none", tasks[v].pc /= "none",
             tasks[u] \in Task, tasks[v] \in Task,
             tasks[u].at = 0, tasks[v].at /= 0
      PROVE  tasks[u].job \in Light /\ tasks[v].job \notin Light
  <2>1. tasks[u].job \in Light
    BY <1>1, <1>4 DEF Lanes, LaneTask
  <2>2. tasks[v].at \in 1 .. Len(Heavy)
    BY <1>4, LaneAssumption DEF Task
  <2>3. tasks[v].job = Heavy[tasks[v].at]
    BY <1>4 DEF Lanes, LaneTask
  <2> QED
    BY <2>1, <2>2, <2>3, HeavyName
<1> QED
  BY <1>1, <1>2, <1>3, <1>4

-----------------------------------------------------------------------------
(* The lanes *)

LEMMA InitLanes == Init => Lanes
<1> SUFFICES ASSUME Init PROVE Lanes
  OBVIOUS
<1>1. TypeOK
  <2>1. row \in [Names -> Row]
    BY DEF Init, Row
  <2>2. tasks \in [Slots -> Task]
    BY NoTaskType DEF Init
  <2>3. crashes \in 0 .. MaxCrashes
    BY CrashAssumption DEF Init
  <2> QED
    BY <2>1, <2>2, <2>3 DEF Init, TypeOK
<1>2. LaneTask /\ LightTask
  BY DEF Init, LaneTask, LightTask, NoTask
<1> QED
  BY <1>1, <1>2 DEF Lanes

\* What a step does to one task, when the others and the lane state stand still.
LEMMA OneTaskMoves ==
  ASSUME Lanes, NEW s \in Slots, NEW t \in Task,
         tasks' = [tasks EXCEPT ![s] = t],
         UNCHANGED <<lane, running>>,
         tasks[s].pc /= "none", t.pc /= "none",
         t.at = tasks[s].at, t.job = tasks[s].job,
         t.pc \in {"none", "claiming", "opening"} => t.run = 0
  PROVE  LaneTask' /\ LightTask'
<1>1. \A u \in Slots : tasks'[u] = IF u = s THEN t ELSE tasks[u]
  BY DEF Lanes, TypeOK
<1>2. LaneTask'
  BY <1>1 DEF Lanes, LaneTask
<1>3. LightTask'
  BY <1>1 DEF Lanes, LightTask
<1> QED
  BY <1>2, <1>3

LEMMA DispatchLanes == ASSUME Lanes, Dispatch PROVE Lanes'
<1> PICK s \in FreeSlots : StartLane(s) \/ \E n \in Light : StartLight(s, n)
  BY DEF Dispatch
<1>1. s \in Slots /\ tasks[s].pc = "none"
  BY DEF FreeSlots
<1>2. UNCHANGED <<row, runs, crashes>>
  BY DEF Dispatch
<1>3. tasks \in [Slots -> Task] /\ lane \in Slots \cup {None} /\ running \in SUBSET Light
  BY DEF Lanes, TypeOK
<1>4. CASE StartLane(s)
  <2> DEFINE new == Starting(Heavy[1], 1)
  <2>1. 1 \in 1 .. Len(Heavy)
    BY <1>4, LaneAssumption DEF StartLane
  <2>2. new \in Task /\ new.pc = "claiming" /\ new.job = Heavy[1] /\ new.at = 1 /\ new.run = 0
    BY <2>1, LaneAssumption, StartingType, HeavyName
  <2>3. lane = None /\ lane' = s /\ tasks' = [tasks EXCEPT ![s] = new] /\ running' = running
    BY <1>4 DEF StartLane
  <2> HIDE DEF new
  <2>4. \A u \in Slots : tasks'[u] = IF u = s THEN new ELSE tasks[u]
    BY <1>3, <2>3
  <2>5. \A u \in Slots : tasks[u].at = 0
    BY <2>3, NoneAssumption DEF Lanes, LaneTask
  <2>6. LaneTask'
    BY <2>1, <2>2, <2>3, <2>4, <2>5, HeavyName DEF Lanes, LaneTask
  <2>7. LightTask'
    BY <2>2, <2>4 DEF Lanes, LightTask
  <2>8. TypeOK'
    BY <1>1, <1>2, <1>3, <2>2, <2>3 DEF Lanes, TypeOK
  <2> QED
    BY <2>6, <2>7, <2>8 DEF Lanes
<1>5. ASSUME NEW n \in Light, StartLight(s, n) PROVE Lanes'
  <2> DEFINE new == Starting(n, 0)
  <2>1. n \in Names /\ 0 \in 0 .. Len(Heavy)
    BY LightName, LaneAssumption
  <2>2. new \in Task /\ new.pc = "claiming" /\ new.job = n /\ new.at = 0 /\ new.run = 0
    BY <2>1, StartingType
  <2>3. n \notin running /\ running' = running \cup {n} /\ lane' = lane
        /\ tasks' = [tasks EXCEPT ![s] = new]
    BY <1>5 DEF StartLight
  <2> HIDE DEF new
  <2>4. \A u \in Slots : tasks'[u] = IF u = s THEN new ELSE tasks[u]
    BY <1>3, <2>3
  <2>5. LaneTask'
    BY <2>1, <2>2, <2>3, <2>4 DEF Lanes, LaneTask
  <2>6. LightTask'
    <3>1. \A u \in Slots : tasks[u].at = 0 /\ tasks[u].pc /= "none" => tasks[u].job /= n
      BY <2>3 DEF Lanes, LaneTask
    <3> QED
      BY <2>2, <2>4, <3>1 DEF Lanes, LightTask
  <2>7. TypeOK'
    BY <1>1, <1>2, <1>3, <2>2, <2>3 DEF Lanes, TypeOK
  <2> QED
    BY <2>5, <2>6, <2>7 DEF Lanes
<1> QED
  BY <1>4, <1>5

LEMMA EndTaskLanes ==
  ASSUME Lanes, NEW s \in Slots, tasks[s].pc /= "none", EndTask(s)
  PROVE  /\ LaneTask' /\ LightTask'
         /\ tasks' \in [Slots -> Task] /\ lane' \in Slots \cup {None} /\ running' \in SUBSET Light
         /\ \A u \in Slots \ {s} : tasks'[u] = tasks[u]
         /\ tasks'[s].run = 0 /\ tasks'[s].pc \in {"none", "claiming"}
<1>1. tasks \in [Slots -> Task] /\ lane \in Slots \cup {None} /\ running \in SUBSET Light
  BY DEF Lanes, TypeOK
<1>2. CASE tasks[s].at \in 1 .. Len(Heavy) - 1
  <2> DEFINE i == tasks[s].at + 1
             new == Starting(Heavy[i], i)
  <2>1. i \in 1 .. Len(Heavy) /\ i /= 0
    BY <1>2, LaneAssumption
  <2>2. new \in Task /\ new.pc = "claiming" /\ new.job = Heavy[i] /\ new.at = i /\ new.run = 0
    BY <2>1, LaneAssumption, StartingType, HeavyName
  <2>3. lane' = lane /\ running' = running /\ tasks' = [tasks EXCEPT ![s] = new]
    BY <1>2 DEF EndTask
  <2>4. lane = s
    BY <1>2 DEF Lanes, LaneTask
  <2> HIDE DEF new, i
  <2>5. \A u \in Slots : tasks'[u] = IF u = s THEN new ELSE tasks[u]
    BY <1>1, <2>3
  <2>6. LaneTask'
    BY <2>1, <2>2, <2>3, <2>4, <2>5, HeavyName DEF Lanes, LaneTask
  <2>7. LightTask'
    BY <2>1, <2>2, <2>5 DEF Lanes, LightTask
  <2> QED
    BY <1>1, <2>2, <2>3, <2>5, <2>6, <2>7
<1>3. CASE tasks[s].at \notin 1 .. Len(Heavy) - 1
  <2>1. /\ tasks' = [tasks EXCEPT ![s] = NoTask]
        /\ lane' = IF lane = s THEN None ELSE lane
        /\ running' = running \ {tasks[s].job}
    BY <1>3 DEF EndTask
  <2>2. NoTask.pc = "none" /\ NoTask.at = 0 /\ NoTask.run = 0
    BY DEF NoTask
  <2>3. \A u \in Slots : tasks'[u] = IF u = s THEN NoTask ELSE tasks[u]
    BY <1>1, <2>1
  <2>4. LightTask'
    BY <2>2, <2>3 DEF Lanes, LightTask
  <2>5. ASSUME NEW u \in Slots, u /= s, tasks[u].pc /= "none", tasks[u].at = 0
        PROVE  tasks[u].job /= tasks[s].job
    BY <2>5, LanesApart DEF Apart
  <2>6. LaneTask'
    BY <2>1, <2>2, <2>3, <2>5 DEF Lanes, LaneTask
  <2> QED
    BY <1>1, <2>1, <2>2, <2>3, <2>4, <2>6, NoTaskType
<1> QED
  BY <1>2, <1>3

LEMMA StampedType ==
  ASSUME row \in [Names -> Row], NEW n \in Names
  PROVE  Stamped(n) \in [Names -> Row]
  BY DEF Stamped, Row

LEMMA StepLanes == ASSUME Lanes, NEW s \in Slots, Step(s) PROVE Lanes'
<1>0. /\ tasks \in [Slots -> Task] /\ row \in [Names -> Row]
      /\ runs \in [Names -> SUBSET (1 .. MaxOpen)]
      /\ lane \in Slots \cup {None} /\ running \in SUBSET Light /\ crashes \in 0 .. MaxCrashes
  BY DEF Lanes, TypeOK
<1>1. tasks[s] \in Task
  BY <1>0
<1>2. CASE ClaimDue(s)
  <2> DEFINE t == [tasks[s] EXCEPT !.pc = IF tasks[s].job \in Unrecorded THEN "body" ELSE "opening"]
  <2>1. tasks[s].pc = "claiming" /\ row' = Stamped(tasks[s].job)
        /\ tasks' = [tasks EXCEPT ![s].pc = IF tasks[s].job \in Unrecorded THEN "body" ELSE "opening"]
        /\ UNCHANGED <<runs, lane, running, crashes>>
    BY <1>2 DEF ClaimDue
  <2>2. tasks' = [tasks EXCEPT ![s] = t]
    BY <1>0, <2>1
  <2>3. t \in Task /\ t.at = tasks[s].at /\ t.job = tasks[s].job /\ t.pc /= "none" /\ t.run = tasks[s].run
    BY <1>1 DEF Task
  <2>4. tasks[s].job \in Names /\ tasks[s].run = 0
    BY <2>1 DEF Lanes, LaneTask
  <2> HIDE DEF t
  <2>5. LaneTask' /\ LightTask'
    BY <2>1, <2>2, <2>3, <2>4, OneTaskMoves
  <2>6. TypeOK'
    BY <1>0, <2>1, <2>2, <2>3, <2>4, StampedType DEF TypeOK
  <2> QED
    BY <2>5, <2>6 DEF Lanes
<1>3. CASE NotClaimed(s) \/ RecordFailed(s)
  <2>1. tasks[s].pc /= "none" /\ EndTask(s) /\ UNCHANGED <<row, runs, crashes>>
    BY <1>3 DEF NotClaimed, RecordFailed
  <2> QED
    BY <1>0, <2>1, EndTaskLanes DEF Lanes, TypeOK
<1>4. CASE OpenRun(s)
  <2>1. PICK r \in 1 .. MaxOpen : /\ runs' = Opened(tasks[s].job, r)
                                  /\ tasks' = [tasks EXCEPT ![s].pc = "body", ![s].run = r]
    BY <1>4 DEF OpenRun
  <2> DEFINE t == [tasks[s] EXCEPT !.pc = "body", !.run = r]
  <2>2. tasks' = [tasks EXCEPT ![s] = t]
    BY <1>0, <2>1
  <2>3. t \in Task /\ t.at = tasks[s].at /\ t.job = tasks[s].job /\ t.pc = "body"
    <3>1. r \in 0 .. MaxOpen
      BY CrashAssumption
    <3>2. [tasks[s] EXCEPT !.pc = "body"] \in Task
      BY <1>1 DEF Task
    <3>3. t = [[tasks[s] EXCEPT !.pc = "body"] EXCEPT !.run = r]
      BY <1>1 DEF Task
    <3>4. t \in Task
      BY <3>1, <3>2, <3>3 DEF Task
    <3> QED
      BY <1>1, <3>4 DEF Task
  <2>4. tasks[s].pc = "opening" /\ UNCHANGED <<row, lane, running, crashes>>
    BY <1>4 DEF OpenRun
  <2> HIDE DEF t
  <2>5. LaneTask' /\ LightTask'
    BY <2>2, <2>3, <2>4, OneTaskMoves
  <2>6. TypeOK'
    BY <1>0, <2>1, <2>2, <2>3, <2>4 DEF TypeOK, Opened
  <2> QED
    BY <2>5, <2>6 DEF Lanes
<1>5. CASE OpenRunFailed(s) \/ EndBody(s)
  <2>1. \E pc \in {"body", "recording"} : tasks' = [tasks EXCEPT ![s].pc = pc]
    BY <1>5 DEF OpenRunFailed, EndBody
  <2>2. PICK pc \in {"body", "recording"} : tasks' = [tasks EXCEPT ![s].pc = pc]
    BY <2>1
  <2> DEFINE t == [tasks[s] EXCEPT !.pc = pc]
  <2>3. tasks' = [tasks EXCEPT ![s] = t]
    BY <1>0, <2>2
  <2>4. t \in Task /\ t.at = tasks[s].at /\ t.job = tasks[s].job /\ t.pc = pc
    BY <1>1 DEF Task
  <2>5. tasks[s].pc /= "none" /\ UNCHANGED <<row, runs, lane, running, crashes>>
    BY <1>5 DEF OpenRunFailed, EndBody
  <2> HIDE DEF t
  <2>6. LaneTask' /\ LightTask'
    BY <2>3, <2>4, <2>5, OneTaskMoves
  <2>7. TypeOK'
    BY <1>0, <2>3, <2>4, <2>5 DEF TypeOK
  <2> QED
    BY <2>6, <2>7 DEF Lanes
<1>6. CASE Record(s)
  <2>1. tasks[s].pc = "recording" /\ EndTask(s) /\ UNCHANGED crashes
    BY <1>6 DEF Record
  <2>2. tasks[s].job \in Names
    BY <2>1 DEF Lanes, LaneTask
  <2>3. row' \in [Names -> Row]
    BY <1>0, <1>6, <2>2 DEF Record, Row
  <2>4. runs' \in [Names -> SUBSET (1 .. MaxOpen)]
    BY <1>0, <1>6, <2>2 DEF Record
  <2> QED
    BY <2>1, <2>3, <2>4, EndTaskLanes DEF Lanes, TypeOK
<1> QED
  BY <1>2, <1>3, <1>4, <1>5, <1>6 DEF Step

LEMMA OutsideLanes ==
  ASSUME Lanes, Crash \/ \E n \in Names : RunNow(n) \/ Elapse(n)
  PROVE  Lanes'
<1>0. row \in [Names -> Row] /\ crashes \in 0 .. MaxCrashes
  BY DEF Lanes, TypeOK
<1>1. ASSUME NEW n \in Names, RunNow(n) \/ Elapse(n) PROVE Lanes'
  <2>1. UNCHANGED <<runs, tasks, lane, running, crashes>>
    BY <1>1 DEF RunNow, Elapse
  <2>2. row' \in [Names -> Row]
    <3>1. CASE RunNow(n)
      BY <1>0, <3>1 DEF RunNow, Row
    <3>2. CASE Elapse(n)
      <4>1. [row[n] EXCEPT !.elapsed = TRUE] \in Row
        BY <1>0 DEF Row
      <4>2. row' = [row EXCEPT ![n] = [row[n] EXCEPT !.elapsed = TRUE]]
        BY <1>0, <3>2 DEF Elapse
      <4> QED
        BY <1>0, <4>1, <4>2
    <3> QED
      BY <1>1, <3>1, <3>2
  <2> QED
    BY <2>1, <2>2 DEF Lanes, TypeOK, LaneTask, LightTask
<1>2. CASE Crash
  <2>1. row' \in [Names -> Row]
    BY <1>0, <1>2 DEF Crash, Row
  <2>2. tasks' \in [Slots -> Task]
    BY <1>2, NoTaskType DEF Crash
  <2>3. crashes' \in 0 .. MaxCrashes
    BY <1>0, <1>2, CrashAssumption DEF Crash
  <2>4. TypeOK'
    BY <1>2, <2>1, <2>2, <2>3 DEF Crash, Lanes, TypeOK
  <2>5. LaneTask' /\ LightTask'
    BY <1>2 DEF Crash, LaneTask, LightTask, NoTask
  <2> QED
    BY <2>4, <2>5 DEF Lanes
<1> QED
  BY <1>1, <1>2

\* The inductive invariant of the lanes.
THEOREM LanesInvariant == Spec => []Lanes
<1>1. Lanes /\ [Next]_vars => Lanes'
  <2> SUFFICES ASSUME Lanes, [Next]_vars PROVE Lanes'
    OBVIOUS
  <2>1. CASE UNCHANGED vars
    BY <2>1 DEF vars, Lanes, TypeOK, LaneTask, LightTask
  <2> QED
    BY <2>1, DispatchLanes, StepLanes, OutsideLanes DEF Next
<1> QED
  BY <1>1, InitLanes, PTL DEF Spec

\* scheduler/core.py: no job overlaps itself and heavy jobs never overlap, although
\* the claim is not a lease.
THEOREM JobsDoNotOverlap == Spec => []LanesHold
<1>1. Lanes => LanesHold
  <2> SUFFICES ASSUME Lanes PROVE LanesHold
    OBVIOUS
  <2>1. Apart
    BY LanesApart
  <2> QED
    BY <2>1 DEF Apart, LanesHold, InFlight
<1> QED
  BY <1>1, LanesInvariant, PTL

-----------------------------------------------------------------------------
(* The run history and the dashboard *)

SingleOpen == \A n \in Names : runs[n] = {} \/ \E r \in 1 .. MaxOpen : runs[n] = {r}

HereWhileLive ==
    \A s \in Slots : InFlight(s) /\ row[tasks[s].job].start = "open" => row[tasks[s].job].here

History == SingleOpen /\ LiveRunsStayOpen /\ HereWhileLive

\* EndTask touches one task and neither table.
LEMMA EndTaskHistory ==
  ASSUME Lanes, LiveRunsStayOpen, HereWhileLive, UNCHANGED <<row, runs>>,
         NEW s \in Slots, tasks[s].pc /= "none", EndTask(s)
  PROVE  LiveRunsStayOpen' /\ HereWhileLive'
<1>1. /\ \A u \in Slots \ {s} : tasks'[u] = tasks[u]
      /\ tasks'[s].run = 0 /\ tasks'[s].pc \in {"none", "claiming"}
  BY EndTaskLanes
<1> QED
  BY <1>1 DEF LiveRunsStayOpen, HereWhileLive, InFlight

LEMMA DispatchHistory == ASSUME Lanes, History, Dispatch PROVE History'
<1> PICK s \in FreeSlots : StartLane(s) \/ \E n \in Light : StartLight(s, n)
  BY DEF Dispatch
<1>1. s \in Slots /\ UNCHANGED <<row, runs>> /\ tasks \in [Slots -> Task]
  BY DEF Dispatch, FreeSlots, Lanes, TypeOK
<1>2. \E t \in [pc : {"claiming"}, at : 0 .. Len(Heavy), job : Names, run : {0}] :
          tasks' = [tasks EXCEPT ![s] = t]
  <2>1. CASE StartLane(s)
    <3>1. Len(Heavy) \in Nat /\ 1 \in 0 .. Len(Heavy) /\ Heavy[1] \in Names
      BY <2>1, LaneAssumption, HeavyName DEF StartLane
    <3> QED
      BY <2>1, <3>1 DEF StartLane, Starting
  <2>2. ASSUME NEW n \in Light, StartLight(s, n)
        PROVE  \E t \in [pc : {"claiming"}, at : 0 .. Len(Heavy), job : Names, run : {0}] :
                  tasks' = [tasks EXCEPT ![s] = t]
    <3>1. n \in Names /\ 0 \in 0 .. Len(Heavy)
      BY LightName, LaneAssumption
    <3> QED
      BY <2>2, <3>1 DEF StartLight, Starting
  <2> QED
    BY <2>1, <2>2
<1>3. /\ \A u \in Slots \ {s} : tasks'[u] = tasks[u]
      /\ tasks'[s].run = 0 /\ tasks'[s].pc = "claiming"
  BY <1>1, <1>2
<1> QED
  BY <1>1, <1>3 DEF History, SingleOpen, LiveRunsStayOpen, HereWhileLive, InFlight

LEMMA StepHistory == ASSUME Lanes, History, NEW s \in Slots, Step(s) PROVE History'
<1>0. /\ tasks \in [Slots -> Task] /\ row \in [Names -> Row] /\ tasks[s] \in Task
      /\ runs \in [Names -> SUBSET (1 .. MaxOpen)]
  BY DEF Lanes, TypeOK
<1>1. Apart
  BY LanesApart
<1>2. CASE ClaimDue(s)
  <2>1. /\ tasks[s].pc = "claiming" /\ runs' = runs /\ row' = Stamped(tasks[s].job)
        /\ tasks' = [tasks EXCEPT ![s].pc = IF tasks[s].job \in Unrecorded THEN "body" ELSE "opening"]
    BY <1>2 DEF ClaimDue
  <2>2. /\ \A u \in Slots : tasks'[u].run = tasks[u].run /\ tasks'[u].job = tasks[u].job
        /\ \A u \in Slots \ {s} : tasks'[u] = tasks[u]
    BY <1>0, <2>1 DEF Task
  <2>3. tasks[s].job \in Names
    BY <2>1 DEF Lanes, LaneTask
  <2>4. \A n \in Names : row'[n] = IF n = tasks[s].job
                                   THEN [start |-> "open", elapsed |-> FALSE, here |-> TRUE]
                                   ELSE row[n]
    BY <1>0, <2>1, <2>3 DEF Stamped
  <2>5. \A u \in Slots : InFlight(u) => tasks[u].job \in Names
    BY DEF Lanes, LaneTask, InFlight
  <2>6. HereWhileLive'
    BY <2>2, <2>3, <2>4, <2>5 DEF History, HereWhileLive, InFlight
  <2> QED
    BY <2>1, <2>2, <2>6 DEF History, SingleOpen, LiveRunsStayOpen
<1>3. CASE NotClaimed(s) \/ RecordFailed(s)
  <2>1. tasks[s].pc /= "none" /\ EndTask(s) /\ UNCHANGED <<row, runs>>
    BY <1>3 DEF NotClaimed, RecordFailed
  <2> QED
    BY <2>1, EndTaskHistory DEF History, SingleOpen
<1>4. CASE OpenRun(s)
  <2>1. PICK r \in 1 .. MaxOpen : /\ runs' = Opened(tasks[s].job, r)
                                  /\ tasks' = [tasks EXCEPT ![s].pc = "body", ![s].run = r]
    BY <1>4 DEF OpenRun
  <2>2. tasks[s].pc = "opening" /\ row' = row
    BY <1>4 DEF OpenRun
  <2>3. tasks[s].job \in Names
    BY <2>2 DEF Lanes, LaneTask
  <2>4. /\ \A u \in Slots \ {s} : tasks'[u] = tasks[u]
        /\ tasks'[s].run = r /\ tasks'[s].job = tasks[s].job
    BY <1>0, <2>1 DEF Task
  <2>5. \A n \in Names : runs'[n] = IF n = tasks[s].job THEN {r} ELSE runs[n]
    BY <1>0, <2>1, <2>3 DEF Opened
  <2>6. SingleOpen'
    BY <2>5 DEF History, SingleOpen
  <2>7. ASSUME NEW u \in Slots, u /= s, tasks[u].run /= 0
        PROVE  tasks[u].job \in Names /\ tasks[u].job /= tasks[s].job
    <3>1. tasks[u].pc /= "none"
      BY <2>7 DEF Lanes, LaneTask
    <3> QED
      BY <1>1, <2>2, <2>7, <3>1 DEF Apart, Lanes, LaneTask
  <2>8. LiveRunsStayOpen'
    BY <2>3, <2>4, <2>5, <2>7 DEF History, LiveRunsStayOpen
  <2>9. HereWhileLive'
    <3>1. InFlight(s)
      BY <2>2 DEF InFlight
    <3> QED
      BY <2>2, <2>4, <3>1 DEF History, HereWhileLive, InFlight
  <2> QED
    BY <2>6, <2>8, <2>9 DEF History
<1>5. CASE OpenRunFailed(s) \/ EndBody(s)
  <2>1. UNCHANGED <<row, runs>> /\ InFlight(s)
    BY <1>5 DEF OpenRunFailed, EndBody, InFlight
  <2>2. \E pc \in {"body", "recording"} : tasks' = [tasks EXCEPT ![s].pc = pc]
    BY <1>5 DEF OpenRunFailed, EndBody
  <2>3. /\ \A u \in Slots : tasks'[u].run = tasks[u].run /\ tasks'[u].job = tasks[u].job
        /\ \A u \in Slots \ {s} : tasks'[u] = tasks[u]
    BY <1>0, <2>2 DEF Task
  <2> QED
    BY <2>1, <2>3 DEF History, SingleOpen, LiveRunsStayOpen, HereWhileLive, InFlight
<1>6. CASE Record(s)
  <2>1. /\ tasks[s].pc = "recording" /\ EndTask(s)
        /\ row' = IF row[tasks[s].job].start = "null" THEN row
                  ELSE [row EXCEPT ![tasks[s].job].start = "finished", ![tasks[s].job].here = FALSE]
        /\ runs' = [runs EXCEPT ![tasks[s].job] = @ \ {tasks[s].run}]
    BY <1>6 DEF Record
  <2>2. tasks[s].job \in Names
    BY <2>1 DEF Lanes, LaneTask
  <2>3. /\ \A u \in Slots \ {s} : tasks'[u] = tasks[u]
        /\ tasks'[s].run = 0 /\ tasks'[s].pc \in {"none", "claiming"}
    BY <2>1, EndTaskLanes
  <2>4. \A n \in Names : runs'[n] = IF n = tasks[s].job THEN runs[n] \ {tasks[s].run} ELSE runs[n]
    BY <1>0, <2>1, <2>2
  <2>5. \A n \in Names \ {tasks[s].job} : row'[n] = row[n]
    <3>1. CASE row[tasks[s].job].start = "null"
      BY <2>1, <3>1
    <3>2. CASE row[tasks[s].job].start /= "null"
      BY <1>0, <2>1, <2>2, <3>2
    <3> QED
      BY <3>1, <3>2
  <2>6. ASSUME NEW u \in Slots, u /= s, tasks[u].pc /= "none"
        PROVE  tasks[u].job \in Names \ {tasks[s].job}
    BY <1>1, <2>1, <2>6 DEF Apart, Lanes, LaneTask
  <2>7. SingleOpen'
    <3> SUFFICES ASSUME NEW n \in Names
                 PROVE  runs'[n] = {} \/ \E r \in 1 .. MaxOpen : runs'[n] = {r}
      BY DEF SingleOpen
    <3>1. runs'[n] = runs[n] \/ runs'[n] = runs[n] \ {tasks[s].run}
      BY <2>4
    <3>2. runs[n] = {} \/ \E r \in 1 .. MaxOpen : runs[n] = {r}
      BY DEF History, SingleOpen
    <3>3. CASE runs[n] = {}
      BY <3>1, <3>3
    <3>4. ASSUME NEW r \in 1 .. MaxOpen, runs[n] = {r}
          PROVE  runs'[n] = {} \/ runs'[n] = {r}
      BY <3>1, <3>4
    <3> QED
      BY <3>2, <3>3, <3>4
  <2>8. LiveRunsStayOpen'
    <3> SUFFICES ASSUME NEW u \in Slots, tasks'[u].run /= 0
                 PROVE  tasks'[u].run \in runs'[tasks'[u].job]
      BY DEF LiveRunsStayOpen
    <3>1. u /= s /\ tasks'[u] = tasks[u]
      BY <2>3
    <3>2. tasks[u].pc /= "none"
      BY <3>1 DEF Lanes, LaneTask
    <3> QED
      BY <2>4, <2>6, <3>1, <3>2 DEF History, LiveRunsStayOpen
  <2>9. HereWhileLive'
    <3> SUFFICES ASSUME NEW u \in Slots, InFlight(u)', row'[tasks'[u].job].start = "open"
                 PROVE  row'[tasks'[u].job].here
      BY DEF HereWhileLive
    <3>1. u /= s /\ tasks'[u] = tasks[u]
      BY <2>3 DEF InFlight
    <3>2. InFlight(u) /\ tasks[u].pc /= "none"
      BY <3>1 DEF InFlight
    <3>3. row'[tasks[u].job] = row[tasks[u].job]
      BY <2>5, <2>6, <3>1, <3>2
    <3> QED
      BY <3>1, <3>2, <3>3 DEF History, HereWhileLive
  <2> QED
    BY <2>7, <2>8, <2>9 DEF History
<1> QED
  BY <1>2, <1>3, <1>4, <1>5, <1>6 DEF Step

LEMMA OutsideHistory ==
  ASSUME Lanes, History, Crash \/ \E n \in Names : RunNow(n) \/ Elapse(n)
  PROVE  History'
<1>0. row \in [Names -> Row]
  BY DEF Lanes, TypeOK
<1>1. ASSUME NEW n \in Names, RunNow(n) \/ Elapse(n) PROVE History'
  <2>1. UNCHANGED <<runs, tasks>>
    BY <1>1 DEF RunNow, Elapse
  <2>2. ASSUME NEW m \in Names, row'[m].start = "open"
        PROVE  row[m].start = "open" /\ row'[m].here = row[m].here
    <3>1. CASE RunNow(n)
      BY <1>0, <2>2, <3>1 DEF RunNow
    <3>2. CASE Elapse(n)
      BY <1>0, <2>2, <3>2 DEF Elapse, Row
    <3> QED
      BY <1>1, <3>1, <3>2
  <2>3. \A s \in Slots : InFlight(s) => tasks[s].job \in Names
    BY DEF Lanes, LaneTask, InFlight
  <2>4. HereWhileLive'
    BY <2>1, <2>2, <2>3 DEF History, HereWhileLive, InFlight
  <2> QED
    BY <2>1, <2>4 DEF History, SingleOpen, LiveRunsStayOpen
<1>2. CASE Crash
  <2>1. runs' = runs /\ \A s \in Slots : tasks'[s].pc = "none" /\ tasks'[s].run = 0
    BY <1>2 DEF Crash, NoTask
  <2> QED
    BY <2>1 DEF History, SingleOpen, LiveRunsStayOpen, HereWhileLive, InFlight
<1> QED
  BY <1>1, <1>2

LEMMA InitHistory == Init => History
  BY DEF Init, History, SingleOpen, LiveRunsStayOpen, HereWhileLive, InFlight, NoTask

\* The inductive invariant of the run history.
THEOREM HistoryInvariant == Spec => []History
<1>1. Lanes /\ History /\ [Next]_vars => History'
  <2> SUFFICES ASSUME Lanes, History, [Next]_vars PROVE History'
    OBVIOUS
  <2>1. CASE UNCHANGED vars
    BY <2>1 DEF vars, History, SingleOpen, LiveRunsStayOpen, HereWhileLive, InFlight
  <2> QED
    BY <2>1, DispatchHistory, StepHistory, OutsideHistory DEF Next
<1> QED
  BY <1>1, InitHistory, LanesInvariant, PTL DEF Spec

\* run_history.py, open_run: no pass that is still going is closed as interrupted.
THEOREM LivePassesStayOpen == Spec => []LiveRunsStayOpen
<1>1. History => LiveRunsStayOpen
  BY DEF History
<1> QED
  BY <1>1, HistoryInvariant, PTL

\* run_history.py, open_run: at most one open row of a name, whatever crashed.
THEOREM OrphansAreReconciled == Spec => []OneOpenRunPerName
<1>1. History => OneOpenRunPerName
  <2>1. Cardinality({}) = 0 /\ \A r \in 1 .. MaxOpen : Cardinality({r}) = 1
    BY FS_EmptySet, FS_Singleton
  <2> QED
    BY <2>1 DEF History, SingleOpen, OneOpenRunPerName
<1> QED
  BY <1>1, HistoryInvariant, PTL

\* snapshots.py, _run_status: "interrupted" is never said of a live pass.
THEOREM InterruptedIsProved == Spec => []InterruptedIsAProof
<1>1. History => InterruptedIsAProof
  BY DEF History, HereWhileLive, InterruptedIsAProof, RunStatus
<1> QED
  BY <1>1, HistoryInvariant, PTL

\* Everything the runs check of the lanes and their history, for every list of jobs,
\* every number of crashes and any bound on open rows.
THEOREM LanesAreSafe == Spec => []LaneSafety
<1>1. Lanes => TypeOK
  BY DEF Lanes
<1>2. /\ TypeOK /\ LanesHold /\ OneOpenRunPerName
      /\ LiveRunsStayOpen /\ InterruptedIsAProof
      => LaneSafety
  BY DEF LaneSafety
<1> QED
  BY <1>1, <1>2, LanesInvariant, JobsDoNotOverlap, OrphansAreReconciled,
     LivePassesStayOpen, InterruptedIsProved, PTL
=============================================================================
