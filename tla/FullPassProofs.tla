--------------------------- MODULE FullPassProofs ---------------------------
(* For any number of presses, jobs, items and watching replicas: a drained *)
(* pass was tried, a younger press waits, a verdict is written once.       *)
EXTENDS FullPass, TLAPS

Held(r) == watch[r].todo \cup Written(r)

\* A watcher's uncommitted verdicts are row locks on open passes.
Locks ==
    /\ \A r \in Replicas : Held(r) \subseteq Committed
    /\ \A r \in Replicas : Written(r) \subseteq Open
    /\ \A r \in Replicas : watch[r].ok \cap watch[r].late = {}
    /\ \A r, q \in Replicas : r /= q => Written(r) \cap Written(q) = {}

\* What was committed before a press began has a smaller id, and the walk, oldest
\* first, leaves none of it behind.
Order ==
    /\ \A q \in PassIds : \A p \in pass[q].after : p < q /\ p \in Committed
    /\ \A r \in Replicas : \A q \in Written(r), p \in watch[r].todo : q < p
    /\ \A r \in Replicas : \A q \in Held(r) : \A p \in pass[q].after :
          p \in Held(r) \/ pass[p].state \in Ended

\* The jobs of a press carry its timestamp, and an untried one is pending or running.
Stamps ==
    /\ \A j \in JobIds : jobs[j].pass /= 0 =>
          /\ jobs[j].pass \in Committed
          /\ jobs[j].at = pass[jobs[j].pass].at
    /\ \A j \in JobIds : jobs[j].pass /= 0 /\ ~jobs[j].tried =>
          jobs[j].state \in {"pending", "running"}

\* A drained verdict, committed or not, is of a pass whose jobs were all tried.
Drained ==
    \A p \in PassIds :
        (pass[p].state = "ok" \/ \E r \in Replicas : p \in watch[r].ok) =>
            \A j \in JobIds : jobs[j].pass = p => jobs[j].tried

IInv == TypeOK /\ Locks /\ Order /\ Stamps /\ Drained /\ YoungerWaits
-----------------------------------------------------------------------------
\* No step of a press, a webhook, a worker or a watcher writes a job outside its type,
\* unstamps it, or puts an untried one aside.
JobKept(j) ==
    /\ jobs'[j] \in Job
    /\ jobs'[j].pass \in {0, jobs[j].pass}
    /\ jobs'[j].pass /= 0 => jobs'[j].at = jobs[j].at
    /\ jobs'[j].pass /= 0 /\ jobs[j].tried => jobs'[j].tried
    /\ jobs'[j].pass /= 0 /\ ~jobs'[j].tried => jobs'[j].state \in {"pending", "running"}

\* The initial state: an empty table and idle watchers.
LEMMA InitInv == Init => IInv
<1> SUFFICES ASSUME Init PROVE IInv
  OBVIOUS
<1> USE DEF Init
<1>1. TypeOK
  BY DEF TypeOK, Pass, Job, NoPass, NoJob, IdleWatch, Watch
<1>2. \A r \in Replicas : Held(r) = {} /\ Written(r) = {} /\ watch[r].todo = {} /\ watch[r].ok = {}
  BY DEF Held, Written, IdleWatch
<1>3. \A p \in PassIds : pass[p].after = {} /\ pass[p].state = "none"
  BY DEF NoPass
<1>4. \A j \in JobIds : jobs[j].pass = 0
  BY DEF NoJob
<1> HIDE DEF Init
<1>5. Locks
  BY <1>2 DEF Locks, Written
<1>6. Order
  <2>1. \A r \in Replicas : \A q \in Held(r) : FALSE
    BY <1>2
  <2> QED BY <1>2, <1>3, <2>1 DEF Order
<1>7. Stamps /\ Drained /\ YoungerWaits
  BY <1>2, <1>3, <1>4, IdAssumption DEF Stamps, Drained, YoungerWaits, Closed
<1> QED BY <1>1, <1>5, <1>6, <1>7 DEF IInv

\* Webhooks and workers (queue/jobs.py) touch the jobs only, and keep their stamps.
LEMMA JobSteps ==
  ASSUME IInv,
         \/ \E k \in Keys : Webhook(k)
         \/ \E j \in JobIds : ClaimJob(j) \/ EndJob(j) \/ DismissJob(j) \/ RetryJob(j)
  PROVE  IInv'
<1> USE DEF IInv
<1>1. pass' = pass /\ watch' = watch /\ clock' \in Nat
  <2>1. pass' = pass /\ watch' = watch
    BY Zenon DEF Webhook, ClaimJob, EndJob, DismissJob, RetryJob
  <2>2. clock' = clock \/ clock' = clock + 1
    BY Zenon DEF Webhook, ClaimJob, EndJob, DismissJob, RetryJob
  <2> QED BY <2>1, <2>2 DEF TypeOK
<1>2. jobs' = [j \in JobIds |-> jobs'[j]]
  <2>1. ASSUME NEW k \in Keys, Webhook(k) PROVE jobs' = [j \in JobIds |-> jobs'[j]]
    <3>1. \E j, v : jobs' = [jobs EXCEPT ![j] = v]
      BY <2>1 DEF Webhook
    <3> QED BY <3>1 DEF TypeOK
  <2>2. ASSUME NEW j \in JobIds, ClaimJob(j) \/ EndJob(j) \/ DismissJob(j) \/ RetryJob(j)
        PROVE  jobs' = [i \in JobIds |-> jobs'[i]]
    BY <2>2 DEF ClaimJob, EndJob, DismissJob, RetryJob, TypeOK
  <2> QED BY <2>1, <2>2
<1>3. \A i \in JobIds : JobKept(i)
  <2>1. ASSUME NEW k \in Keys, Webhook(k), NEW i \in JobIds PROVE JobKept(i)
    <3>1. CASE \E j \in FreeJobs : jobs' = [jobs EXCEPT ![j] = NewJob(k, clock, 0)]
      BY <3>1 DEF JobKept, TypeOK, Job, NewJob, Stamps, FreeJobs
    <3>2. CASE \E j \in JobIds : jobs' = [jobs EXCEPT ![j].state = "pending"]
      <4> PICK j \in JobIds : jobs' = [jobs EXCEPT ![j].state = "pending"]
        BY <3>2
      <4> QED BY DEF JobKept, TypeOK, Job, Stamps
    <3>3. \/ \E j \in FreeJobs : jobs' = [jobs EXCEPT ![j] = NewJob(k, clock, 0)]
          \/ \E j \in JobIds : jobs' = [jobs EXCEPT ![j].state = "pending"]
      BY <2>1, Zenon DEF Webhook
    <3> QED BY <3>1, <3>2, <3>3
  <2>2. ASSUME NEW j \in JobIds, ClaimJob(j), NEW i \in JobIds PROVE JobKept(i)
    BY <2>2 DEF ClaimJob, JobKept, TypeOK, Job, Stamps
  <2>3. ASSUME NEW j \in JobIds, EndJob(j), NEW i \in JobIds PROVE JobKept(i)
    <3>1. PICK s \in {"over", "parked", "deferred", "pending"} :
            jobs' = [jobs EXCEPT ![j].state = s, ![j].tried = @ \/ s /= "pending"]
      BY <2>3, Zenon DEF EndJob
    <3> DEFINE b == jobs[j].tried \/ s /= "pending"
               job == [jobs[j] EXCEPT !.state = s, !.tried = b]
    <3>2. jobs[j] \in Job /\ jobs[j].state = "running"
      BY <2>3 DEF EndJob, TypeOK
    <3>3. b \in BOOLEAN
      BY Zenon
    <3>4. (jobs[j].tried => b = TRUE) /\ (b = FALSE => s = "pending")
      OBVIOUS
    <3>5. jobs' = [jobs EXCEPT ![j].state = s, ![j].tried = b]
      BY <3>1
    <3> HIDE DEF b
    <3>6. jobs' = [jobs EXCEPT ![j] = job]
      BY <3>5 DEF TypeOK
    <3>7. /\ job \in Job /\ job.pass = jobs[j].pass /\ job.at = jobs[j].at
          /\ job.state = s /\ job.tried = b
      BY <3>2, <3>3 DEF Job
    <3> HIDE DEF job
    <3>8. CASE i = j
      <4>1. jobs'[i] = job
        BY <3>6, <3>8 DEF TypeOK
      <4> QED BY <3>3, <3>4, <3>7, <3>8, <4>1 DEF JobKept
    <3>9. CASE i /= j
      <4>1. jobs'[i] = jobs[i] /\ jobs[i] \in Job
        BY <3>6, <3>9 DEF TypeOK
      <4> QED BY <4>1 DEF JobKept, Stamps
    <3> QED BY <3>8, <3>9
  <2>4. ASSUME NEW j \in JobIds, DismissJob(j), NEW i \in JobIds PROVE JobKept(i)
    BY <2>4 DEF DismissJob, JobKept, TypeOK, Job, Stamps
  <2>5. ASSUME NEW j \in JobIds, RetryJob(j), NEW i \in JobIds PROVE JobKept(i)
    BY <2>5 DEF RetryJob, JobKept, TypeOK, Job, Stamps
  <2> QED BY <2>1, <2>2, <2>3, <2>4, <2>5
<1>4. TypeOK'
  BY <1>1, <1>2, <1>3 DEF TypeOK, JobKept
<1>5. Locks' /\ Order' /\ YoungerWaits'
  BY <1>1 DEF Locks, Order, YoungerWaits, Written, Held, Committed, Open
<1>6. Stamps'
  BY <1>1, <1>3 DEF Stamps, JobKept, Committed
<1>7. Drained'
  BY <1>1, <1>3, IdAssumption DEF Drained, JobKept, TypeOK
<1> QED BY <1>4, <1>5, <1>6, <1>7

\* run_full_pass up to its commit: a press begins after what is committed.
LEMMA BeginPassStep ==
  ASSUME IInv, NEW p \in PassIds, BeginPass(p)
  PROVE  IInv'
<1> USE DEF IInv
<1> DEFINE row == [state |-> "opening", at |-> clock, old |-> FALSE, after |-> Committed]
<1>1. pass' = [pass EXCEPT ![p] = row] /\ jobs' = jobs /\ watch' = watch /\ clock' \in Nat
  BY DEF BeginPass, TypeOK
<1>2. p \notin Committed /\ \A q \in Committed : q < p
  BY DEF BeginPass, Committed
<1>3. row \in Pass /\ row.state = "opening" /\ row.after = Committed
  BY DEF Pass, TypeOK, Committed
<1> HIDE DEF row
<1>4. TypeOK'
  BY <1>1, <1>3 DEF TypeOK
<1>5. Committed' = Committed /\ Open' = Open
  BY <1>1, <1>2, <1>3, <1>4 DEF Committed, Open, TypeOK
<1>6. \A q \in PassIds : q /= p => pass'[q] = pass[q]
  BY <1>1 DEF TypeOK
<1>7. pass'[p] = row
  BY <1>1 DEF TypeOK
<1>8. Locks'
  BY <1>1, <1>5 DEF Locks, Written, Held
<1>9. Order'
  <2>1. \A r \in Replicas : p \notin Held(r)
    BY <1>2 DEF Locks
  <2>2. \A q \in PassIds : \A o \in pass'[q].after : o < q /\ o \in Committed'
    BY <1>2, <1>3, <1>5, <1>6, <1>7 DEF Order
  <2>3. \A r \in Replicas : \A q \in Written(r)', o \in watch'[r].todo : q < o
    BY <1>1 DEF Order, Written
  <2>4. ASSUME NEW r \in Replicas, NEW q \in Held(r)', NEW o \in pass'[q].after
        PROVE  o \in Held(r)' \/ pass'[o].state \in Ended
    <3>1. q \in Held(r) /\ q /= p /\ q \in PassIds
      BY <1>1, <2>1 DEF Held, Written, Locks, Committed
    <3>2. o \in pass[q].after /\ o \in Committed /\ o /= p
      BY <1>2, <1>6, <3>1 DEF Order
    <3>3. pass'[o] = pass[o]
      BY <1>6, <3>2 DEF Committed
    <3> QED BY <1>1, <3>1, <3>2, <3>3 DEF Order, Held, Written
  <2> QED BY <2>2, <2>3, <2>4 DEF Order
<1>10. Stamps'
  BY <1>1, <1>2, <1>5, <1>6 DEF Stamps, Committed
<1>11. Drained'
  BY <1>1, <1>3, <1>6, <1>7 DEF Drained
<1>12. YoungerWaits'
  <2> SUFFICES ASSUME NEW q \in PassIds, pass'[q].state \in Closed, NEW o \in pass'[q].after
               PROVE  pass'[o].state \in Ended
    BY DEF YoungerWaits
  <2>1. q /= p
    BY <1>3, <1>7 DEF Closed
  <2>2. o \in Committed /\ o /= p /\ pass[o].state \in Ended
    BY <1>2, <1>6, <2>1 DEF Order, YoungerWaits
  <2> QED BY <1>6, <2>2 DEF Committed
<1> QED BY <1>4, <1>8, <1>9, <1>10, <1>11, <1>12

\* The commit of run_full_pass: the row and its jobs appear together, with one stamp.
LEMMA CommitPassStep ==
  ASSUME IInv, NEW p \in PassIds, CommitPass(p)
  PROVE  IInv'
<1> USE DEF IInv
<1> DEFINE row == [pass[p] EXCEPT !.state = "open"]
<1>1. pass' = [pass EXCEPT ![p] = row] /\ watch' = watch /\ clock' = clock
  BY DEF CommitPass, TypeOK
<1>2. pass[p].state = "opening"
  BY DEF CommitPass
<1>3. row \in Pass /\ row.state = "open" /\ row.after = pass[p].after /\ row.at = pass[p].at
  BY DEF Pass, TypeOK
<1> HIDE DEF row
<1>4. \A q \in PassIds : q /= p => pass'[q] = pass[q]
  BY <1>1 DEF TypeOK
<1>5. pass'[p] = row
  BY <1>1 DEF TypeOK
<1>6. p \notin Committed /\ p \notin Open
  BY <1>2 DEF Committed, Open
<1>7. Committed \subseteq Committed' /\ Open \subseteq Open' /\ p \in Committed'
  BY <1>3, <1>4, <1>5, <1>6 DEF Committed, Open
<1>8. jobs' = [j \in JobIds |-> jobs'[j]]
  BY DEF CommitPass
<1>9. \A j \in JobIds :
          \/ jobs'[j] = jobs[j]
          \/ \E k \in Keys : jobs'[j] = NewJob(k, pass[p].at, p)
  <2> DEFINE missing == {k \in Keys : ~Live(k)}
  <2> PICK f \in [missing -> FreeJobs] :
        jobs' = [j \in JobIds |->
                   IF \E k \in missing : f[k] = j
                   THEN NewJob(CHOOSE k \in missing : f[k] = j, pass[p].at, p)
                   ELSE jobs[j]]
    BY DEF CommitPass
  <2> TAKE j \in JobIds
  <2>1. CASE \E k \in missing : f[k] = j
    <3> DEFINE key == CHOOSE k \in missing : f[k] = j
    <3>1. key \in missing
      BY <2>1
    <3>2. jobs'[j] = NewJob(key, pass[p].at, p)
      BY <2>1
    <3> QED BY <3>1, <3>2
  <2>2. CASE ~\E k \in missing : f[k] = j
    BY <2>2
  <2> QED BY <2>1, <2>2
<1>10. TypeOK'
  <2>1. \A k \in Keys : NewJob(k, pass[p].at, p) \in Job
    BY DEF NewJob, Job, TypeOK, Pass
  <2>2. \A j \in JobIds : jobs'[j] \in Job
    BY <1>9, <2>1 DEF TypeOK
  <2>3. jobs' \in [JobIds -> Job]
    BY <1>8, <2>2
  <2> QED BY <1>1, <1>3, <2>3 DEF TypeOK
<1>11. Locks'
  BY <1>1, <1>7 DEF Locks, Written, Held
<1>12. Order'
  <2>1. \A q \in PassIds : pass'[q].after = pass[q].after
    BY <1>3, <1>4, <1>5
  <2>2. \A q \in PassIds : pass[q].state \in Ended => pass'[q].state \in Ended
    BY <1>2, <1>4 DEF Ended, Closed
  <2>3. \A r \in Replicas : Held(r)' = Held(r) /\ Written(r)' = Written(r) /\ watch'[r] = watch[r]
    BY <1>1 DEF Held, Written
  <2>4. \A r \in Replicas : Held(r) \subseteq PassIds
    BY DEF Locks, Committed
  <2>5. \A q \in PassIds : pass[q].after \subseteq PassIds
    BY DEF TypeOK, Pass
  <2> QED BY <1>7, <2>1, <2>2, <2>3, <2>4, <2>5 DEF Order
<1>13. Stamps'
  <2> SUFFICES ASSUME NEW j \in JobIds, jobs'[j].pass /= 0
               PROVE  /\ jobs'[j].pass \in Committed'
                      /\ jobs'[j].at = pass'[jobs'[j].pass].at
                      /\ ~jobs'[j].tried => jobs'[j].state \in {"pending", "running"}
    BY DEF Stamps
  <2>1. CASE jobs'[j] = jobs[j]
    <3>1. jobs[j].pass \in Committed /\ jobs[j].pass /= p
      BY <1>6, <2>1 DEF Stamps
    <3> QED BY <1>4, <1>7, <2>1, <3>1 DEF Stamps, Committed
  <2>2. ASSUME NEW k \in Keys, jobs'[j] = NewJob(k, pass[p].at, p)
        PROVE  /\ jobs'[j].pass \in Committed'
               /\ jobs'[j].at = pass'[jobs'[j].pass].at
               /\ ~jobs'[j].tried => jobs'[j].state \in {"pending", "running"}
    BY <1>3, <1>5, <1>7, <2>2 DEF NewJob
  <2> QED BY <1>9, <2>1, <2>2
<1>14. Drained'
  <2> SUFFICES ASSUME NEW q \in PassIds,
                      pass'[q].state = "ok" \/ \E r \in Replicas : q \in watch'[r].ok,
                      NEW j \in JobIds, jobs'[j].pass = q
               PROVE  jobs'[j].tried
    BY DEF Drained
  <2>1. q /= p
    BY <1>1, <1>3, <1>5, <1>6 DEF Locks, Written
  <2>2. jobs'[j] = jobs[j]
    <3>1. \A k : NewJob(k, pass[p].at, p).pass = p
      BY DEF NewJob
    <3> QED BY <1>9, <2>1, <3>1
  <2> QED BY <1>1, <1>4, <2>1, <2>2 DEF Drained
<1>15. YoungerWaits'
  <2> SUFFICES ASSUME NEW q \in PassIds, pass'[q].state \in Closed, NEW o \in pass'[q].after
               PROVE  pass'[o].state \in Ended
    BY DEF YoungerWaits
  <2>1. q /= p
    BY <1>3, <1>5 DEF Closed
  <2>2. o \in Committed /\ o /= p /\ pass[o].state \in Ended
    BY <1>4, <1>6, <2>1 DEF Order, YoungerWaits
  <2> QED BY <1>4, <2>2 DEF Committed
<1> QED BY <1>10, <1>11, <1>12, <1>13, <1>14, <1>15

\* The day that goes by changes no state, stamp or order.
LEMMA AgeStep ==
  ASSUME IInv, NEW p \in PassIds, Age(p)
  PROVE  IInv'
<1> USE DEF IInv
<1>1. jobs' = jobs /\ watch' = watch /\ clock' = clock
  BY DEF Age
<1> DEFINE row == [pass[p] EXCEPT !.old = TRUE]
<1>r. pass' = [pass EXCEPT ![p] = row]
  BY DEF Age, TypeOK
<1>s. /\ row \in Pass /\ row.state = pass[p].state
      /\ row.at = pass[p].at /\ row.after = pass[p].after
  <2>1. pass[p] \in Pass
    BY DEF TypeOK
  <2>2. row \in Pass
    BY <2>1 DEF Pass
  <2>3. row.state = pass[p].state /\ row.at = pass[p].at /\ row.after = pass[p].after
    BY <2>1 DEF Pass
  <2> QED BY <2>2, <2>3
<1> HIDE DEF row
<1>2. pass' \in [PassIds -> Pass]
  BY <1>r, <1>s DEF TypeOK
<1>3. \A q \in PassIds : /\ pass'[q].state = pass[q].state
                         /\ pass'[q].at = pass[q].at
                         /\ pass'[q].after = pass[q].after
  BY <1>r, <1>s DEF TypeOK
<1>4. Committed' = Committed /\ Open' = Open
  BY <1>3 DEF Committed, Open
<1>5. TypeOK'
  BY <1>1, <1>2 DEF TypeOK
<1>6. Locks'
  BY <1>1, <1>4 DEF Locks, Held, Written
<1>7. \A r \in Replicas : Held(r)' = Held(r) /\ Written(r)' = Written(r)
  BY <1>1 DEF Held, Written
<1>8. \A r \in Replicas : Held(r) \subseteq PassIds
  BY DEF Locks, Committed
<1>9. \A q \in PassIds : pass[q].after \subseteq PassIds
  BY DEF TypeOK, Pass
<1>10. Order'
  BY <1>1, <1>3, <1>4, <1>7, <1>8, <1>9 DEF Order
<1>11. Stamps'
  BY <1>1, <1>3, <1>4 DEF Stamps, Committed
<1>12. Drained' /\ YoungerWaits'
  BY <1>1, <1>3, <1>9 DEF Drained, YoungerWaits
<1> QED BY <1>5, <1>6, <1>10, <1>11, <1>12

-----------------------------------------------------------------------------
\* The steps of a watcher before its commit: w is what replica r holds next. They
\* preserve the invariant if w's verdicts lock open passes nobody else has locked, are
\* older than what is left to visit, leave nothing older behind, and are truly drained.
WatchMoves(r, w) ==
    LET written == w.ok \cup w.late
        held == w.todo \cup written
    IN /\ watch' = [watch EXCEPT ![r] = w]
       /\ w \in Watch
       /\ held \subseteq Committed
       /\ written \subseteq Open
       /\ w.ok \cap w.late = {}
       /\ \A q \in Replicas \ {r} : written \cap Written(q) = {}
       /\ \A q \in written, p \in w.todo : q < p
       /\ \A q \in held : \A p \in pass[q].after : p \in held \/ pass[p].state \in Ended
       /\ \A p \in w.ok : \A j \in JobIds : jobs[j].pass = p => jobs[j].tried

\* What such a step preserves (run_history.py, close_drained_full_passes).
LEMMA WatchMovesStep ==
  ASSUME IInv, NEW r \in Replicas, NEW w, WatchMoves(r, w), UNCHANGED <<pass, jobs, clock>>
  PROVE  IInv'
<1> USE DEF IInv
<1>1. watch' = [watch EXCEPT ![r] = w] /\ pass' = pass /\ jobs' = jobs /\ clock' = clock
  BY DEF WatchMoves
<1>2. Committed' = Committed /\ Open' = Open
  BY <1>1 DEF Committed, Open
<1>3. TypeOK'
  BY <1>1 DEF TypeOK, WatchMoves
<1>4. watch'[r] = w /\ \A q \in Replicas : q /= r => watch'[q] = watch[q]
  BY <1>1 DEF TypeOK
<1>5. /\ Written(r)' = w.ok \cup w.late
      /\ Held(r)' = w.todo \cup (w.ok \cup w.late)
      /\ \A q \in Replicas : q /= r => Written(q)' = Written(q) /\ Held(q)' = Held(q)
  BY <1>4 DEF Written, Held
<1>6. Locks'
  <2>1. \A q \in Replicas : Held(q)' \subseteq Committed'
    BY <1>2, <1>5 DEF Locks, WatchMoves
  <2>2. \A q \in Replicas : Written(q)' \subseteq Open'
    BY <1>2, <1>5 DEF Locks, WatchMoves
  <2>3. \A q \in Replicas : watch'[q].ok \cap watch'[q].late = {}
    BY <1>4 DEF Locks, WatchMoves
  <2>4. ASSUME NEW q \in Replicas, NEW s \in Replicas, q /= s
        PROVE  Written(q)' \cap Written(s)' = {}
    <3>1. CASE q = r
      BY <1>5, <2>4, <3>1 DEF WatchMoves
    <3>2. CASE s = r
      BY <1>5, <2>4, <3>2 DEF WatchMoves
    <3>3. CASE q /= r /\ s /= r
      BY <1>5, <2>4, <3>3 DEF Locks
    <3> QED BY <3>1, <3>2, <3>3
  <2> QED BY <2>1, <2>2, <2>3, <2>4 DEF Locks
<1>7. Order'
  <2>1. \A q \in PassIds : \A p \in pass'[q].after : p < q /\ p \in Committed'
    BY <1>1, <1>2 DEF Order
  <2>2. ASSUME NEW q \in Replicas
        PROVE  /\ \A s \in Written(q)', p \in watch'[q].todo : s < p
               /\ \A s \in Held(q)' : \A p \in pass'[s].after :
                     p \in Held(q)' \/ pass'[p].state \in Ended
    <3>1. CASE q = r
      BY <1>1, <1>4, <1>5, <3>1 DEF WatchMoves
    <3>2. CASE q /= r
      BY <1>1, <1>4, <1>5, <3>2 DEF Order
    <3> QED BY <3>1, <3>2
  <2> QED BY <2>1, <2>2 DEF Order
<1>8. Stamps' /\ YoungerWaits'
  BY <1>1, <1>2 DEF Stamps, YoungerWaits
<1>9. Drained'
  BY <1>1, <1>4 DEF Drained, WatchMoves
<1> QED BY <1>3, <1>6, <1>7, <1>8, <1>9

\* The SELECT of the open rows, and a rollback.
LEMMA LookAndAbort ==
  ASSUME IInv, NEW r \in Replicas, Look(r) \/ Abort(r)
  PROVE  IInv'
<1> USE DEF IInv
<1>1. CASE Look(r)
  <2> DEFINE w == [on |-> TRUE, todo |-> Open, old |-> {p \in Open : pass[p].old},
                   ok |-> {}, late |-> {}, counted |-> FALSE]
  <2>1. watch' = [watch EXCEPT ![r] = w] /\ UNCHANGED <<pass, jobs, clock>>
    BY <1>1 DEF Look
  <2>3. Open \subseteq Committed /\ Open \subseteq PassIds
    BY DEF Open, Committed
  <2>4. \A q \in Open : \A p \in pass[q].after : p \in Open \/ pass[p].state \in Ended
    <3>1. \A p \in Committed : p \in Open \/ pass[p].state \in Ended
      BY DEF TypeOK, Pass, Committed, Open, Ended, Closed
    <3> QED BY <2>3, <3>1 DEF Order
  <2>5. /\ w.todo = Open /\ w.ok = {} /\ w.late = {}
        /\ w \in Watch
    BY <2>3 DEF Watch
  <2> HIDE DEF w
  <2>6. WatchMoves(r, w)
    BY <2>1, <2>3, <2>4, <2>5 DEF WatchMoves
  <2> QED BY <2>1, <2>6, WatchMovesStep
<1>2. CASE Abort(r)
  <2>1. watch' = [watch EXCEPT ![r] = IdleWatch] /\ UNCHANGED <<pass, jobs, clock>>
    BY <1>2 DEF Abort
  <2>2. /\ IdleWatch.todo = {} /\ IdleWatch.ok = {} /\ IdleWatch.late = {}
        /\ IdleWatch \in Watch
    BY DEF IdleWatch, Watch
  <2>3. WatchMoves(r, IdleWatch)
    BY <2>1, <2>2 DEF WatchMoves
  <2> QED BY <2>1, <2>3, WatchMovesStep
<1> QED BY <1>1, <1>2

\* One row of the walk: stop at a draining row, or write its verdict behind its lock.
LEMMA VisitStep ==
  ASSUME IInv, NEW r \in Replicas, Visit(r)
  PROVE  IInv'
<1> USE DEF IInv
<1>1. PICK p \in watch[r].todo :
         /\ \A q \in watch[r].todo : p <= q
         /\ IF Outstanding(p) /\ ~Expired(r, p)
            THEN StopWalk(r, p)
            ELSE /\ p \notin LockedFor(r)
                 /\ watch' = [watch EXCEPT
                       ![r].todo = @ \ {p}, ![r].counted = TRUE,
                       ![r].ok = IF StillOpen(p) /\ ~Outstanding(p) THEN @ \cup {p} ELSE @,
                       ![r].late = IF StillOpen(p) /\ Outstanding(p) THEN @ \cup {p} ELSE @]
  BY Zenon DEF Visit
<1>2. UNCHANGED <<pass, jobs, clock>>
  BY Zenon DEF Visit
<1>3. /\ watch[r].todo \subseteq PassIds /\ watch[r].ok \subseteq PassIds
      /\ watch[r].late \subseteq PassIds /\ watch[r].old \subseteq PassIds
      /\ watch[r].on \in BOOLEAN /\ watch[r].counted \in BOOLEAN
  BY DEF TypeOK, Watch
<1>4. p \in PassIds /\ p \in Committed
  BY <1>1, <1>3 DEF Locks, Held
<1>5. \A q \in Replicas \ {r} : p \notin Written(q) \/ p \in LockedFor(r)
  BY DEF LockedFor, Written
<1>6. CASE Outstanding(p) /\ ~Expired(r, p)
  <2> DEFINE w == [on |-> watch[r].on, todo |-> {}, old |-> watch[r].old, ok |-> watch[r].ok,
                   late |-> watch[r].late, counted |-> watch[r].counted]
  <2>1. watch' = [watch EXCEPT ![r] = w]
    BY <1>1, <1>6 DEF StopWalk, TypeOK, Watch
  <2>2. /\ w.todo = {} /\ w.ok = watch[r].ok /\ w.late = watch[r].late
        /\ w \in Watch
    BY <1>3 DEF Watch
  <2> HIDE DEF w
  <2>3. ASSUME NEW q \in Written(r), NEW o \in pass[q].after
        PROVE  o \in Written(r) \/ pass[o].state \in Ended
    <3>1. q \in Held(r) /\ q \in PassIds
      BY <1>3 DEF Held, Written
    <3>2. o < q /\ o \in PassIds
      BY <3>1 DEF Order, Committed
    <3>3. o \in Held(r) \/ pass[o].state \in Ended
      BY <3>1 DEF Order
    <3>4. o \notin watch[r].todo
      <4>1. o \in watch[r].todo => q < o
        BY DEF Order
      <4>2. o \in Nat /\ q \in Nat
        BY <3>1, <3>2, IdAssumption
      <4> QED BY <3>2, <4>1, <4>2
    <3> QED BY <3>3, <3>4 DEF Held
  <2>4. Written(r) = w.ok \cup w.late
    BY <2>2 DEF Written
  <2>5. \A q \in Replicas \ {r} : Written(r) \cap Written(q) = {}
    BY DEF Locks
  <2>6. Written(r) \subseteq Open /\ Written(r) \subseteq Committed /\ w.ok \cap w.late = {}
    BY <2>2 DEF Locks, Held
  <2>7. \A q \in w.ok : \A j \in JobIds : jobs[j].pass = q => jobs[j].tried
    BY <1>3, <2>2 DEF Drained
  <2>8. WatchMoves(r, w)
    BY <2>1, <2>2, <2>3, <2>4, <2>5, <2>6, <2>7 DEF WatchMoves
  <2> QED BY <1>2, <2>8, WatchMovesStep
<1>7. CASE ~(Outstanding(p) /\ ~Expired(r, p))
  <2> DEFINE ok == IF StillOpen(p) /\ ~Outstanding(p) THEN watch[r].ok \cup {p} ELSE watch[r].ok
             late == IF StillOpen(p) /\ Outstanding(p) THEN watch[r].late \cup {p} ELSE watch[r].late
             w == [on |-> watch[r].on, todo |-> watch[r].todo \ {p}, old |-> watch[r].old,
                   ok |-> ok, late |-> late, counted |-> TRUE]
  <2>1. /\ watch' = [watch EXCEPT ![r] = w] /\ p \notin LockedFor(r)
    BY <1>1, <1>7 DEF TypeOK, Watch
  <2>2. /\ ok \subseteq PassIds /\ late \subseteq PassIds
        /\ ok \cup late \subseteq Written(r) \cup {p}
        /\ Written(r) \subseteq ok \cup late
        /\ p \in ok \cup late => p \in Written(r) \/ p \in Open
        /\ p \notin ok \cup late => pass[p].state /= "open"
        /\ ok \subseteq watch[r].ok \/ (ok = watch[r].ok \cup {p} /\ ~Outstanding(p))
    BY <1>3, <1>4 DEF Written, StillOpen, Open
  <2>3. p \notin Written(r)
    BY <1>1, <1>4, IdAssumption DEF Order
  <2>4. ok \cap late = {}
    BY <2>3 DEF Locks, Written
  <2> HIDE DEF ok, late
  <2>5. /\ w.todo = watch[r].todo \ {p} /\ w.ok = ok /\ w.late = late
        /\ w \in Watch
    BY <1>3, <2>2 DEF Watch
  <2> HIDE DEF w
  <2>6. w.todo \cup (w.ok \cup w.late) \subseteq Held(r)
    BY <1>1, <2>2, <2>5 DEF Held
  <2>7. w.ok \cup w.late \subseteq Open
    BY <2>2, <2>3, <2>5 DEF Locks
  <2>8. \A q \in Replicas \ {r} : (w.ok \cup w.late) \cap Written(q) = {}
    BY <1>5, <2>1, <2>2, <2>5 DEF Locks
  <2>9. \A q \in w.ok \cup w.late, o \in w.todo : q < o
    <3>1. \A o \in w.todo : p < o
      BY <1>1, <1>3, <1>4, <2>5, IdAssumption
    <3> QED BY <2>2, <2>5, <3>1 DEF Order
  <2>10. ASSUME NEW q \in w.todo \cup (w.ok \cup w.late), NEW o \in pass[q].after
         PROVE  o \in w.todo \cup (w.ok \cup w.late) \/ pass[o].state \in Ended
    <3>1. o \in Held(r) \/ pass[o].state \in Ended
      BY <2>6 DEF Order
    <3>2. o \in Held(r) => o = p \/ o \in w.todo \cup (w.ok \cup w.late)
      BY <2>2, <2>5 DEF Held
    <3>3. p \in w.ok \cup w.late \/ pass[p].state \in Ended
      BY <1>4, <2>2, <2>5 DEF Committed, TypeOK, Pass, Closed, Ended
    <3> QED BY <3>1, <3>2, <3>3
  <2>11. ASSUME NEW q \in w.ok, NEW j \in JobIds, jobs[j].pass = q
         PROVE  jobs[j].tried
    <3>1. CASE q \in watch[r].ok
      BY <1>3, <2>11, <3>1 DEF Drained
    <3>2. CASE q = p /\ ~Outstanding(p)
      <4>1. jobs[j].pass /= 0 /\ jobs[j].at = pass[p].at /\ pass[p].at \in Nat
        BY <1>4, <2>11, <3>2, IdAssumption DEF Stamps, TypeOK, Pass
      <4>2. jobs[j].state \notin {"pending", "running"}
        BY <3>2, <4>1 DEF Outstanding
      <4> QED BY <4>1, <4>2 DEF Stamps
    <3> QED BY <2>2, <2>5, <3>1, <3>2
  <2>12. w.todo \cup (w.ok \cup w.late) \subseteq Committed
    BY <2>6 DEF Locks
  <2>13. WatchMoves(r, w)
    BY <2>1, <2>4, <2>5, <2>7, <2>8, <2>9, <2>10, <2>11, <2>12 DEF WatchMoves
  <2> QED BY <1>2, <2>13, WatchMovesStep
<1> QED BY <1>6, <1>7

\* The watcher's commit publishes its verdicts and releases the locks.
LEMMA CommitWatchStep ==
  ASSUME IInv, NEW r \in Replicas, CommitWatch(r)
  PROVE  IInv' /\ \A p \in PassIds : pass[p].state \in Ended =>
                     pass'[p].state \in {pass[p].state, "trimmed"}
<1> USE DEF IInv
<1>1. jobs' = jobs /\ clock' = clock /\ watch' = [watch EXCEPT ![r] = IdleWatch]
  BY DEF CommitWatch
<1>2. watch[r].todo = {} /\ Held(r) = Written(r)
  BY DEF CommitWatch, Held
<1>3. pass' = [p \in PassIds |-> [pass[p] EXCEPT !.state = Outcome(r, p)]]
  BY DEF CommitWatch
<1>a. /\ Trimmed(r) \subseteq Committed
      /\ \A q \in Replicas : q /= r => Trimmed(r) \cap Written(q) = {}
  <2>1. Trimmed(r) \subseteq Committed
    BY DEF Trimmed
  <2>2. \A q \in Replicas : q /= r => Written(q) \subseteq LockedFor(r)
    BY DEF LockedFor, Written
  <2>3. Trimmed(r) \cap LockedFor(r) = {}
    BY DEF CommitWatch
  <2> QED BY <2>1, <2>2, <2>3
<1>b. ASSUME NEW p \in PassIds
      PROVE  /\ p \in Written(r) => pass[p].state = "open" /\ Outcome(r, p) \in Ended
             /\ p \notin Written(r) => Outcome(r, p) = pass[p].state
                                    \/ (Outcome(r, p) = "trimmed" /\ p \in Trimmed(r))
             /\ Outcome(r, p) = "ok" => p \in watch[r].ok \/ pass[p].state = "ok"
  <2>1. p \in Written(r) => pass[p].state = "open"
    BY DEF Locks, Open
  <2>2. ~(p \in watch[r].ok /\ p \in watch[r].late)
    BY DEF Locks
  <2>3. CASE p \in Trimmed(r)
    <3>1. Outcome(r, p) = "trimmed"
      BY <2>3 DEF Outcome
    <3> QED BY <2>1, <2>3, <3>1 DEF Ended
  <2>4. CASE p \notin Trimmed(r) /\ p \in watch[r].ok
    <3>1. Outcome(r, p) = "ok"
      BY <2>2, <2>4 DEF Outcome
    <3> QED BY <2>1, <2>4, <3>1 DEF Ended, Closed, Written
  <2>5. CASE p \notin Trimmed(r) /\ p \notin watch[r].ok /\ p \in watch[r].late
    <3>1. Outcome(r, p) = "timed_out"
      BY <2>5 DEF Outcome, TimedOut
    <3> QED BY <2>1, <2>5, <3>1 DEF Ended, Closed, Written
  <2>6. CASE p \notin Trimmed(r) /\ p \notin watch[r].ok /\ p \notin watch[r].late
    <3>1. Outcome(r, p) = pass[p].state
      BY <2>6 DEF Outcome
    <3> QED BY <2>6, <3>1 DEF Written
  <2> QED BY <2>3, <2>4, <2>5, <2>6
<1>4. ASSUME NEW p \in PassIds
      PROVE  /\ pass'[p] \in Pass
             /\ pass'[p].state = Outcome(r, p)
             /\ pass'[p].at = pass[p].at /\ pass'[p].after = pass[p].after
  <2>1. pass[p] \in Pass
    BY DEF TypeOK
  <2>2. Outcome(r, p) \in {"none", "opening", "open"} \cup Ended
    BY <1>b, <2>1 DEF Pass, Ended
  <2>3. pass'[p] = [pass[p] EXCEPT !.state = Outcome(r, p)]
    BY <1>3
  <2> QED BY <2>1, <2>2, <2>3 DEF Pass
<1>5. TypeOK'
  <2>1. pass' \in [PassIds -> Pass]
    BY <1>3, <1>4
  <2>2. IdleWatch \in Watch
    BY DEF IdleWatch, Watch
  <2> QED BY <1>1, <2>1, <2>2 DEF TypeOK
<1>6. Committed' = Committed
  <2> SUFFICES ASSUME NEW p \in PassIds PROVE p \in Committed' <=> p \in Committed
    BY DEF Committed
  <2> QED BY <1>a, <1>b, <1>4 DEF Committed, Ended, Closed
<1>7. \A q \in Replicas : q /= r => Written(q) \subseteq Open'
  <2> SUFFICES ASSUME NEW q \in Replicas, q /= r, NEW p \in Written(q) PROVE p \in Open'
    OBVIOUS
  <2>1. p \in PassIds /\ pass[p].state = "open" /\ p \notin Written(r) /\ p \notin Trimmed(r)
    BY <1>a DEF Locks, Open
  <2> QED BY <1>b, <1>4, <2>1 DEF Open
<1>8. \A q \in Replicas : q /= r => /\ watch'[q] = watch[q]
                                    /\ Held(q)' = Held(q) /\ Written(q)' = Written(q)
  BY <1>1 DEF TypeOK, Held, Written
<1>9. /\ watch'[r].todo = {} /\ watch'[r].ok = {} /\ watch'[r].late = {}
      /\ Held(r)' = {} /\ Written(r)' = {}
  BY <1>1 DEF TypeOK, Held, Written, IdleWatch
<1>10. Locks'
  <2>1. \A q \in Replicas : Held(q)' \subseteq Committed'
    BY <1>6, <1>8, <1>9 DEF Locks
  <2>2. \A q \in Replicas : Written(q)' \subseteq Open'
    BY <1>7, <1>8, <1>9 DEF Locks
  <2>3. \A q \in Replicas : watch'[q].ok \cap watch'[q].late = {}
    BY <1>8, <1>9 DEF Locks
  <2>4. \A q, s \in Replicas : q /= s => Written(q)' \cap Written(s)' = {}
    BY <1>8, <1>9 DEF Locks
  <2> QED BY <2>1, <2>2, <2>3, <2>4 DEF Locks
<1>11. \A p \in PassIds : pass[p].state \in Ended =>
          pass'[p].state \in {pass[p].state, "trimmed"} /\ pass'[p].state \in Ended
  BY <1>b, <1>4 DEF Ended, Closed
<1>12. \A q \in PassIds : pass[q].after \subseteq PassIds
  BY DEF TypeOK, Pass
<1>13. \A q \in Replicas : Held(q) \subseteq PassIds
  BY DEF Locks, Committed
<1>14. Order'
  <2>1. \A q \in PassIds : \A p \in pass'[q].after : p < q /\ p \in Committed'
    BY <1>4, <1>6 DEF Order
  <2>2. ASSUME NEW q \in Replicas
        PROVE  /\ \A s \in Written(q)', p \in watch'[q].todo : s < p
               /\ \A s \in Held(q)' : \A p \in pass'[s].after :
                     p \in Held(q)' \/ pass'[p].state \in Ended
    <3>1. CASE q = r
      BY <1>9, <3>1
    <3>2. CASE q /= r
      <4>1. \A s \in Written(q)', p \in watch'[q].todo : s < p
        BY <1>8, <3>2 DEF Order
      <4>2. ASSUME NEW s \in Held(q)', NEW p \in pass'[s].after
            PROVE  p \in Held(q)' \/ pass'[p].state \in Ended
        <5>1. s \in Held(q) /\ s \in PassIds /\ p \in pass[s].after /\ p \in PassIds
          BY <1>4, <1>8, <1>12, <1>13, <3>2
        <5>2. p \in Held(q) \/ pass[p].state \in Ended
          BY <5>1 DEF Order
        <5> QED BY <1>8, <1>11, <3>2, <5>1, <5>2
      <4> QED BY <4>1, <4>2
    <3> QED BY <3>1, <3>2
  <2> QED BY <2>1, <2>2 DEF Order
<1>15. Stamps'
  BY <1>1, <1>4, <1>6 DEF Stamps, Committed
<1>16. Drained'
  <2> SUFFICES ASSUME NEW p \in PassIds,
                      pass'[p].state = "ok" \/ \E q \in Replicas : p \in watch'[q].ok,
                      NEW j \in JobIds, jobs'[j].pass = p
               PROVE  jobs'[j].tried
    BY DEF Drained
  <2>1. pass[p].state = "ok" \/ \E q \in Replicas : p \in watch[q].ok
    BY <1>b, <1>4, <1>8, <1>9
  <2> QED BY <1>1, <2>1 DEF Drained
<1>17. YoungerWaits'
  <2> SUFFICES ASSUME NEW q \in PassIds, pass'[q].state \in Closed, NEW p \in pass'[q].after
               PROVE  pass'[p].state \in Ended
    BY DEF YoungerWaits
  <2>1. p \in pass[q].after /\ p \in PassIds
    BY <1>4, <1>12
  <2>2. CASE q \in Written(r)
    <3>1. p \in Written(r) \/ pass[p].state \in Ended
      BY <1>2, <2>1, <2>2 DEF Order
    <3> QED BY <1>b, <1>4, <1>11, <2>1, <3>1
  <2>3. CASE q \notin Written(r)
    <3>1. pass[q].state \in Closed
      BY <1>b, <1>4, <2>3 DEF Closed
    <3>2. pass[p].state \in Ended
      BY <2>1, <3>1 DEF YoungerWaits
    <3> QED BY <1>11, <2>1, <3>2
  <2> QED BY <2>2, <2>3
<1> QED BY <1>5, <1>10, <1>11, <1>14, <1>15, <1>16, <1>17

-----------------------------------------------------------------------------
\* The inductive invariant holds of every reachable state.
THEOREM Invariant == Spec => []IInv
<1>1. IInv /\ [Next]_vars => IInv'
  <2> SUFFICES ASSUME IInv, [Next]_vars PROVE IInv'
    OBVIOUS
  <2>1. CASE UNCHANGED vars
    BY <2>1 DEF vars, IInv, TypeOK, Locks, Order, Stamps, Drained, YoungerWaits, Held, Written,
                Committed, Open
  <2>2. ASSUME NEW p \in PassIds, BeginPass(p) PROVE IInv'
    BY <2>2, BeginPassStep
  <2>3. ASSUME NEW p \in PassIds, CommitPass(p) PROVE IInv'
    BY <2>3, CommitPassStep
  <2>4. ASSUME NEW p \in PassIds, Age(p) PROVE IInv'
    BY <2>4, AgeStep
  <2>5. ASSUME NEW k \in Keys, Webhook(k) PROVE IInv'
    BY <2>5, JobSteps
  <2>6. ASSUME NEW j \in JobIds, ClaimJob(j) \/ EndJob(j) \/ DismissJob(j) \/ RetryJob(j) PROVE IInv'
    BY <2>6, JobSteps
  <2>7. ASSUME NEW r \in Replicas, Look(r) \/ Abort(r) PROVE IInv'
    BY <2>7, LookAndAbort
  <2>8. ASSUME NEW r \in Replicas, Visit(r) PROVE IInv'
    BY <2>8, VisitStep
  <2>9. ASSUME NEW r \in Replicas, CommitWatch(r) PROVE IInv'
    BY <2>9, CommitWatchStep
  <2> QED BY <2>1, <2>2, <2>3, <2>4, <2>5, <2>6, <2>7, <2>8, <2>9 DEF Next
<1> QED BY <1>1, InitInv, PTL DEF Spec

\* "Drained" is true: a pass closed as ok has had every job it enqueued taken off the
\* queue (run_history.py, close_drained_full_passes), for any number of replicas.
THEOREM DrainedPassesWereTried == Spec => []DrainedMeansTried
<1>1. IInv => DrainedMeansTried
  BY DEF IInv, Drained, DrainedMeansTried
<1> QED BY <1>1, Invariant, PTL

\* The oldest-first walk that stops at a draining row (run_history.py): no press closes
\* before one that was recorded when it began, whatever the watchers' races.
THEOREM YoungerPressesWait == Spec => []YoungerWaits
<1>1. IInv => YoungerWaits
  BY DEF IInv
<1> QED BY <1>1, Invariant, PTL

\* The finished_at IS NULL of the closing UPDATE (run_history.py): the verdict of a
\* closed pass is never written again; its row can only be trimmed.
THEOREM VerdictsAreFinal == Spec => ClosedForGood
<1>1. IInv /\ [Next]_vars =>
        [\A p \in PassIds : pass[p].state \in Ended =>
           pass'[p].state \in {pass[p].state, "trimmed"}]_vars
  <2> SUFFICES ASSUME IInv, Next, NEW p \in PassIds, pass[p].state \in Ended
               PROVE  pass'[p].state \in {pass[p].state, "trimmed"}
    OBVIOUS
  <2>1. pass[p].state \notin {"none", "opening", "open"}
    BY DEF Ended, Closed
  <2>2. ASSUME NEW q \in PassIds, BeginPass(q) PROVE pass'[p] = pass[p]
    BY <2>1, <2>2 DEF BeginPass, IInv, TypeOK
  <2>3. ASSUME NEW q \in PassIds, CommitPass(q) PROVE pass'[p] = pass[p]
    BY <2>1, <2>3 DEF CommitPass, IInv, TypeOK
  <2>4. ASSUME NEW q \in PassIds, Age(q) PROVE pass'[p] = pass[p]
    BY <2>1, <2>4 DEF Age, Open, IInv, TypeOK
  <2>5. ASSUME NEW k \in Keys, Webhook(k) PROVE pass'[p] = pass[p]
    BY <2>5, Zenon DEF Webhook
  <2>6. ASSUME NEW j \in JobIds, ClaimJob(j) \/ EndJob(j) \/ DismissJob(j) \/ RetryJob(j) PROVE pass'[p] = pass[p]
    BY <2>6, Zenon DEF ClaimJob, EndJob, DismissJob, RetryJob
  <2>7. ASSUME NEW r \in Replicas, Look(r) \/ Abort(r) \/ Visit(r) PROVE pass'[p] = pass[p]
    BY <2>7, Zenon DEF Look, Abort, Visit
  <2>8. ASSUME NEW r \in Replicas, CommitWatch(r)
        PROVE  pass'[p].state \in {pass[p].state, "trimmed"}
    BY <2>8, CommitWatchStep
  <2> QED BY <2>2, <2>3, <2>4, <2>5, <2>6, <2>7, <2>8 DEF Next
<1> QED BY <1>1, Invariant, PTL DEF Spec, ClosedForGood

\* Everything the run checks of the watcher, for any number of presses and replicas.
THEOREM PassesAreSafe == Spec => []PassSafety
<1>1. IInv => PassSafety
  BY DEF IInv, Drained, DrainedMeansTried, PassSafety
<1> QED BY <1>1, Invariant, PTL
=============================================================================
